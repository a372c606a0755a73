----------------------------- MODULE FrameRing -----------------------------
(***************************************************************************)
(* The ring of frames between the kernel and the network thread: the       *)
(* packet socket of the hashpipe library, as run in s6_pktsock_thread.cpp  *)
(* uses it.  The kernel puts each packet of the network into the next      *)
(* frame of the ring, and drops it when that frame is still with the       *)
(* thread (the drops that NETDROPS counts); the thread receives the frames *)
(* in the same order, and has to release each one back to the kernel.      *)
(*                                                                         *)
(* A packet is one of two kinds: of a valid size, or not.  What            *)
(* process_packet does with a valid one is the subject of Pktsock.         *)
(***************************************************************************)
EXTENDS Integers

CONSTANTS
    NFRAMES,  \* frames in the ring
    MaxBad    \* bound on the wrongly sized packets of the network

ASSUME FrameRingAssumption == NFRAMES \in Nat /\ NFRAMES >= 1 /\ MaxBad \in Nat

VARIABLES
    frame,    \* each frame: "kernel", or the kind of the packet put in it
    head,     \* the frame the kernel fills next
    next_idx, \* the frame the thread receives next
    frame_pc, \* "drop" at the start, then "recv", "process" or "release"
    p_frame,  \* the frame in hand
    bad       \* wrongly sized packets so far

frameVars == <<frame, head, next_idx, frame_pc, p_frame, bad>>

Frames == 0 .. NFRAMES - 1
Kinds  == {"valid", "invalid"}

FrameInit ==
    /\ frame = [f \in Frames |-> "kernel"]
    /\ head = 0 /\ next_idx = 0
    /\ frame_pc = "drop" /\ p_frame = 0
    /\ bad = 0

\* A packet comes in.  With its frame still taken, it is dropped.
Arrive(kind) ==
    /\ kind = "invalid" => bad < MaxBad
    /\ bad' = bad + (IF kind = "invalid" THEN 1 ELSE 0)
    /\ \/ /\ frame[head] = "kernel"
          /\ frame' = [frame EXCEPT ![head] = kind]
          /\ head' = (head + 1) % NFRAMES
       \/ frame[head] # "kernel" /\ UNCHANGED <<frame, head>>
    /\ UNCHANGED <<next_idx, frame_pc, p_frame>>

\* hashpipe_pktsock_release_frame
ReleaseFollowing(f) == frame' = [frame EXCEPT ![(f + 1) % NFRAMES] = "kernel"]
ReleaseFrame(f)     == frame' = [frame EXCEPT ![f] = "kernel"]

\* Before it starts, run drops all packets to date.
DropOld ==
    /\ frame_pc = "drop"
    /\ \/ /\ frame[next_idx] # "kernel"
          /\ ReleaseFrame(next_idx)
          /\ next_idx' = (next_idx + 1) % NFRAMES
          /\ UNCHANGED frame_pc
       \/ /\ frame[next_idx] = "kernel"
          /\ frame_pc' = "recv"
          /\ UNCHANGED <<frame, next_idx>>
    /\ UNCHANGED <<head, p_frame, bad>>

\* hashpipe_pktsock_recv_udp_frame_nonblock finds a packet, and its size is
\* looked at.  A wrong one is ignored: run goes on to the next frame.
ReceiveFrame ==
    /\ frame_pc = "recv"
    /\ frame[next_idx] # "kernel"
    /\ p_frame' = next_idx
    /\ next_idx' = (next_idx + 1) % NFRAMES
    /\ frame_pc' = IF frame[next_idx] = "invalid" THEN "recv" ELSE "process"
    /\ UNCHANGED <<frame, head, bad>>

ProcessPacket ==
    /\ frame_pc = "process"
    /\ frame_pc' = "release"
    /\ UNCHANGED <<frame, head, next_idx, p_frame, bad>>

Release ==
    /\ frame_pc = "release"
    /\ ReleaseFrame(p_frame)
    /\ frame_pc' = "recv"
    /\ UNCHANGED <<head, next_idx, p_frame, bad>>

RunStep == DropOld \/ ReceiveFrame \/ ProcessPacket \/ Release

FrameNext == RunStep \/ \E kind \in Kinds : Arrive(kind)

\* The thread takes every step it can, and valid packets keep coming.
FrameFairness == WF_frameVars(RunStep) /\ SF_frameVars(Arrive("valid"))

FrameSpec == FrameInit /\ [][FrameNext]_frameVars /\ FrameFairness
-----------------------------------------------------------------------------
\* The oldest frame the thread has not released.
Oldest == IF frame_pc \in {"process", "release"} THEN p_frame ELSE next_idx

(***************************************************************************)
(* The frames that are not with the kernel are those from the oldest one   *)
(* in use round to the one the kernel fills next: the kernel drops packets *)
(* only when every frame waits to be processed, and no packet is received  *)
(* twice.                                                                  *)
(***************************************************************************)
TakenFramesAreQueued ==
    LET taken == {f \in Frames : frame[f] # "kernel"}
        ahead == (head - Oldest) % NFRAMES
    IN  taken = IF ahead = 0 /\ taken # {} THEN Frames
                ELSE {(Oldest + k) % NFRAMES : k \in 0 .. ahead - 1}

(***************************************************************************)
(* The thread ignores a wrongly sized packet ("Log warning and ignore      *)
(* wrongly sized packet"), which is to say that it goes on with the        *)
(* others: as long as valid packets come it keeps processing packets.      *)
(***************************************************************************)
KeepsProcessing == (frame_pc = "recv") ~> (frame_pc = "process")
=============================================================================
