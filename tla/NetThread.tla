----------------------------- MODULE NetThread -----------------------------
(***************************************************************************)
(* The older network thread, s6_net_thread.cpp, which receives the packets *)
(* of several beams on a UDP socket.  It differs from s6_pktsock_thread    *)
(* in what happens around the window of two blocks: it is held off until   *)
(* an operator releases it, it runs a write benchmark over the whole ring, *)
(* it takes its packets in batches, it keeps its counts per beam, and a    *)
(* packet of any beam completes a block for all of them.                   *)
(*                                                                         *)
(* Each beam sends its packets in order.  The network may lose packets,    *)
(* damage source ids, and deliver one beam ahead of another.  The packets  *)
(* of a batch are chosen one by one, as the thread comes to them.  In      *)
(* batches the size check of run looks at the packet of the benchmark,     *)
(* which has the right size: no packet is ever refused for its size.       *)
(*                                                                         *)
(* Left out: the data of the blocks, which nothing here reads (a history   *)
(* variable has what was copied there), the channel numbers and their      *)
(* warnings, timing statistics, the in-memory log, and mcnt_log_late,      *)
(* which only silences a warning.                                          *)
(***************************************************************************)
EXTENDS McntArith, Databuf, FiniteSetsExt

CONSTANTS
    N_BEAMS,     \* source ids are 0 .. N_BEAMS - 1
    VLEN,        \* packets of one batch, at most
    U32, U64,    \* the moduli of uint32_t and uint64_t
    Starts,      \* counters the beams may start at
    Length,      \* packets of each beam
    Skew,        \* bound on the lead of one beam over another
    MaxFaults    \* bound on the packets lost or damaged

ASSUME NetThreadAssumption ==
    /\ N_BEAMS \in Nat \ {0} /\ VLEN \in Nat \ {0}
    /\ U32 \in Nat /\ U32 > Nm * N_BEAMS /\ U64 \in Nat /\ U64 > Nm
    /\ Starts \subseteq Nat /\ Length \in Nat /\ Skew \in Nat /\ MaxFaults \in Nat

VARIABLES
    sem, hdr,          \* the input ring: semaphores, headers
    stored,            \* history: <<beam, mcnt>> copied since the header was written
    binfo,             \* the static block_info_t of process_packet
    fill,              \* the statics of set_block_filled, and total_missed_pkts
    pc, pkt,           \* where the thread is, and the packet that completed a block
    left,              \* packets of the batch still to be processed
    mcnt,              \* the batch's last completed block
    status,            \* the thread's keys in the status buffer
    from, next,        \* first counter, next counter of each beam
    faults, damaged    \* packets lost or damaged so far, and damaged only

ring    == <<sem, hdr, stored>>
beams   == <<from, next, faults, damaged>>
netVars == <<ring, binfo, fill, pc, pkt, left, mcnt, status, beams>>
-----------------------------------------------------------------------------
InBlocks == BlockIds(N_INPUT_BLOCKS)
Beams    == 0 .. N_BEAMS - 1
NoMcnt   == -1
NoPacket == [mcnt |-> 0, sid |-> 0]
AllOf(n) == [beam \in Beams |-> n]
Total(f) == MapThenSumSet(LAMBDA beam : f[beam], Beams)

CurBlock == binfo.block_i
Ahead    == NextBlock(binfo.block_i, N_INPUT_BLOCKS)
Dist(p)  == p.mcnt - binfo.mcnt_start

MAX_OUT_OF_SEQ == 2 * N_BEAMS
BadSid(p) == p.sid >= N_BEAMS

InitializeFirstBeam(h, m) ==
    [h EXCEPT ![block_for_mcnt(m)] = [mcnt |-> RoundDown(m), missed_pkts |-> [@.missed_pkts EXCEPT ![0] = Nm]]]

\* initialize_block: rounded counter, and every beam misses all its packets.
InitializeBlock(h, m) ==
    [h EXCEPT ![block_for_mcnt(m)] = [mcnt |-> RoundDown(m), missed_pkts |-> AllOf(Nm)]]

\* The data stays as it is, and under the new header nothing is stored yet.
NoneStored(s, m) == [s EXCEPT ![block_for_mcnt(m)] = {}]

CountPacket(bi, p) ==
    [bi EXCEPT !.out_of_seq_cnt = 0, !.counter[block_for_mcnt(p.mcnt)] = @ + 1]

DecrementMissed(h, p) ==
    IF BadSid(p) THEN h
    ELSE [h EXCEPT ![block_for_mcnt(p.mcnt)].missed_pkts[p.sid] = (@ + (U64 - 1)) % U64]

CopyPayload(s, p) ==
    IF BadSid(p) THEN s ELSE [s EXCEPT ![block_for_mcnt(p.mcnt)] = @ \cup {<<p.sid, p.mcnt>>}]
-----------------------------------------------------------------------------
Init ==
    /\ sem = DatabufCreate(N_INPUT_BLOCKS)
    /\ hdr = [b \in InBlocks |-> [mcnt |-> 0, missed_pkts |-> AllOf(0)]]
    /\ stored = [b \in InBlocks |-> {}]
    /\ binfo = [mcnt_start |-> 0, block_i |-> 0, out_of_seq_cnt |-> 0,
                counter |-> [b \in InBlocks |-> 0]]
    /\ fill = [last_filled |-> -1, missed_pkt_cnt |-> 0, total_missed |-> AllOf(0)]
    /\ pc = "force" /\ pkt = NoPacket /\ left = 0 /\ mcnt = NoMcnt
    /\ status = [NETHOLD |-> "absent", NETBKOUT |-> 0, MISSPKTL |-> 0,
                 MISSPER |-> AllOf(0), NETMCNT |-> NoMcnt]
    /\ from \in Starts
    /\ next = AllOf(from)
    /\ faults = 0 /\ damaged = 0

\* The thread forces itself into the hold-off state, and looks once a second
\* whether it has been released.
ForceHold ==
    /\ pc = "force"
    /\ status' = [status EXCEPT !.NETHOLD = "1"]
    /\ pc' = "hold"
    /\ UNCHANGED <<ring, binfo, fill, pkt, left, mcnt, beams>>

Released == status.NETHOLD = "0"

LookHold ==
    /\ pc = "hold"
    /\ Released
    /\ status' = [status EXCEPT !.NETHOLD = "absent"]
    /\ pc' = "params"
    /\ UNCHANGED <<ring, binfo, fill, pkt, left, mcnt, beams>>

\* The script that starts the program releases the thread, sooner or later.
Operator ==
    /\ pc \in {"force", "hold"}
    /\ status' = [status EXCEPT !.NETHOLD = "0"]
    /\ UNCHANGED <<ring, binfo, fill, pc, pkt, left, mcnt, beams>>

\* Network parameters; the missed-packet keys of the beams are cleared.
Params ==
    /\ pc = "params"
    /\ status' = [status EXCEPT !.MISSPER = AllOf(0)]
    /\ pc' = "start"
    /\ UNCHANGED <<ring, binfo, fill, pkt, left, mcnt, beams>>

\* The first two blocks are acquired and get their headers.
Start ==
    /\ pc = "start"
    /\ IsFree(sem, 0) /\ IsFree(sem, 1)
    /\ hdr' = InitializeBlock(InitializeBlock(hdr, 0), Nm)
    /\ pc' = "bench"
    /\ UNCHANGED <<sem, stored, binfo, fill, pkt, left, mcnt, status, beams>>

\* The benchmark writes into the data of every block of the ring, of which
\* the thread holds two.  It is declared to return a value and does not:
\* control may be lost instead of coming back to run.
Benchmark ==
    /\ pc = "bench"
    /\ stored' = [b \in InBlocks |-> {}]
    /\ pc' \in {"recv", "exited"}
    /\ UNCHANGED <<sem, hdr, binfo, fill, pkt, left, mcnt, status, beams>>
-----------------------------------------------------------------------------
\* Packets still to come.
ToCome == Total([beam \in Beams |-> from + Length - next[beam]])

\* recvmmsg delivers a batch.
ReceiveBatch ==
    /\ pc = "recv"
    /\ left' \in 1 .. VLEN /\ left' <= ToCome
    /\ pc' = "batch"
    /\ UNCHANGED <<ring, binfo, fill, pkt, mcnt, status, beams>>

\* recvmmsg times out, or fails: an error is not noticed.
ReceiveNothing == pc = "recv" /\ UNCHANGED netVars

Stop ==
    /\ pc = "recv"
    /\ pc' = "exited"
    /\ UNCHANGED <<ring, binfo, fill, pkt, left, mcnt, status, beams>>

Exited == pc = "exited" /\ UNCHANGED netVars

\* The next packet of a beam may be delivered, or lost, if the beam does not
\* get further ahead of the slowest one than Skew.
MayAdvance(beam) ==
    /\ next[beam] < from + Length
    /\ next[beam] - Min({next[other] : other \in Beams}) <= Skew

\* process_packet has returned this value for a packet of the batch: run keeps
\* the last one that is a block's counter.
KeepAny(returned)  == returned
KeepLast(returned) == IF returned = NoMcnt THEN mcnt ELSE returned

PacketDone(returned) == left' = left - 1 /\ mcnt' = KeepLast(returned) /\ pc' = "batch"

StorePacket(p) ==
    /\ InWindow(Dist(p)) /\ ~Completes(Dist(p))
    /\ binfo' = CountPacket(binfo, p)
    /\ hdr' = DecrementMissed(hdr, p)
    /\ stored' = CopyPayload(stored, p)
    /\ PacketDone(NoMcnt)
    /\ UNCHANGED <<sem, fill, pkt, status>>

\* A packet of any beam completes the block for all beams.  What the beams
\* miss is taken from the header before the block is passed on.
MarkFilled(p) ==
    /\ Completes(Dist(p))
    /\ fill' = [fill EXCEPT !.last_filled = NextBlock(@, N_INPUT_BLOCKS),
                            !.total_missed = hdr[CurBlock].missed_pkts]
    /\ \/ sem' = SetFilled(sem, block_for_mcnt(binfo.mcnt_start)) /\ pc' = "status"
       \/ UNCHANGED sem /\ pc' = "exited"
    /\ pkt' = p
    /\ UNCHANGED <<hdr, stored, binfo, left, mcnt, status>>

IgnoreLate(p) ==
    /\ IsLate(Dist(p))
    /\ PacketDone(NoMcnt)
    /\ UNCHANGED <<ring, binfo, fill, pkt, status>>

CountOutOfSeq(p) ==
    /\ IsOutOfSeq(Dist(p))
    /\ binfo.out_of_seq_cnt + 1 <= MAX_OUT_OF_SEQ
    /\ binfo' = [binfo EXCEPT !.out_of_seq_cnt = @ + 1]
    /\ PacketDone(NoMcnt)
    /\ UNCHANGED <<ring, fill, pkt, status>>

Resync(p) ==
    /\ IsOutOfSeq(Dist(p))
    /\ binfo.out_of_seq_cnt + 1 > MAX_OUT_OF_SEQ
    /\ LET start == ResetMcnt(p.mcnt, binfo.block_i)
           bi    == block_for_mcnt(start)
       IN  /\ binfo' = [mcnt_start |-> start, block_i |-> bi,
                        out_of_seq_cnt |-> binfo.out_of_seq_cnt + 1,
                        counter |-> [binfo.counter EXCEPT
                                        ![bi] = 0, ![NextBlock(bi, N_INPUT_BLOCKS)] = 0]]
           /\ hdr' = InitializeBlock(InitializeBlock(hdr, start), start + Nm)
           /\ stored' = NoneStored(NoneStored(stored, start), start + Nm)
    /\ PacketDone(NoMcnt)
    /\ UNCHANGED <<sem, fill, pkt, status>>

\* process_packet, up to where it waits or returns.
ProcessPacket(p) ==
    \/ StorePacket(p) \/ MarkFilled(p) \/ IgnoreLate(p) \/ CountOutOfSeq(p) \/ Resync(p)

\* The next packet of the batch is one of this beam, as it was sent or with a
\* damaged source id.
Process(beam) ==
    /\ pc = "batch" /\ left > 0
    /\ MayAdvance(beam)
    /\ \/ ProcessPacket([mcnt |-> next[beam], sid |-> beam]) /\ UNCHANGED <<faults, damaged>>
       \/ /\ faults < MaxFaults /\ faults' = faults + 1 /\ damaged' = damaged + 1
          /\ ProcessPacket([mcnt |-> next[beam], sid |-> N_BEAMS])
    /\ next' = [next EXCEPT ![beam] = @ + 1]
    /\ UNCHANGED from

\* The network loses the next packet of this beam.
Lose(beam) ==
    /\ pc = "recv" /\ faults < MaxFaults
    /\ MayAdvance(beam)
    /\ faults' = faults + 1
    /\ next' = [next EXCEPT ![beam] = @ + 1]
    /\ UNCHANGED <<ring, binfo, fill, pc, pkt, left, mcnt, status, from, damaged>>
-----------------------------------------------------------------------------
BlockMissed == (Nm * N_BEAMS - binfo.counter[CurBlock]) % U32

AdvanceNoWrap == [binfo EXCEPT !.mcnt_start = @ + Nm, !.block_i = @ + 1]
Advance       == [binfo EXCEPT !.mcnt_start = @ + Nm, !.block_i = Ahead]

\* The rest of set_block_filled: the running total, what each beam misses,
\* and the move of the window.
UpdateStatus ==
    /\ pc = "status"
    /\ fill' = [fill EXCEPT !.missed_pkt_cnt = (@ + BlockMissed) % U32]
    /\ status' = [status EXCEPT !.NETBKOUT = block_for_mcnt(binfo.mcnt_start),
                                !.MISSPKTL = fill'.missed_pkt_cnt,
                                !.MISSPER = fill.total_missed]
    /\ binfo' = Advance
    /\ pc' = "acquire"
    /\ UNCHANGED <<ring, pkt, left, mcnt, beams>>

NewBlockReadyWrongBlock == IsFree(sem, CurBlock)
NewBlockReady           == IsFree(sem, Ahead)

CountersUnreset == binfo
CountersReset   == [binfo EXCEPT !.counter[Ahead] = 0]

AcquireNext ==
    /\ pc = "acquire"
    /\ NewBlockReady
    /\ hdr' = DecrementMissed(InitializeBlock(hdr, pkt.mcnt + Nm), pkt)
    /\ stored' = CopyPayload(NoneStored(stored, pkt.mcnt + Nm), pkt)
    /\ binfo' = CountPacket(CountersReset, pkt)
    /\ pkt' = NoPacket
    /\ PacketDone(IF BadSid(pkt) THEN NoMcnt ELSE binfo.mcnt_start - Nm)
    /\ UNCHANGED <<sem, fill, status, beams>>

WaitFails ==
    /\ pc \in {"start", "acquire"}
    /\ pc' = "exited"
    /\ UNCHANGED <<ring, binfo, fill, pkt, left, mcnt, status, beams>>

\* The batch is done: NETMCNT names the last block completed in it.
ReportBatch ==
    /\ pc = "batch" /\ left = 0
    /\ status' = IF mcnt = NoMcnt THEN status ELSE [status EXCEPT !.NETMCNT = mcnt]
    /\ mcnt' = NoMcnt
    /\ pc' = "recv"
    /\ UNCHANGED <<ring, binfo, fill, pkt, left, beams>>

\* The consumer of the ring is done with a block.
Drain(b) ==
    /\ IsFilled(sem, b)
    /\ sem' = SetFree(sem, b)
    /\ UNCHANGED <<hdr, stored, binfo, fill, pc, pkt, left, mcnt, status, beams>>

\* The steps of the thread that nobody else decides.
ThreadStep ==
    \/ ForceHold \/ LookHold \/ Params \/ Start \/ Benchmark
    \/ ReceiveBatch \/ UpdateStatus \/ AcquireNext \/ ReportBatch

Processing == \E beam \in Beams : Process(beam)

Next ==
    \/ ThreadStep \/ Processing \/ Operator
    \/ ReceiveNothing \/ Stop \/ Exited \/ WaitFails
    \/ \E beam \in Beams : Lose(beam)
    \/ \E b \in InBlocks : Drain(b)

\* The thread takes every step it can: it polls, with a time limit or
\* spinning, and packets keep arriving.  The consumer frees every filled block.
Fairness ==
    /\ WF_netVars(ThreadStep) /\ WF_netVars(Processing)
    /\ \A b \in InBlocks : WF_netVars(Drain(b))

Spec == Init /\ [][Next]_netVars /\ Fairness
-----------------------------------------------------------------------------
(***************************************************************************)
(* Every variable keeps its type.                                          *)
(***************************************************************************)
NetTypeOK ==
    /\ sem \in [InBlocks -> BlockState]
    /\ hdr \in [InBlocks -> [mcnt : Nat, missed_pkts : [Beams -> 0 .. U64 - 1]]]
    /\ stored \in [InBlocks -> SUBSET (Beams \X (0 .. from + Length))]
    /\ binfo \in [mcnt_start : Nat, block_i : InBlocks, out_of_seq_cnt : Nat,
                  counter : [InBlocks -> Nat]]
    /\ fill \in [last_filled : InBlocks \cup {-1}, missed_pkt_cnt : 0 .. U32 - 1,
                 total_missed : [Beams -> 0 .. U64 - 1]]
    /\ pc \in {"force", "hold", "params", "start", "bench", "recv", "batch", "status",
               "acquire", "exited"}
    /\ pkt \in [mcnt : Nat, sid : Nat] /\ left \in 0 .. VLEN /\ mcnt \in Nat \cup {NoMcnt}
    /\ status \in [NETHOLD : {"absent", "0", "1"}, NETBKOUT : InBlocks, MISSPKTL : 0 .. U32 - 1,
                   MISSPER : [Beams -> 0 .. U64 - 1], NETMCNT : Nat \cup {NoMcnt}]

\* Damaged source ids break some of the promises below, see bad_sid of
\* MCPktsock.
NoFaults == faults = 0
NoDamage == damaged = 0

(***************************************************************************)
(* The packets of a batch are stored in two blocks that the thread holds,  *)
(* under the headers of the window, which follow the slot filled last.     *)
(***************************************************************************)
HoldsWindow ==
    /\ pc \in {"recv", "batch"} =>
        /\ binfo.block_i = NextBlock(fill.last_filled, N_INPUT_BLOCKS)
        /\ IsFree(sem, CurBlock) /\ hdr[CurBlock].mcnt = binfo.mcnt_start
        /\ IsFree(sem, Ahead) /\ hdr[Ahead].mcnt = binfo.mcnt_start + Nm
    /\ pc = "status" => binfo.block_i = fill.last_filled

(***************************************************************************)
(* missed_pkts counts, for each beam, the packets that the block lacks     *)
(* ("per-beam missed packet counters"): what the benchmark or an earlier   *)
(* use left in the slot of a missing packet is never taken for data.       *)
(***************************************************************************)
BeamGapsCounted ==
    \A b \in InBlocks :
        IsFilled(sem, b) \/ (pc \in {"recv", "batch"} /\ b \in {CurBlock, Ahead}) =>
            \A beam \in Beams :
                hdr[b].missed_pkts[beam] = Nm - Cardinality({s \in stored[b] : s[1] = beam})

(***************************************************************************)
(* One beam's packet closes the block of all beams.  As long as no beam    *)
(* leads by more than half a block, and nothing is lost, no packet comes   *)
(* too late for its block: after the first packets every block is whole.   *)
(***************************************************************************)
WholeWithinSkew ==
    NoFaults =>
        \A b \in InBlocks :
            IsFilled(sem, b) /\ hdr[b].mcnt > from + MAX_OUT_OF_SEQ =>
                stored[b] = Beams \X (hdr[b].mcnt .. hdr[b].mcnt + Nm - 1)

(***************************************************************************)
(* Between batches the status buffer names the block filled last, wherever *)
(* in a batch it was completed, and of several the last.                   *)
(***************************************************************************)
ReportsLastBlock ==
    pc = "recv" /\ fill.last_filled # -1 /\ NoFaults =>
        /\ status.NETBKOUT = fill.last_filled
        /\ status.NETMCNT = binfo.mcnt_start - Nm

(***************************************************************************)
(* Between set filled and set free, the thread changes neither header nor  *)
(* data of a block; the benchmark, which writes into all, comes too early. *)
(***************************************************************************)
LeavesFilledAlone ==
    [][\A b \in InBlocks : IsFilled(sem, b) => hdr'[b] = hdr[b] /\ stored'[b] = stored[b]]_netVars

(***************************************************************************)
(* MISSPKTL, which is counted by block, grows by what the beams miss       *)
(* according to MISSPERx, which is counted by beam ("count all missed      *)
(* packets as dropped"): lost packets are missed in both.  (A packet with   *)
(* a damaged id is missed by its beam, and none of the block's.)           *)
(***************************************************************************)
TotalsAgree ==
    [][UpdateStatus /\ NoDamage =>
        status'.MISSPKTL = (status.MISSPKTL + Total(status'.MISSPER)) % U32]_netVars

(***************************************************************************)
(* Released and not stopped, the thread catches the beams wherever they    *)
(* start, in spite of the packets lost or damaged: in the end its window   *)
(* is at the end of the stream.                                            *)
(***************************************************************************)
CatchesBeams ==
    <>[](\/ pc \in {"hold", "exited"}
         \/ RoundDown(from + Length) - binfo.mcnt_start \in 0 .. Nm)
=============================================================================
