------------------------------ MODULE Pktsock ------------------------------
(***************************************************************************)
(* The network thread of the FAST build, s6_pktsock_thread.cpp.  It takes  *)
(* packets one at a time from a packet socket and assembles them into the  *)
(* blocks of the input ring.  It always holds two blocks: the current one, *)
(* which starts at mcnt_start, and the next.  A packet of the second half  *)
(* of the next block completes the current one: the block is stamped and   *)
(* set filled, the status buffer updated, the window moved by one block,   *)
(* and the thread waits for the block after the new current one.           *)
(*                                                                         *)
(* The network may lose, repeat, delay and reorder packets, carry packets  *)
(* of another source, and restart its counter.  The consumer of the ring   *)
(* is here reduced to its effect: it frees filled blocks, in any order and *)
(* at any time.                                                            *)
(*                                                                         *)
(* The data of a block is never cleared: what the slot held before stays   *)
(* until a packet is copied to the same place.  A payload is here the mcnt *)
(* of its packet, and the place it is copied to is that mcnt modulo Nm.    *)
(*                                                                         *)
(* Left out: the channel numbers (constants of the FAST build), the timing *)
(* statistics, log messages, and the voltage dump.                         *)
(***************************************************************************)
EXTENDS McntArith, Databuf, FiniteSets

CONSTANTS
    N_SOURCE_NODES,  \* source ids are 0 .. N_SOURCE_NODES - 1
    N_BEAMS,         \* beams of the receiver
    N_BORS,          \* beams, or subspectra, of one instance: 1 for FAST
    U32, U64,        \* the moduli of uint32_t and uint64_t
    Mcnts,           \* the counters that packets carry
    Sids,            \* the source ids that packets carry
    Duplicates       \* may the network repeat a packet?

ASSUME PktsockAssumption ==
    /\ N_SOURCE_NODES \in Nat /\ N_SOURCE_NODES >= 1
    /\ N_BEAMS \in Nat /\ N_BEAMS >= 1
    /\ N_BORS \in Nat /\ N_BORS >= 1
    /\ U32 \in Nat /\ U32 > Nm * N_BEAMS
    /\ U64 \in Nat /\ U64 > Nm
    /\ Mcnts \subseteq Nat
    /\ Sids \subseteq Nat
    /\ Duplicates \in BOOLEAN

VARIABLES
    sem,          \* semaphores of the input ring
    hdr,          \* block headers of the input ring
    data,         \* mcnts of the payloads in the data of each block
    stored,       \* history: those copied there since its header was written
    binfo,        \* the static block_info_t of process_packet
    last_filled,  \* the static of set_block_filled
    pc,           \* where the thread is
    pkt,          \* the packet being processed, when pc is past "recv"
    netmcnt,      \* the value process_packet will return
    status        \* the thread's keys in the status buffer

vars == <<sem, hdr, data, stored, binfo, last_filled, pc, pkt, netmcnt, status>>
-----------------------------------------------------------------------------
InBlocks == BlockIds(N_INPUT_BLOCKS)
Packets  == [mcnt : Mcnts, sid : Sids]
NoMcnt   == -1  \* (uint64_t) -1, "no block was filled"
NoTime   == -1  \* a header that was never stamped
NoPacket == [mcnt |-> 0, sid |-> 0]

\* The two blocks the thread holds.
CurBlock  == binfo.block_i
Ahead     == NextBlock(binfo.block_i, N_INPUT_BLOCKS)

N_PACKETS_PER_BLOCK == Nm * N_BEAMS
MAX_OUT_OF_SEQ      == 2 * N_BORS

\* The source id of a header word: (beam-1)*2+pol.  An id that is no beam of
\* the receiver is rejected.
BadSid(p) == p.sid >= N_SOURCE_NODES

Dist(p) == p.mcnt - binfo.mcnt_start

\* The mcnts of the block that starts at m.
BlockMcnts(m) == m .. m + Nm - 1

(***************************************************************************)
(* initialize_block on the headers h: the block of mcnt gets the rounded   *)
(* counter, the source id of the packet at hand and a full count of        *)
(* missing packets.  The time stamp stays.                                 *)
(***************************************************************************)
InitializeBlockUnrounded(h, mcnt, sid) ==
    [h EXCEPT ![block_for_mcnt(mcnt)] =
        [mcnt |-> mcnt, sid |-> sid, time |-> @.time, missed_pkts |-> Nm]]

InitializeBlockKeepMissed(h, mcnt, sid) ==
    [h EXCEPT ![block_for_mcnt(mcnt)] =
        [mcnt |-> RoundDown(mcnt), sid |-> sid, time |-> @.time, missed_pkts |-> @.missed_pkts]]

InitializeBlock(h, mcnt, sid) ==
    [h EXCEPT ![block_for_mcnt(mcnt)] =
        [mcnt |-> RoundDown(mcnt), sid |-> sid, time |-> @.time, missed_pkts |-> Nm]]

\* initialize_block does not clear the data ("in theory, the block's data
\* could be cleared as well"): under the new header nothing is stored yet, and
\* only the history says so.
NoneStored(s, mcnt) == [s EXCEPT ![block_for_mcnt(mcnt)] = {}]

\* One more packet for the block of p; the run of out-of-sequence packets is over.
CountPacket(bi, p) ==
    [bi EXCEPT !.out_of_seq_cnt = 0, !.counter[block_for_mcnt(p.mcnt)] = @ + 1]

\* A packet with a good source id takes one off the missing packets.
DecrementMissed(h, p) ==
    IF BadSid(p) THEN h
    ELSE [h EXCEPT ![block_for_mcnt(p.mcnt)].missed_pkts = (@ + (U64 - 1)) % U64]

\* ... and its payload replaces what is at its place in the block.
CopyPayload(d, p) ==
    IF BadSid(p) THEN d
    ELSE [d EXCEPT ![block_for_mcnt(p.mcnt)] =
            {m \in @ : m % Nm # p.mcnt % Nm} \cup {p.mcnt}]

\* The history of the same copy.
NoteStored(s, p) ==
    IF BadSid(p) THEN s ELSE [s EXCEPT ![block_for_mcnt(p.mcnt)] = @ \cup {p.mcnt}]
-----------------------------------------------------------------------------
Init ==
    /\ sem = DatabufCreate(N_INPUT_BLOCKS)
    /\ hdr = [b \in InBlocks |-> [mcnt |-> 0, sid |-> 0, time |-> NoTime, missed_pkts |-> 0]]
    /\ data = [b \in InBlocks |-> {}]
    /\ stored = [b \in InBlocks |-> {}]
    /\ binfo = [mcnt_start |-> 0, block_i |-> 0, out_of_seq_cnt |-> 0,
                counter |-> [b \in InBlocks |-> 0]]
    /\ last_filled = -1
    /\ pc = "start"
    /\ pkt = NoPacket
    /\ netmcnt = NoMcnt
    /\ status = [NETBKOUT |-> 0, MISSEDBM |-> 0, MISSEDPK |-> 0, NETMCNT |-> NoMcnt]

\* Acquire the first two blocks and write their headers, for mcnts 0 and Nm
\* and source id 0; then clear the missed-packet keys.
Start ==
    /\ pc = "start"
    /\ IsFree(sem, 0) /\ IsFree(sem, 1)
    /\ hdr' = InitializeBlock(InitializeBlock(hdr, 0, 0), Nm, 0)
    /\ status' = [status EXCEPT !.MISSEDBM = 0, !.MISSEDPK = 0]
    /\ pc' = "recv"
    /\ UNCHANGED <<sem, data, stored, binfo, last_filled, pkt, netmcnt>>

\* A frame of the wrong size is skipped.
SkipFrame == pc = "recv" /\ UNCHANGED vars

\* A packet of the window that does not complete the current block.  With a
\* bad source id it is counted, but neither copied nor taken off the missing.
StorePacket(p) ==
    /\ InWindow(Dist(p)) /\ ~Completes(Dist(p))
    /\ binfo' = CountPacket(binfo, p)
    /\ hdr' = DecrementMissed(hdr, p)
    /\ data' = CopyPayload(data, p)
    /\ stored' = NoteStored(stored, p)
    /\ UNCHANGED <<sem, last_filled, pc, pkt, netmcnt, status>>

\* The time of completion, which stands here for the mcnt_start it is read at.
StampNextBlock == [hdr EXCEPT ![Ahead].time = binfo.mcnt_start]
StampBlock     == [hdr EXCEPT ![CurBlock].time = binfo.mcnt_start]

(***************************************************************************)
(* A packet that completes the current block.  The block is stamped and    *)
(* set filled, from when on the consumer may take it.  set_block_filled    *)
(* only warns when the slot is not the one after the last it filled.       *)
(***************************************************************************)
MarkFilled(p) ==
    /\ Completes(Dist(p))
    /\ hdr' = StampBlock
    /\ last_filled' = (last_filled + 1) % N_INPUT_BLOCKS
    /\ sem' = SetFilled(sem, block_for_mcnt(binfo.mcnt_start))
    /\ pkt' = p
    /\ pc' = "status"
    /\ UNCHANGED <<data, stored, binfo, netmcnt, status>>

\* The semaphore cannot be set: the thread exits with the block stamped only.
SetFilledFails(p) ==
    /\ Completes(Dist(p))
    /\ hdr' = StampBlock
    /\ last_filled' = (last_filled + 1) % N_INPUT_BLOCKS
    /\ pc' = "exited"
    /\ UNCHANGED <<sem, data, stored, binfo, pkt, netmcnt, status>>
-----------------------------------------------------------------------------
\* The packets missing from the current block, as an unsigned difference; the
\* status buffer gets whole beams and a rest.
BlockMissed == (N_PACKETS_PER_BLOCK - binfo.counter[CurBlock]) % U32

\* The counter that names the block just filled.
FilledMcntAfterAdvance == binfo.mcnt_start + Nm
FilledMcnt             == binfo.mcnt_start

\* The window moves by one block.
AdvanceNoWrap == [binfo EXCEPT !.mcnt_start = @ + Nm, !.block_i = @ + 1]
Advance       == [binfo EXCEPT !.mcnt_start = @ + Nm, !.block_i = Ahead]

\* The rest of set_block_filled and the move to the next block.
UpdateStatus ==
    /\ pc = "status"
    /\ status' = [status EXCEPT
                    !.NETBKOUT = block_for_mcnt(binfo.mcnt_start),
                    !.MISSEDBM = BlockMissed \div Nm,
                    !.MISSEDPK = (@ + (BlockMissed % Nm)) % U32]
    /\ netmcnt' = FilledMcnt
    /\ binfo' = Advance
    /\ pc' = "acquire"
    /\ UNCHANGED <<sem, hdr, data, stored, last_filled, pkt>>

\* The thread spins until the block after the new current one is free.
NewBlockReadyWrongBlock == IsFree(sem, CurBlock)
NewBlockReady           == IsFree(sem, Ahead)

CountersUnreset == binfo
CountersReset   == [binfo EXCEPT !.counter[Ahead] = 0]

(***************************************************************************)
(* The new block gets its header, and the packet at hand is counted and    *)
(* stored.  A bad source id is noticed only here, and loses the return     *)
(* value.                                                                  *)
(***************************************************************************)
AcquireNext ==
    /\ pc = "acquire"
    /\ NewBlockReady
    /\ hdr' = DecrementMissed(InitializeBlock(hdr, pkt.mcnt + Nm, pkt.sid), pkt)
    /\ data' = CopyPayload(data, pkt)
    /\ stored' = NoteStored(NoneStored(stored, pkt.mcnt + Nm), pkt)
    /\ binfo' = CountPacket(CountersReset, pkt)
    /\ netmcnt' = IF BadSid(pkt) THEN NoMcnt ELSE netmcnt
    /\ pc' = "return"
    /\ UNCHANGED <<sem, last_filled, pkt, status>>

\* Waiting for a block fails: the thread exits, and the ring stays as it is.
WaitFails ==
    /\ pc \in {"start", "acquire"}
    /\ pc' = "exited"
    /\ UNCHANGED <<sem, hdr, data, stored, binfo, last_filled, pkt, netmcnt, status>>

\* run_threads() turns false: run leaves its loop between two packets.
Stop ==
    /\ pc = "recv"
    /\ pc' = "exited"
    /\ UNCHANGED <<sem, hdr, data, stored, binfo, last_filled, pkt, netmcnt, status>>

Exited == pc = "exited" /\ UNCHANGED vars

\* Back in run: a value other than -1 goes to the status buffer.
Return ==
    /\ pc = "return"
    /\ status' = IF netmcnt = NoMcnt THEN status ELSE [status EXCEPT !.NETMCNT = netmcnt]
    /\ netmcnt' = NoMcnt
    /\ pkt' = NoPacket
    /\ pc' = "recv"
    /\ UNCHANGED <<sem, hdr, data, stored, binfo, last_filled>>
-----------------------------------------------------------------------------
\* A late packet is ignored, and its source id never looked at.
IgnoreLate(p) == IsLate(Dist(p)) /\ UNCHANGED vars

\* The first MAX_OUT_OF_SEQ packets out of sequence are dropped.
CountOutOfSeq(p) ==
    /\ IsOutOfSeq(Dist(p))
    /\ binfo.out_of_seq_cnt + 1 <= MAX_OUT_OF_SEQ
    /\ binfo' = [binfo EXCEPT !.out_of_seq_cnt = @ + 1]
    /\ UNCHANGED <<sem, hdr, data, stored, last_filled, pc, pkt, netmcnt, status>>

(***************************************************************************)
(* One more, and the thread resynchronises on it: both blocks it holds are *)
(* recycled under new headers, with the data they have.  The count of      *)
(* out-of-sequence packets stays, and the packet itself is dropped.        *)
(***************************************************************************)
Resync(p) ==
    /\ IsOutOfSeq(Dist(p))
    /\ binfo.out_of_seq_cnt + 1 > MAX_OUT_OF_SEQ
    /\ LET start == ResetMcnt(p.mcnt, binfo.block_i)
           bi    == block_for_mcnt(start)
       IN  /\ binfo' = [mcnt_start |-> start, block_i |-> bi,
                        out_of_seq_cnt |-> binfo.out_of_seq_cnt + 1,
                        counter |-> [binfo.counter EXCEPT
                                        ![bi] = 0, ![NextBlock(bi, N_INPUT_BLOCKS)] = 0]]
           /\ hdr' = InitializeBlock(InitializeBlock(hdr, start, p.sid), start + Nm, p.sid)
           /\ stored' = NoneStored(NoneStored(stored, start), start + Nm)
    /\ UNCHANGED <<sem, data, last_filled, pc, pkt, netmcnt, status>>

\* The network does not repeat p while p can still be stored.
NotRepeated(p) ==
    Duplicates \/ ~InWindow(Dist(p)) \/ p.mcnt \notin stored[block_for_mcnt(p.mcnt)]

\* process_packet, up to where it waits or returns.
Receive(p) ==
    /\ pc = "recv"
    /\ NotRepeated(p)
    /\ \/ StorePacket(p)
       \/ MarkFilled(p)
       \/ SetFilledFails(p)
       \/ IgnoreLate(p)
       \/ CountOutOfSeq(p)
       \/ Resync(p)

\* The consumer is done with a filled block.
Drain(b) ==
    /\ IsFilled(sem, b)
    /\ sem' = SetFree(sem, b)
    /\ UNCHANGED <<hdr, data, stored, binfo, last_filled, pc, pkt, netmcnt, status>>

ThreadStep ==
    \/ Start \/ SkipFrame \/ UpdateStatus \/ AcquireNext \/ Return
    \/ WaitFails \/ Stop \/ Exited

Next ==
    \/ \E p \in Packets : Receive(p)
    \/ ThreadStep
    \/ \E b \in InBlocks : Drain(b)

Spec == Init /\ [][Next]_vars
-----------------------------------------------------------------------------
\* A block header.
Header == [mcnt : Nat, sid : Nat, time : Nat \cup {NoTime}, missed_pkts : 0 .. U64 - 1]

\* Every variable keeps its type: in particular the block index stays in the
\* ring and the unsigned counters in their width.
TypeOK ==
    /\ sem \in [InBlocks -> BlockState]
    /\ hdr \in [InBlocks -> Header]
    /\ data \in [InBlocks -> SUBSET Nat]
    /\ stored \in [InBlocks -> SUBSET Nat]
    /\ binfo \in [mcnt_start : Nat, block_i : InBlocks, out_of_seq_cnt : Nat,
                  counter : [InBlocks -> Nat]]
    /\ last_filled \in InBlocks \cup {-1}
    /\ pc \in {"start", "recv", "status", "acquire", "return", "exited"}
    /\ pkt \in [mcnt : Nat, sid : Nat]
    /\ netmcnt \in Nat \cup {NoMcnt}
    /\ status \in [NETBKOUT : InBlocks, MISSEDBM : Nat, MISSEDPK : 0 .. U32 - 1,
                   NETMCNT : Nat \cup {NoMcnt}]

(***************************************************************************)
(* The blocks are filled round the ring, whatever the network does: the    *)
(* slot of the current block agrees with its counter and follows the slot  *)
(* filled last.  The two checks of set_block_filled (DIE_ON_OUT_OF_SEQ_FILL *)
(* aborts on the first) never fire, resynchronisations included.           *)
(***************************************************************************)
FillOrder ==
    /\ block_for_mcnt(binfo.mcnt_start) = binfo.block_i
    /\ pc = "status" => binfo.block_i = last_filled
    /\ pc \notin {"status", "exited"} => binfo.block_i = (last_filled + 1) % N_INPUT_BLOCKS

\* Block b is in the thread's hands, under the header of the block that
\* starts at mcnt m.
Holds(b, m) == IsFree(sem, b) /\ hdr[b].mcnt = m

(***************************************************************************)
(* While the thread may write into a block it holds it: the current block  *)
(* and the next one are free, and their headers name the two successive    *)
(* blocks of the window that arriving packets are sorted by.               *)
(***************************************************************************)
OwnsWindow ==
    /\ pc \in {"recv", "acquire", "return"} => Holds(CurBlock, binfo.mcnt_start)
    /\ pc \in {"recv", "status", "return"} => Holds(Ahead, binfo.mcnt_start + Nm)

(***************************************************************************)
(* What is stored in a block belongs under its header, and stays: no       *)
(* packet is copied to a slot that the ring has meanwhile given to another *)
(* block, and none is overwritten by another packet of its block.          *)
(***************************************************************************)
StoredUnderHeader ==
    \A b \in InBlocks : stored[b] \subseteq data[b] \cap BlockMcnts(hdr[b].mcnt)

(***************************************************************************)
(* A filled block carries the time at which it was completed, the "unix    *)
(* time that this block was marked complete", and not a stamp left over    *)
(* from an earlier use of the slot.                                        *)
(***************************************************************************)
StampIsOfThisFill ==
    \A b \in InBlocks : IsFilled(sem, b) => hdr[b].time = hdr[b].mcnt

\* Before the first packet nothing has moved.
NothingMovedAtStart ==
    pc = "start" => /\ binfo.mcnt_start = 0 /\ binfo.block_i = 0
                    /\ \A b \in InBlocks : stored[b] = {}

\* Each place of a block has the payload of one packet at most, of this slot.
OnePerPlace ==
    \A b \in InBlocks : \A m \in data[b] :
        /\ block_for_mcnt(m) = b
        /\ \A n \in data[b] : m % Nm = n % Nm => m = n

\* The packet that completed a block belongs to the block after it.
PacketInNextBlock ==
    /\ pc = "status"  => pkt.mcnt \in BlockMcnts(binfo.mcnt_start + Nm)
    /\ pc = "acquire" => pkt.mcnt \in BlockMcnts(binfo.mcnt_start)

(***************************************************************************)
(* The inductive invariant.  Who holds which block depends on the slot     *)
(* arithmetic (FillOrder), and what goes into it on the headers            *)
(* (OwnsWindow), so that neither is inductive without the other.           *)
(***************************************************************************)
IInv ==
    /\ TypeOK
    /\ NothingMovedAtStart
    /\ binfo.mcnt_start % Nm = 0
    /\ PacketInNextBlock
    /\ FillOrder
    /\ OwnsWindow
    /\ StoredUnderHeader
    /\ OnePerPlace
    /\ StampIsOfThisFill

(***************************************************************************)
(* From the moment a block is set filled until the consumer frees it, the  *)
(* network thread changes neither its header nor its data.                 *)
(***************************************************************************)
LeavesFilledBlocks ==
    \A b \in InBlocks : IsFilled(sem, b) =>
        hdr'[b] = hdr[b] /\ data'[b] = data[b] /\ stored'[b] = stored[b]

FilledBlockFrozen == [][LeavesFilledBlocks]_vars

(***************************************************************************)
(* A resynchronisation lands on the nearest block start that keeps the     *)
(* ring slot, and so near that the packets following the one it was made   *)
(* on are stored or late: they cannot set off another one.                 *)
(***************************************************************************)
LandsNear(p) ==
    /\ binfo'.block_i = binfo.block_i
    /\ binfo'.mcnt_start - p.mcnt \in 1 - Nm .. Nm * (N_INPUT_BLOCKS - 1)

ResyncIsNearest == [][\A p \in Packets : Resync(p) => LandsNear(p)]_vars

(***************************************************************************)
(* missed_pkts is the number of packets a block lacks, in the blocks being *)
(* assembled and in those passed on ("missed per beam", s6_databuf.h): it  *)
(* is the only sign of the stale data that is left in their places.        *)
(***************************************************************************)
MissedCountsTheGaps ==
    \A b \in InBlocks :
        (IsFilled(sem, b) \/ (pc = "recv" /\ b \in {CurBlock, Ahead}))
            => hdr[b].missed_pkts = Nm - Cardinality(stored[b])

(***************************************************************************)
(* A packet that completes a block makes process_packet return the marked  *)
(* block's first mcnt, so that the status buffer names one block as the    *)
(* last one filled: between packets NETMCNT is the counter of the block    *)
(* whose number is NETBKOUT.                                               *)
(***************************************************************************)
StatusNamesOneBlock ==
    /\ pc = "return" => netmcnt + Nm = binfo.mcnt_start
    /\ pc = "recv" /\ last_filled # -1 =>
        /\ status.NETBKOUT = last_filled
        /\ status.NETMCNT # NoMcnt
        /\ block_for_mcnt(status.NETMCNT) = status.NETBKOUT

\* What is reported of a block with so many packets of its beam.
Reported(own) ==
    IF own = 0
    THEN status'.MISSEDBM = N_BEAMS /\ status'.MISSEDPK = status.MISSEDPK
    ELSE /\ status'.MISSEDBM = N_BEAMS - 1
         /\ status'.MISSEDPK = (status.MISSEDPK + (Nm - own)) % U32

(***************************************************************************)
(* What a block lacks is reported as whole beams ("If we missed more than  *)
(* Nm, then assume we are missing one or more beams") and as dropped       *)
(* packets ("Any missed packets beyond an integer multiple of Nm").  An    *)
(* instance receives one beam of N_BEAMS, so that the others are reported  *)
(* missing in every block, and its own only if the block has none of its   *)
(* packets; the packets reported dropped are the gaps of its beam.         *)
(***************************************************************************)
ReportsBeamsAndGaps == [][UpdateStatus => Reported(Cardinality(stored[CurBlock]))]_vars
=============================================================================
