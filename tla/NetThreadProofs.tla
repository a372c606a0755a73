-------------------------- MODULE NetThreadProofs --------------------------
(***************************************************************************)
(* The safety of the UDP network thread, for every ring, every number of   *)
(* beams and every network that NetThread describes.                       *)
(***************************************************************************)
EXTENDS NetThread, McntArithProofs, FiniteSetTheorems

LEMMA NetConstants ==
    /\ N_BEAMS \in Nat /\ N_BEAMS > 0 /\ VLEN \in Nat /\ VLEN > 0
    /\ U32 \in Nat /\ U32 > 0
    /\ U64 \in Nat /\ U64 > Nm
    /\ Starts \subseteq Nat /\ Length \in Nat /\ Skew \in Nat /\ MaxFaults \in Nat
<1>1. Nm * N_BEAMS \in Nat
  BY NetThreadAssumption, Constants, ProductIsNat
<1> QED
  BY <1>1, NetThreadAssumption, Constants, SMT

LEMMA SlotIsBlock == ASSUME NEW m \in Nat PROVE block_for_mcnt(m) \in InBlocks
  BY SlotInRing DEF InBlocks, BlockIds

LEMMA NextIsBlock ==
    ASSUME NEW b \in InBlocks
    PROVE  NextBlock(b, N_INPUT_BLOCKS) \in InBlocks \ {b}
  BY Constants, SMT DEF InBlocks, BlockIds, NextBlock

Missed == [Beams -> 0 .. U64 - 1]
Header == [mcnt : Nat, missed_pkts : Missed]
Packet == [mcnt : Nat, sid : Nat]
Pairs  == Beams \X (0 .. from + Length)
BlockInfo == [mcnt_start : Nat, block_i : InBlocks, out_of_seq_cnt : Nat,
              counter : [InBlocks -> Nat]]

LEMMA AllMissed == AllOf(Nm) \in Missed /\ AllOf(0) \in Missed
<1>1. Nm \in 0 .. U64 - 1 /\ 0 \in 0 .. U64 - 1
  BY NetConstants, Constants, SMT
<1> QED
  BY <1>1 DEF AllOf, Missed

\* What initialize_block does to the headers.
LEMMA InitializeBlockIs ==
    ASSUME NEW h \in [InBlocks -> Header], NEW m \in Nat
    PROVE  /\ InitializeBlock(h, m) \in [InBlocks -> Header]
           /\ InitializeBlock(h, m)[block_for_mcnt(m)].mcnt = RoundDown(m)
           /\ InitializeBlock(h, m)[block_for_mcnt(m)].missed_pkts = AllOf(Nm)
           /\ \A c \in InBlocks : c # block_for_mcnt(m) => InitializeBlock(h, m)[c] = h[c]
<1>1. block_for_mcnt(m) \in InBlocks /\ RoundDown(m) \in Nat
  BY SlotIsBlock, RoundDownIsStart
<1> QED
  BY <1>1, AllMissed DEF InitializeBlock, Header

\* One packet less is missing in the header of its block.
LEMMA DecrementMissedIs ==
    ASSUME NEW h \in [InBlocks -> Header], NEW p \in Packet, p.sid \in 0 .. N_BEAMS
    PROVE  /\ DecrementMissed(h, p) \in [InBlocks -> Header]
           /\ \A c \in InBlocks : DecrementMissed(h, p)[c].mcnt = h[c].mcnt
           /\ \A c \in InBlocks : c # block_for_mcnt(p.mcnt) => DecrementMissed(h, p)[c] = h[c]
           /\ \A beam \in Beams :
                  DecrementMissed(h, p)[block_for_mcnt(p.mcnt)].missed_pkts[beam] =
                      IF beam = p.sid
                      THEN (h[block_for_mcnt(p.mcnt)].missed_pkts[beam] + (U64 - 1)) % U64
                      ELSE h[block_for_mcnt(p.mcnt)].missed_pkts[beam]
<1> DEFINE b == block_for_mcnt(p.mcnt)
<1>1. b \in InBlocks
  BY SlotIsBlock DEF Packet
<1>2. \A x \in 0 .. U64 - 1 : (x + (U64 - 1)) % U64 \in 0 .. U64 - 1
  BY NetConstants, Constants, SMT
<1>3. CASE BadSid(p)
  <2>1. p.sid \notin Beams
    BY <1>3, NetConstants, SMT DEF BadSid, Beams
  <2> QED
    BY <1>3, <2>1 DEF DecrementMissed
<1>4. CASE ~BadSid(p)
  <2>1. p.sid \in Beams
    BY <1>4, NetConstants, SMT DEF BadSid, Beams
  <2> DEFINE old == h[b].missed_pkts
             new == [old EXCEPT ![p.sid] = (old[p.sid] + (U64 - 1)) % U64]
  <2>2. old \in Missed /\ h[b] = [mcnt |-> h[b].mcnt, missed_pkts |-> old] /\ h[b].mcnt \in Nat
    BY <1>1 DEF Header
  <2>3. /\ new \in Missed
        /\ \A beam \in Beams : new[beam] = IF beam = p.sid THEN (old[beam] + (U64 - 1)) % U64
                                           ELSE old[beam]
    <3> HIDE DEF old
    <3>1. old[p.sid] \in 0 .. U64 - 1
      BY <2>1, <2>2 DEF Missed
    <3>2. (old[p.sid] + (U64 - 1)) % U64 \in 0 .. U64 - 1
      BY <1>2, <3>1
    <3> QED
      BY <2>1, <2>2, <3>2, Zenon DEF Missed
  <2>4. DecrementMissed(h, p) = [h EXCEPT ![b].missed_pkts = new]
    BY <1>1, <1>4, Zenon DEF DecrementMissed
  <2> HIDE DEF new, old
  <2>5. DecrementMissed(h, p) = [h EXCEPT ![b] = [mcnt |-> h[b].mcnt, missed_pkts |-> new]]
    BY <1>1, <2>2, <2>4 DEF Header
  <2> HIDE DEF b
  <2>6. [mcnt |-> h[b].mcnt, missed_pkts |-> new] \in Header
    BY <2>2, <2>3 DEF Header
  <2>7. /\ DecrementMissed(h, p) \in [InBlocks -> Header]
        /\ DecrementMissed(h, p)[b] = [mcnt |-> h[b].mcnt, missed_pkts |-> new]
        /\ \A c \in InBlocks : c # b => DecrementMissed(h, p)[c] = h[c]
    BY <1>1, <2>5, <2>6
  <2> QED
    BY <1>1, <2>3, <2>7 DEF b, old
<1> QED
  BY <1>3, <1>4

LEMMA NoneStoredIs ==
    ASSUME NEW s \in [InBlocks -> SUBSET Pairs], NEW m \in Nat
    PROVE  /\ NoneStored(s, m) \in [InBlocks -> SUBSET Pairs]
           /\ NoneStored(s, m)[block_for_mcnt(m)] = {}
           /\ \A c \in InBlocks : c # block_for_mcnt(m) => NoneStored(s, m)[c] = s[c]
  BY SlotIsBlock DEF NoneStored

LEMMA CopyPayloadIs ==
    ASSUME NEW s \in [InBlocks -> SUBSET Pairs], NEW p \in Packet,
           ~BadSid(p) => <<p.sid, p.mcnt>> \in Pairs
    PROVE  /\ CopyPayload(s, p) \in [InBlocks -> SUBSET Pairs]
           /\ CopyPayload(s, p)[block_for_mcnt(p.mcnt)]
                  = IF BadSid(p) THEN s[block_for_mcnt(p.mcnt)]
                    ELSE s[block_for_mcnt(p.mcnt)] \cup {<<p.sid, p.mcnt>>}
           /\ \A c \in InBlocks : c # block_for_mcnt(p.mcnt) => CopyPayload(s, p)[c] = s[c]
<1>1. block_for_mcnt(p.mcnt) \in InBlocks
  BY SlotIsBlock DEF Packet
<1> QED
  BY <1>1 DEF CopyPayload

LEMMA CountPacketIs ==
    ASSUME NEW bi \in BlockInfo, NEW p \in Packet
    PROVE  /\ CountPacket(bi, p) \in BlockInfo
           /\ CountPacket(bi, p).mcnt_start = bi.mcnt_start
           /\ CountPacket(bi, p).block_i = bi.block_i
<1> DEFINE b == block_for_mcnt(p.mcnt)
           counter == [bi.counter EXCEPT ![b] = bi.counter[b] + 1]
<1>1. b \in InBlocks
  BY SlotIsBlock DEF Packet
<1>2. bi.counter \in [InBlocks -> Nat]
  BY DEF BlockInfo
<1> HIDE DEF b
<1>3. counter \in [InBlocks -> Nat]
  BY <1>1, <1>2, SMT
<1>4. CountPacket(bi, p) = [bi EXCEPT !.out_of_seq_cnt = 0, !.counter = counter]
  BY DEF CountPacket, BlockInfo, b
<1> HIDE DEF counter
<1>5. CountPacket(bi, p) = [mcnt_start |-> bi.mcnt_start, block_i |-> bi.block_i,
                            out_of_seq_cnt |-> 0, counter |-> counter]
  BY <1>4 DEF BlockInfo
<1> QED
  BY <1>3, <1>5 DEF BlockInfo
-----------------------------------------------------------------------------
\* The mcnts of the block that starts at m.
BlockMcnts(m) == m .. m + Nm - 1

Before == {"force", "hold", "params", "start", "bench"}

\* The beams send from a common start.
StreamOK ==
    /\ from \in Nat /\ faults \in Nat
    /\ next \in [Beams -> Nat]
    /\ \A beam \in Beams : next[beam] >= from /\ next[beam] <= from + Length

\* Up to the first batch nothing has moved, and nothing was passed on.
NothingMovedYet ==
    pc \in Before => /\ binfo.mcnt_start = 0 /\ fill.last_filled = -1
                     /\ \A b \in InBlocks : IsFree(sem, b) /\ stored[b] = {}

\* The packet that completed a block belongs to the block after it, which is
\* not the first one.
PacketInNextBlock ==
    /\ pc = "status"  => pkt.mcnt \in BlockMcnts(binfo.mcnt_start + Nm)
    /\ pc = "acquire" => /\ pkt.mcnt \in BlockMcnts(binfo.mcnt_start)
                         /\ binfo.mcnt_start - Nm \in Nat

\* The blocks are filled round the ring.
FillOrder ==
    /\ block_for_mcnt(binfo.mcnt_start) = binfo.block_i
    /\ pc = "status" => binfo.block_i = fill.last_filled
    /\ pc \notin {"status", "exited"} =>
           binfo.block_i = NextBlock(fill.last_filled, N_INPUT_BLOCKS)

Holds(b, m) == IsFree(sem, b) /\ hdr[b].mcnt = m

\* The thread holds the blocks it writes into, under the headers of the window.
OwnsWindow ==
    /\ pc \in {"bench", "recv", "batch", "acquire"} => Holds(CurBlock, binfo.mcnt_start)
    /\ pc \in {"bench", "recv", "batch", "status"} => Holds(Ahead, binfo.mcnt_start + Nm)

\* What a block stores belongs under its header, and has been sent.
Belongs(b, s) == s[2] \in BlockMcnts(hdr[b].mcnt) /\ s[2] < next[s[1]]

StoredUnderHeader == \A b \in InBlocks : \A s \in stored[b] : Belongs(b, s)

\* The packet put aside while the thread waits for a block is not stored yet.
PutAside ==
    pc \in {"status", "acquire"} =>
        /\ left > 0
        /\ pkt.mcnt <= from + Length /\ pkt.sid \in 0 .. N_BEAMS
        /\ ~BadSid(pkt) => /\ pkt.mcnt < next[pkt.sid]
                           /\ <<pkt.sid, pkt.mcnt>> \notin stored[block_for_mcnt(pkt.mcnt)]

(***************************************************************************)
(* The inductive invariant.  As in PktsockProofs, who holds which block    *)
(* and what goes into it need each other; what has been stored has to be   *)
(* compared with what was sent, as packets are never repeated here.        *)
(***************************************************************************)
NetInv ==
    /\ NetTypeOK
    /\ StreamOK
    /\ NothingMovedYet
    /\ binfo.mcnt_start % Nm = 0
    /\ PacketInNextBlock
    /\ FillOrder
    /\ OwnsWindow
    /\ StoredUnderHeader
    /\ PutAside
-----------------------------------------------------------------------------
\* The two blocks of the window, and the packets that fall into them.
LEMMA WindowSlots ==
    ASSUME NetTypeOK, binfo.mcnt_start % Nm = 0, FillOrder
    PROVE  /\ binfo.mcnt_start \in Nat /\ binfo.mcnt_start + Nm \in Nat
           /\ (binfo.mcnt_start + Nm) % Nm = 0
           /\ CurBlock \in InBlocks /\ Ahead \in InBlocks /\ Ahead # CurBlock
           /\ block_for_mcnt(binfo.mcnt_start) = CurBlock
           /\ block_for_mcnt(binfo.mcnt_start + Nm) = Ahead
<1>1. binfo.mcnt_start \in Nat /\ CurBlock \in InBlocks
  BY DEF NetTypeOK, CurBlock
<1>2. binfo.mcnt_start + Nm \in Nat
  BY <1>1, Constants, SMT
<1>3. Ahead \in InBlocks /\ Ahead # CurBlock
  BY <1>1, NextIsBlock DEF Ahead, CurBlock
<1>4. block_for_mcnt(binfo.mcnt_start) = CurBlock
  BY DEF FillOrder, CurBlock
<1>5. /\ block_for_mcnt(binfo.mcnt_start + Nm)
             = (block_for_mcnt(binfo.mcnt_start) + 1) % N_INPUT_BLOCKS
      /\ (binfo.mcnt_start + Nm) % Nm = 0
  BY <1>1, NextSlot
<1> QED
  BY <1>1, <1>2, <1>3, <1>4, <1>5 DEF Ahead, CurBlock, NextBlock

LEMMA BlockMcntsSlot ==
    ASSUME NEW s \in Nat, s % Nm = 0, NEW m \in Nat, m \in BlockMcnts(s)
    PROVE  RoundDown(m) = s /\ block_for_mcnt(m) = block_for_mcnt(s)
<1>1. s <= m /\ m < s + Nm
  BY Constants, SMT DEF BlockMcnts
<1> QED
  BY <1>1, SameBlock

LEMMA PacketSlot ==
    ASSUME NetTypeOK, binfo.mcnt_start % Nm = 0, FillOrder,
           NEW p \in Packet, InWindow(Dist(p))
    PROVE  \/ /\ p.mcnt \in BlockMcnts(binfo.mcnt_start)
              /\ block_for_mcnt(p.mcnt) = CurBlock
           \/ /\ p.mcnt \in BlockMcnts(binfo.mcnt_start + Nm)
              /\ block_for_mcnt(p.mcnt) = Ahead
<1>1. p.mcnt \in Nat
  BY DEF Packet
<1>2. p.mcnt \in BlockMcnts(binfo.mcnt_start) \/ p.mcnt \in BlockMcnts(binfo.mcnt_start + Nm)
  BY <1>1, WindowSlots, Constants, SMT DEF InWindow, Dist, BlockMcnts
<1> QED
  BY <1>1, <1>2, WindowSlots, BlockMcntsSlot

\* Writing the headers of two successive blocks, as Start and Resync do.
LEMMA InitializeTwoBlocks ==
    ASSUME NEW h \in [InBlocks -> Header], NEW s \in [InBlocks -> SUBSET Pairs],
           NEW m \in Nat, m % Nm = 0,
           NEW h2, h2 = InitializeBlock(InitializeBlock(h, m), m + Nm),
           NEW s2, s2 = NoneStored(NoneStored(s, m), m + Nm)
    PROVE  /\ h2 \in [InBlocks -> Header] /\ s2 \in [InBlocks -> SUBSET Pairs]
           /\ h2[block_for_mcnt(m)].mcnt = m
           /\ h2[block_for_mcnt(m + Nm)].mcnt = m + Nm
           /\ h2[block_for_mcnt(m)].missed_pkts = AllOf(Nm)
           /\ h2[block_for_mcnt(m + Nm)].missed_pkts = AllOf(Nm)
           /\ s2[block_for_mcnt(m)] = {} /\ s2[block_for_mcnt(m + Nm)] = {}
           /\ \A c \in InBlocks \ {block_for_mcnt(m), block_for_mcnt(m + Nm)} :
                  h2[c] = h[c] /\ s2[c] = s[c]
<1> DEFINE b == block_for_mcnt(m)
           n == block_for_mcnt(m + Nm)
           h1 == InitializeBlock(h, m)
           s1 == NoneStored(s, m)
<1>1. m + Nm \in Nat /\ (m + Nm) % Nm = 0
  <2>1. m + Nm \in Nat
    BY Constants, SMT
  <2> QED
    BY <2>1, NextSlot
<1>2. m \in BlockMcnts(m) /\ m + Nm \in BlockMcnts(m + Nm)
  BY <1>1, Constants, SMT DEF BlockMcnts
<1>3. RoundDown(m) = m /\ RoundDown(m + Nm) = m + Nm
  BY <1>1, <1>2, BlockMcntsSlot
<1>4. b \in InBlocks /\ n \in InBlocks /\ n # b
  <2>1. b \in InBlocks /\ n = NextBlock(b, N_INPUT_BLOCKS)
    BY SlotIsBlock, NextSlot DEF NextBlock
  <2> QED
    BY <2>1, NextIsBlock
<1>5. /\ h1 \in [InBlocks -> Header] /\ h1[b].mcnt = m /\ h1[b].missed_pkts = AllOf(Nm)
      /\ \A c \in InBlocks : c # b => h1[c] = h[c]
  BY <1>3, InitializeBlockIs
<1>6. /\ s1 \in [InBlocks -> SUBSET Pairs] /\ s1[b] = {}
      /\ \A c \in InBlocks : c # b => s1[c] = s[c]
  BY NoneStoredIs
<1>7. h2 = InitializeBlock(h1, m + Nm) /\ s2 = NoneStored(s1, m + Nm)
  OBVIOUS
<1> HIDE DEF h1, s1
<1>8. /\ h2 \in [InBlocks -> Header] /\ h2[n].mcnt = m + Nm /\ h2[n].missed_pkts = AllOf(Nm)
      /\ \A c \in InBlocks : c # n => h2[c] = h1[c]
  BY <1>1, <1>3, <1>5, <1>7, InitializeBlockIs
<1>9. /\ s2 \in [InBlocks -> SUBSET Pairs] /\ s2[n] = {}
      /\ \A c \in InBlocks : c # n => s2[c] = s1[c]
  BY <1>1, <1>6, <1>7, NoneStoredIs
<1> QED
  BY <1>4, <1>5, <1>6, <1>8, <1>9

\* The two blocks a resynchronisation recycles are those of the window.
LEMMA ResyncSlots ==
    ASSUME NetInv, NEW p \in Packet, NEW start, start = ResetMcnt(p.mcnt, binfo.block_i)
    PROVE  /\ start \in Nat /\ start % Nm = 0
           /\ start - p.mcnt \in 1 - Nm .. Nm * (N_INPUT_BLOCKS - 1)
           /\ block_for_mcnt(start) = CurBlock /\ block_for_mcnt(start + Nm) = Ahead
<1>1. p.mcnt \in Nat
  BY DEF Packet
<1>2. binfo.block_i \in 0 .. N_INPUT_BLOCKS - 1
  BY DEF NetInv, NetTypeOK, InBlocks, BlockIds
<1>3. /\ start \in Nat /\ start % Nm = 0
      /\ block_for_mcnt(start) = binfo.block_i
      /\ start - p.mcnt \in 1 - Nm .. Nm * (N_INPUT_BLOCKS - 1)
  BY <1>1, <1>2, ResetKeepsSlot
<1>4. block_for_mcnt(start + Nm) = (block_for_mcnt(start) + 1) % N_INPUT_BLOCKS
  BY <1>3, NextSlot
<1> QED
  BY <1>3, <1>4 DEF CurBlock, Ahead, NextBlock

\* Start writes the headers of blocks 0 and 1.
LEMMA StartSlots ==
    /\ 0 % Nm = 0 /\ block_for_mcnt(0) = 0 /\ block_for_mcnt(0 + Nm) = 1
    /\ 0 \in InBlocks /\ 1 \in InBlocks
    /\ NextBlock(-1, N_INPUT_BLOCKS) = 0 /\ NextBlock(0, N_INPUT_BLOCKS) = 1
<1>1. 0 % Nm = 0 /\ 0 \div Nm = 0 /\ 0 % N_INPUT_BLOCKS = 0 /\ (0 + 1) % N_INPUT_BLOCKS = 1
  BY Constants, SMT
<1>2. block_for_mcnt(0) = 0
  BY <1>1 DEF block_for_mcnt
<1>3. block_for_mcnt(0 + Nm) = (block_for_mcnt(0) + 1) % N_INPUT_BLOCKS
  BY NextSlot
<1>4. NextBlock(-1, N_INPUT_BLOCKS) = 0 /\ NextBlock(0, N_INPUT_BLOCKS) = 1
  BY Constants, SMT DEF NextBlock
<1> QED
  BY <1>1, <1>2, <1>3, <1>4, Constants, SMT DEF InBlocks, BlockIds
-----------------------------------------------------------------------------
LEMMA InitNetInv == Init => NetInv
<1> SUFFICES ASSUME Init PROVE NetInv
  OBVIOUS
<1>1. /\ from \in Nat /\ next = AllOf(from) /\ faults = 0
      /\ 0 \in InBlocks /\ 0 \in 0 .. U64 - 1 /\ 0 \in 0 .. U32 - 1 /\ 0 \in 0 .. VLEN
  BY StartSlots, NetConstants, Constants, SMT DEF Init
<1>2. StreamOK
  <2>1. next = [beam \in Beams |-> from]
    BY <1>1 DEF AllOf
  <2>2. from >= from /\ from <= from + Length
    BY <1>1, NetConstants, SMT
  <2> QED
    BY <1>1, <2>1, <2>2 DEF StreamOK
<1>3. sem \in [InBlocks -> BlockState] /\ \A b \in InBlocks : sem[b] = "free"
  BY DEF Init, DatabufCreate, InBlocks, BlockState
<1>4. hdr \in [InBlocks -> [mcnt : Nat, missed_pkts : [Beams -> 0 .. U64 - 1]]]
  BY AllMissed DEF Init, Missed
<1>5. /\ stored = [b \in InBlocks |-> {}]
      /\ binfo = [mcnt_start |-> 0, block_i |-> 0, out_of_seq_cnt |-> 0,
                  counter |-> [b \in InBlocks |-> 0]]
      /\ fill = [last_filled |-> -1, missed_pkt_cnt |-> 0, total_missed |-> AllOf(0)]
      /\ pc = "force" /\ pkt = NoPacket /\ left = 0 /\ mcnt = NoMcnt
      /\ status = [NETHOLD |-> "absent", NETBKOUT |-> 0, MISSPKTL |-> 0,
                   MISSPER |-> AllOf(0), NETMCNT |-> NoMcnt]
  BY DEF Init
<1>6. NetTypeOK
  <2>1. AllOf(0) \in [Beams -> 0 .. U64 - 1]
    BY AllMissed DEF Missed
  <2>2. /\ stored \in [InBlocks -> SUBSET (Beams \X (0 .. from + Length))]
        /\ binfo \in [mcnt_start : Nat, block_i : InBlocks, out_of_seq_cnt : Nat,
                      counter : [InBlocks -> Nat]]
    BY <1>1, <1>5
  <2>3. /\ fill \in [last_filled : InBlocks \cup {-1}, missed_pkt_cnt : 0 .. U32 - 1,
                     total_missed : [Beams -> 0 .. U64 - 1]]
        /\ status \in [NETHOLD : {"absent", "0", "1"}, NETBKOUT : InBlocks,
                       MISSPKTL : 0 .. U32 - 1, MISSPER : [Beams -> 0 .. U64 - 1],
                       NETMCNT : Nat \cup {NoMcnt}]
    BY <1>1, <1>5, <2>1
  <2> QED
    BY <1>1, <1>3, <1>4, <1>5, <2>2, <2>3 DEF NetTypeOK, NoPacket
<1>7. NothingMovedYet /\ StoredUnderHeader
  BY <1>3, <1>5 DEF NothingMovedYet, StoredUnderHeader, IsFree
<1>8. binfo.mcnt_start % Nm = 0 /\ FillOrder
  BY <1>5, StartSlots DEF FillOrder
<1>9. PacketInNextBlock /\ OwnsWindow /\ PutAside
  BY <1>5 DEF PacketInNextBlock, OwnsWindow, PutAside
<1> QED
  BY <1>2, <1>6, <1>7, <1>8, <1>9 DEF NetInv

LEMMA StutterNetInv == ASSUME NetInv, UNCHANGED netVars PROVE NetInv'
  BY DEF NetInv, netVars, ring, beams, NetTypeOK, StreamOK, NothingMovedYet, PacketInNextBlock,
         FillOrder, OwnsWindow, StoredUnderHeader, PutAside, Belongs, Holds, CurBlock, Ahead,
         IsFree, BadSid

\* What a block stores still belongs to it when headers and data stay.
LEMMA StillBelongs ==
    ASSUME NetInv, StreamOK', NEW c \in InBlocks,
           stored'[c] = stored[c], hdr'[c].mcnt = hdr[c].mcnt,
           \A beam \in Beams : next[beam] <= next'[beam]
    PROVE  \A s \in stored'[c] : Belongs(c, s)'
<1> SUFFICES ASSUME NEW s \in stored[c]
             PROVE  s[2] \in BlockMcnts(hdr[c].mcnt) /\ s[2] < next'[s[1]]
  BY DEF Belongs
<1>1. s[1] \in Beams /\ s[2] \in Nat
  <2>1. s \in Beams \X (0 .. from + Length)
    BY DEF NetInv, NetTypeOK
  <2> QED
    BY <2>1, NetConstants DEF NetInv, StreamOK
<1>2. Belongs(c, s)
  BY DEF NetInv, StoredUnderHeader
<1>3. next[s[1]] \in Nat /\ next'[s[1]] \in Nat /\ next[s[1]] <= next'[s[1]]
  BY <1>1 DEF NetInv, StreamOK
<1> QED
  BY <1>1, <1>2, <1>3, SMT DEF Belongs

\* The steps that leave ring, window and stream alone.
LEMMA QuietNetInv ==
    ASSUME NetInv, UNCHANGED <<ring, binfo, fill, pkt, beams>>,
           pc' \in {"force", "hold", "params", "start", "recv", "batch", "exited"},
           \/ pc' = pc
           \/ pc' = "exited"
           \/ pc \in Before /\ pc' \in Before
           \/ pc \in {"recv", "batch"} /\ pc' \in {"recv", "batch"},
           left' \in 0 .. VLEN, mcnt' \in Nat \cup {NoMcnt},
           status' \in [NETHOLD : {"absent", "0", "1"}, NETBKOUT : InBlocks,
                        MISSPKTL : 0 .. U32 - 1, MISSPER : [Beams -> 0 .. U64 - 1],
                        NETMCNT : Nat \cup {NoMcnt}]
    PROVE  NetInv'
<1>1. UNCHANGED <<sem, hdr, stored, binfo, fill, pkt, from, next, faults>>
  BY DEF ring, beams
<1>2. NetTypeOK'
  BY <1>1 DEF NetInv, NetTypeOK
<1>3. /\ StreamOK' /\ StoredUnderHeader' /\ PacketInNextBlock' /\ PutAside'
      /\ binfo'.mcnt_start % Nm = 0
  BY <1>1 DEF NetInv, StreamOK, StoredUnderHeader, Belongs, PacketInNextBlock, PutAside
<1>4. NothingMovedYet'
  BY <1>1 DEF NetInv, NothingMovedYet, IsFree, Before
<1>5. FillOrder'
  BY <1>1 DEF NetInv, FillOrder, Before
<1>6. OwnsWindow'
  BY <1>1 DEF NetInv, OwnsWindow, Holds, CurBlock, Ahead, IsFree, Before
<1> QED
  BY <1>2, <1>3, <1>4, <1>5, <1>6 DEF NetInv

LEMMA OtherStepsNetInv ==
    ASSUME NetInv,
           \/ ForceHold \/ LookHold \/ Operator \/ Params
           \/ ReceiveBatch \/ ReceiveNothing \/ Stop \/ Exited \/ WaitFails \/ ReportBatch
    PROVE  NetInv'
<1>1. /\ status \in [NETHOLD : {"absent", "0", "1"}, NETBKOUT : InBlocks,
                     MISSPKTL : 0 .. U32 - 1, MISSPER : [Beams -> 0 .. U64 - 1],
                     NETMCNT : Nat \cup {NoMcnt}]
      /\ left \in 0 .. VLEN /\ mcnt \in Nat \cup {NoMcnt}
  BY DEF NetInv, NetTypeOK
<1>2. CASE ForceHold \/ LookHold \/ Operator
  <2>1. \E v \in {"absent", "0", "1"} : status' = [status EXCEPT !.NETHOLD = v]
    BY <1>2 DEF ForceHold, LookHold, Operator
  <2>2. status' \in [NETHOLD : {"absent", "0", "1"}, NETBKOUT : InBlocks,
                     MISSPKTL : 0 .. U32 - 1, MISSPER : [Beams -> 0 .. U64 - 1],
                     NETMCNT : Nat \cup {NoMcnt}]
    BY <1>1, <2>1
  <2>3. /\ UNCHANGED <<ring, binfo, fill, pkt, left, mcnt, beams>>
        /\ pc \in Before /\ pc' \in {"force", "hold", "params"} /\ pc' \in Before
    BY <1>2 DEF ForceHold, LookHold, Operator, Before
  <2> QED
    BY <1>1, <2>2, <2>3, QuietNetInv
<1>3. CASE Params
  <2>1. status' = [status EXCEPT !.MISSPER = AllOf(0)] /\ AllOf(0) \in [Beams -> 0 .. U64 - 1]
    BY <1>3, AllMissed DEF Params, Missed
  <2>2. status' \in [NETHOLD : {"absent", "0", "1"}, NETBKOUT : InBlocks,
                     MISSPKTL : 0 .. U32 - 1, MISSPER : [Beams -> 0 .. U64 - 1],
                     NETMCNT : Nat \cup {NoMcnt}]
    BY <1>1, <2>1
  <2>3. /\ UNCHANGED <<ring, binfo, fill, pkt, left, mcnt, beams>>
        /\ pc \in Before /\ pc' = "start" /\ pc' \in Before
    BY <1>3 DEF Params, Before
  <2> QED
    BY <1>1, <2>2, <2>3, QuietNetInv
<1>4. CASE ReceiveBatch
  <2>1. /\ UNCHANGED <<ring, binfo, fill, pkt, mcnt, status, beams>>
        /\ pc = "recv" /\ pc' = "batch" /\ left' \in 0 .. VLEN
    BY <1>4, NetConstants DEF ReceiveBatch
  <2> QED
    BY <1>1, <2>1, QuietNetInv
<1>5. CASE Stop \/ WaitFails
  <2>1. /\ UNCHANGED <<ring, binfo, fill, pkt, left, mcnt, status, beams>> /\ pc' = "exited"
    BY <1>5 DEF Stop, WaitFails
  <2> QED
    BY <1>1, <2>1, QuietNetInv
<1>6. CASE ReceiveNothing \/ Exited
  BY <1>6, StutterNetInv DEF ReceiveNothing, Exited
<1>7. CASE ReportBatch
  <2>1. status' \in [NETHOLD : {"absent", "0", "1"}, NETBKOUT : InBlocks,
                     MISSPKTL : 0 .. U32 - 1, MISSPER : [Beams -> 0 .. U64 - 1],
                     NETMCNT : Nat \cup {NoMcnt}]
    BY <1>1, <1>7 DEF ReportBatch
  <2>2. /\ UNCHANGED <<ring, binfo, fill, pkt, left, beams>>
        /\ pc = "batch" /\ pc' = "recv" /\ mcnt' = NoMcnt
    BY <1>7 DEF ReportBatch
  <2> QED
    BY <1>1, <2>1, <2>2, QuietNetInv
<1> QED
  BY <1>2, <1>3, <1>4, <1>5, <1>6, <1>7

LEMMA StartNetInv == ASSUME NetInv, Start PROVE NetInv'
<1>1. 0 + Nm = Nm
  BY Constants, SMT
<1>2. /\ hdr \in [InBlocks -> Header] /\ stored \in [InBlocks -> SUBSET Pairs]
      /\ \A b \in InBlocks : IsFree(sem, b) /\ stored[b] = {}
      /\ pc = "start" /\ binfo.mcnt_start = 0 /\ fill.last_filled = -1 /\ binfo.block_i = 0
  BY StartSlots DEF NetInv, NetTypeOK, NothingMovedYet, FillOrder, Start, Before, Header, Missed, Pairs
<1>3. /\ hdr' = InitializeBlock(InitializeBlock(hdr, 0), 0 + Nm)
      /\ pc' = "bench"
      /\ UNCHANGED <<sem, stored, binfo, fill, pkt, left, mcnt, status, from, next, faults>>
  BY <1>1 DEF Start, beams
<1>4. hdr' \in [InBlocks -> Header] /\ hdr'[0].mcnt = 0 /\ hdr'[1].mcnt = Nm
  <2> DEFINE s2 == NoneStored(NoneStored(stored, 0), 0 + Nm)
  <2>1. s2 = NoneStored(NoneStored(stored, 0), 0 + Nm)
    OBVIOUS
  <2> HIDE DEF s2
  <2> QED
    BY <1>1, <1>2, <1>3, <2>1, StartSlots, InitializeTwoBlocks
<1>5. NetTypeOK'
  BY <1>3, <1>4 DEF NetInv, NetTypeOK, Header, Missed
<1>6. CurBlock' = 0 /\ Ahead' = 1
  BY <1>2, <1>3, StartSlots DEF CurBlock, Ahead
<1>7. /\ StreamOK' /\ NothingMovedYet' /\ PacketInNextBlock' /\ FillOrder' /\ PutAside'
      /\ binfo'.mcnt_start % Nm = 0
  BY <1>2, <1>3 DEF NetInv, StreamOK, NothingMovedYet, PacketInNextBlock, FillOrder, PutAside, IsFree
<1>8. OwnsWindow'
  BY <1>1, <1>2, <1>3, <1>4, <1>6, StartSlots DEF OwnsWindow, Holds, IsFree
<1>9. StoredUnderHeader'
  BY <1>2, <1>3 DEF StoredUnderHeader
<1> QED
  BY <1>5, <1>7, <1>8, <1>9 DEF NetInv

LEMMA BenchmarkNetInv == ASSUME NetInv, Benchmark PROVE NetInv'
<1>1. /\ stored' = [b \in InBlocks |-> {}] /\ pc = "bench" /\ pc' \in {"recv", "exited"}
      /\ UNCHANGED <<sem, hdr, binfo, fill, pkt, left, mcnt, status, from, next, faults>>
  BY DEF Benchmark, beams
<1>2. NetTypeOK'
  BY <1>1 DEF NetInv, NetTypeOK
<1>3. /\ StreamOK' /\ NothingMovedYet' /\ PacketInNextBlock' /\ FillOrder' /\ PutAside'
      /\ StoredUnderHeader' /\ binfo'.mcnt_start % Nm = 0
  BY <1>1 DEF NetInv, StreamOK, NothingMovedYet, PacketInNextBlock, FillOrder, PutAside,
              StoredUnderHeader, Before
<1>4. OwnsWindow'
  BY <1>1 DEF NetInv, OwnsWindow, Holds, CurBlock, Ahead, IsFree
<1> QED
  BY <1>2, <1>3, <1>4 DEF NetInv

\* A beam goes on by one packet.
LEMMA StreamMoves ==
    ASSUME NetInv, NEW beam \in Beams, next[beam] < from + Length,
           next' = [next EXCEPT ![beam] = next[beam] + 1],
           from' = from, faults' \in {faults, faults + 1}
    PROVE  /\ StreamOK'
           /\ next'[beam] = next[beam] + 1
           /\ \A c \in Beams : c # beam => next'[c] = next[c]
           /\ \A c \in Beams : next[c] \in Nat /\ next[c] <= next'[c]
<1>1. /\ from \in Nat /\ faults \in Nat /\ next \in [Beams -> Nat] /\ Length \in Nat
      /\ \A c \in Beams : next[c] >= from /\ next[c] <= from + Length
  BY NetConstants DEF NetInv, StreamOK
<1>2. next[beam] \in Nat /\ next[beam] + 1 \in Nat
  BY <1>1, SMT
<1>3. next' \in [Beams -> Nat] /\ next'[beam] = next[beam] + 1
  BY <1>1, <1>2
<1>4. \A c \in Beams : c # beam => next'[c] = next[c]
  BY <1>1
<1>5. \A c \in Beams : next[c] \in Nat /\ next[c] <= next'[c]
  <2> SUFFICES ASSUME NEW c \in Beams PROVE next[c] \in Nat /\ next[c] <= next'[c]
    OBVIOUS
  <2>1. next[c] \in Nat /\ (next'[c] = next[c] \/ next'[c] = next[c] + 1)
    BY <1>1, <1>3, <1>4
  <2> QED
    BY <2>1, SMT
<1>6. \A c \in Beams : next'[c] >= from' /\ next'[c] <= from' + Length
  <2> SUFFICES ASSUME NEW c \in Beams PROVE next'[c] >= from /\ next'[c] <= from + Length
    OBVIOUS
  <2>1. CASE c = beam
    <3>1. next[beam] >= from
      BY <1>1
    <3> QED
      BY <1>1, <1>2, <1>3, <2>1, <3>1, SMT
  <2>2. CASE c # beam
    BY <1>1, <1>4, <2>2
  <2> QED
    BY <2>1, <2>2
<1>7. faults' \in Nat
  BY <1>1, SMT
<1> QED
  BY <1>1, <1>3, <1>4, <1>5, <1>6, <1>7 DEF StreamOK

LEMMA LoseNetInv == ASSUME NetInv, NEW beam \in Beams, Lose(beam) PROVE NetInv'
<1>1. /\ pc = "recv" /\ faults' = faults + 1 /\ next[beam] < from + Length
      /\ next' = [next EXCEPT ![beam] = next[beam] + 1]
      /\ UNCHANGED <<sem, hdr, stored, binfo, fill, pc, pkt, left, mcnt, status, from>>
  BY DEF Lose, MayAdvance, ring
<1>2. StreamOK' /\ \A c \in Beams : next[c] <= next'[c]
  BY <1>1, StreamMoves
<1>3. NetTypeOK'
  BY <1>1 DEF NetInv, NetTypeOK
<1>4. /\ NothingMovedYet' /\ PacketInNextBlock' /\ FillOrder' /\ PutAside'
      /\ binfo'.mcnt_start % Nm = 0
  BY <1>1 DEF NetInv, NothingMovedYet, PacketInNextBlock, FillOrder, PutAside, Before
<1>5. OwnsWindow'
  BY <1>1 DEF NetInv, OwnsWindow, Holds, CurBlock, Ahead, IsFree
<1>6. StoredUnderHeader'
  <2> SUFFICES ASSUME NEW c \in InBlocks PROVE \A s \in stored'[c] : Belongs(c, s)'
    BY DEF StoredUnderHeader
  <2> QED
    BY <1>1, <1>2, StillBelongs
<1> QED
  BY <1>2, <1>3, <1>4, <1>5, <1>6 DEF NetInv

LEMMA DrainNetInv == ASSUME NetInv, NEW b \in InBlocks, Drain(b) PROVE NetInv'
<1>1. /\ sem' = [sem EXCEPT ![b] = "free"]
      /\ UNCHANGED <<hdr, stored, binfo, fill, pc, pkt, left, mcnt, status, from, next, faults>>
  BY DEF Drain, SetFree, beams
<1>2. sem \in [InBlocks -> BlockState]
  BY DEF NetInv, NetTypeOK
<1>3. /\ sem' \in [InBlocks -> BlockState]
      /\ \A c \in InBlocks : sem[c] = "free" => sem'[c] = "free"
  BY <1>1, <1>2 DEF BlockState
<1>4. NetTypeOK'
  BY <1>1, <1>3 DEF NetInv, NetTypeOK
<1>5. CurBlock \in InBlocks /\ Ahead \in InBlocks /\ CurBlock' = CurBlock /\ Ahead' = Ahead
  BY <1>1, WindowSlots DEF NetInv, CurBlock, Ahead
<1>6. OwnsWindow'
  BY <1>1, <1>3, <1>5 DEF NetInv, OwnsWindow, Holds, IsFree
<1>7. /\ StreamOK' /\ StoredUnderHeader' /\ PacketInNextBlock' /\ PutAside' /\ FillOrder'
      /\ binfo'.mcnt_start % Nm = 0
  BY <1>1 DEF NetInv, StreamOK, StoredUnderHeader, Belongs, PacketInNextBlock, PutAside, FillOrder
<1>8. NothingMovedYet'
  BY <1>1, <1>3 DEF NetInv, NothingMovedYet, IsFree
<1> QED
  BY <1>4, <1>6, <1>7, <1>8 DEF NetInv
-----------------------------------------------------------------------------
\* p is the next packet of a beam, as it was sent or with a damaged source id.
Sent(beam, p) ==
    /\ pc = "batch" /\ left > 0
    /\ p \in Packet /\ p.mcnt = next[beam]
    /\ \/ p.sid = beam /\ faults' = faults
       \/ p.sid = N_BEAMS /\ faults' = faults + 1
    /\ next[beam] < from + Length
    /\ next' = [next EXCEPT ![beam] = next[beam] + 1]
    /\ from' = from

LEMMA ProcessSends ==
    ASSUME NetInv, NEW beam \in Beams, Process(beam)
    PROVE  \E p \in Packet : Sent(beam, p) /\ ProcessPacket(p)
<1>1. /\ pc = "batch" /\ left > 0 /\ next[beam] < from + Length
      /\ next' = [next EXCEPT ![beam] = next[beam] + 1] /\ from' = from
      /\ next[beam] \in Nat /\ beam \in Nat /\ N_BEAMS \in Nat
  BY NetConstants, SMT DEF Process, MayAdvance, Beams, NetInv, StreamOK
<1>2. CASE ProcessPacket([mcnt |-> next[beam], sid |-> beam]) /\ UNCHANGED faults
  BY <1>1, <1>2 DEF Packet, Sent
<1>3. CASE ProcessPacket([mcnt |-> next[beam], sid |-> N_BEAMS]) /\ faults' = faults + 1
  BY <1>1, <1>3 DEF Packet, Sent
<1> QED
  BY <1>2, <1>3 DEF Process

LEMMA SentIs ==
    ASSUME NetInv, NEW beam \in Beams, NEW p \in Packet, Sent(beam, p)
    PROVE  /\ StreamOK' /\ Pairs' = Pairs
           /\ next'[beam] = p.mcnt + 1
           /\ \A c \in Beams : next[c] \in Nat /\ next[c] <= next'[c]
           /\ p.mcnt \in Nat /\ p.sid \in 0 .. N_BEAMS /\ p.mcnt <= from + Length
           /\ ~BadSid(p) => p.sid = beam /\ <<p.sid, p.mcnt>> \in Pairs
           /\ ~BadSid(p) => \A b \in InBlocks : <<p.sid, p.mcnt>> \notin stored[b]
           /\ left - 1 \in 0 .. VLEN
<1>1. /\ StreamOK' /\ next'[beam] = p.mcnt + 1
      /\ \A c \in Beams : next[c] \in Nat /\ next[c] <= next'[c]
  BY StreamMoves DEF Sent
<1>2. Pairs' = Pairs
  BY DEF Sent, Pairs
<1>3. p.mcnt \in Nat /\ p.sid \in 0 .. N_BEAMS
  BY NetConstants, SMT DEF Sent, Beams, Packet
<1>4. p.mcnt <= from + Length /\ p.mcnt = next[beam] /\ from + Length \in Nat
  BY <1>3, NetConstants, SMT DEF Sent, NetInv, StreamOK
<1>5. ~BadSid(p) => p.sid = beam /\ <<p.sid, p.mcnt>> \in Pairs
  <2> SUFFICES ASSUME ~BadSid(p) PROVE p.sid = beam /\ p.mcnt \in 0 .. from + Length
    BY DEF Pairs
  <2>1. p.sid = beam
    BY NetConstants, SMT DEF Sent, BadSid
  <2> QED
    BY <1>3, <1>4, <2>1, SMT
<1>6. ~BadSid(p) => \A b \in InBlocks : <<p.sid, p.mcnt>> \notin stored[b]
  <2> SUFFICES ASSUME ~BadSid(p), NEW b \in InBlocks, <<p.sid, p.mcnt>> \in stored[b] PROVE FALSE
    OBVIOUS
  <2>1. Belongs(b, <<p.sid, p.mcnt>>)
    BY DEF NetInv, StoredUnderHeader
  <2>2. p.mcnt < next[p.sid]
    BY <2>1 DEF Belongs
  <2> QED
    BY <1>3, <1>4, <1>5, <2>2, SMT
<1>7. left - 1 \in 0 .. VLEN
  BY NetConstants, SMT DEF Sent, NetInv, NetTypeOK
<1> QED
  BY <1>1, <1>2, <1>3, <1>4, <1>5, <1>6, <1>7

LEMMA StorePacketNetInv ==
    ASSUME NetInv, NEW beam \in Beams, NEW p \in Packet, Sent(beam, p), StorePacket(p)
    PROVE  NetInv'
<1> DEFINE b == block_for_mcnt(p.mcnt)
<1>1. /\ StreamOK' /\ Pairs' = Pairs /\ from' = from /\ pc = "batch"
      /\ \A c \in Beams : next[c] <= next'[c]
      /\ p.mcnt \in Nat /\ p.sid \in 0 .. N_BEAMS
      /\ ~BadSid(p) => p.sid = beam /\ <<p.sid, p.mcnt>> \in Pairs
      /\ left - 1 \in 0 .. VLEN /\ next'[beam] = p.mcnt + 1
  BY SentIs DEF Sent
<1>2. /\ hdr \in [InBlocks -> Header] /\ stored \in [InBlocks -> SUBSET Pairs]
      /\ binfo \in BlockInfo /\ b \in InBlocks
  BY <1>1, SlotIsBlock DEF NetInv, NetTypeOK, BlockInfo, Header, Missed, Pairs
<1>3. /\ binfo' \in BlockInfo
      /\ binfo'.mcnt_start = binfo.mcnt_start /\ binfo'.block_i = binfo.block_i
  BY <1>2, CountPacketIs DEF StorePacket
<1>4. hdr' \in [InBlocks -> Header] /\ \A c \in InBlocks : hdr'[c].mcnt = hdr[c].mcnt
  BY <1>1, <1>2, DecrementMissedIs DEF StorePacket
<1>5. /\ stored' \in [InBlocks -> SUBSET Pairs]
      /\ stored'[b] = IF BadSid(p) THEN stored[b] ELSE stored[b] \cup {<<p.sid, p.mcnt>>}
      /\ \A c \in InBlocks : c # b => stored'[c] = stored[c]
  BY <1>1, <1>2, CopyPayloadIs DEF StorePacket
<1>6. /\ pc' = "batch" /\ left' = left - 1 /\ mcnt' = mcnt
      /\ UNCHANGED <<sem, fill, pkt, status>>
  BY DEF StorePacket, PacketDone, KeepLast
<1>7. NetTypeOK'
  BY <1>1, <1>3, <1>4, <1>5, <1>6 DEF NetInv, NetTypeOK, BlockInfo, Header, Missed, Pairs
<1>8. /\ NothingMovedYet' /\ PacketInNextBlock' /\ FillOrder' /\ PutAside'
      /\ binfo'.mcnt_start % Nm = 0
  BY <1>1, <1>3, <1>6 DEF NetInv, NothingMovedYet, PacketInNextBlock, FillOrder, PutAside, Before
<1>9. OwnsWindow'
  <2>1. CurBlock' = CurBlock /\ Ahead' = Ahead /\ CurBlock \in InBlocks /\ Ahead \in InBlocks
    BY <1>3, WindowSlots DEF CurBlock, Ahead, NetInv
  <2> QED
    BY <1>1, <1>3, <1>4, <1>6, <2>1 DEF NetInv, OwnsWindow, Holds, IsFree
<1>10. StoredUnderHeader'
  <2>1. p.mcnt \in BlockMcnts(hdr[b].mcnt)
    <3>1. Holds(CurBlock, binfo.mcnt_start) /\ Holds(Ahead, binfo.mcnt_start + Nm)
      BY <1>1 DEF NetInv, OwnsWindow
    <3>2. InWindow(Dist(p))
      BY DEF StorePacket
    <3> QED
      BY <1>1, <3>1, <3>2, PacketSlot DEF NetInv, Holds
  <2>2. \A c \in InBlocks : \A s \in stored[c] : Belongs(c, s)'
    <3> SUFFICES ASSUME NEW c \in InBlocks, NEW s \in stored[c]
                 PROVE  s[2] \in BlockMcnts(hdr'[c].mcnt) /\ s[2] < next'[s[1]]
      BY DEF Belongs
    <3>1. s[1] \in Beams /\ s[2] \in Nat
      BY <1>2, NetConstants DEF Pairs, NetInv, StreamOK
    <3>2. Belongs(c, s) /\ hdr'[c].mcnt = hdr[c].mcnt
      BY <1>4 DEF NetInv, StoredUnderHeader
    <3>3. next[s[1]] \in Nat /\ next'[s[1]] \in Nat /\ next[s[1]] <= next'[s[1]]
      BY <1>1, <3>1 DEF NetInv, StreamOK
    <3> QED
      BY <3>1, <3>2, <3>3, SMT DEF Belongs
  <2>3. ~BadSid(p) => Belongs(b, <<p.sid, p.mcnt>>)'
    <3>1. p.mcnt < p.mcnt + 1
      BY <1>1, SMT
    <3> QED
      BY <1>1, <1>2, <1>4, <2>1, <3>1 DEF Belongs
  <2> HIDE DEF b
  <2> SUFFICES ASSUME NEW c \in InBlocks, NEW s \in stored'[c] PROVE Belongs(c, s)'
    BY DEF StoredUnderHeader
  <2>4. s \in stored[c] \/ (~BadSid(p) /\ c = b /\ s = <<p.sid, p.mcnt>>)
    BY <1>5
  <2> QED
    BY <2>2, <2>3, <2>4
<1> QED
  BY <1>1, <1>7, <1>8, <1>9, <1>10 DEF NetInv

LEMMA MarkFilledNetInv ==
    ASSUME NetInv, NEW beam \in Beams, NEW p \in Packet, Sent(beam, p), MarkFilled(p)
    PROVE  NetInv'
<1>1. /\ StreamOK' /\ Pairs' = Pairs /\ from' = from /\ pc = "batch"
      /\ \A c \in Beams : next[c] <= next'[c]
      /\ p.mcnt \in Nat /\ p.sid \in 0 .. N_BEAMS /\ p.mcnt <= from + Length
      /\ ~BadSid(p) => p.sid = beam
      /\ ~BadSid(p) => \A b \in InBlocks : <<p.sid, p.mcnt>> \notin stored[b]
      /\ next'[beam] = p.mcnt + 1 /\ p \in [mcnt : Nat, sid : Nat] /\ left > 0
  BY SentIs DEF Sent, Packet
<1>2. /\ CurBlock \in InBlocks /\ Ahead \in InBlocks /\ Ahead # CurBlock
      /\ block_for_mcnt(binfo.mcnt_start) = CurBlock /\ binfo.mcnt_start \in Nat
  BY WindowSlots DEF NetInv
<1>3. /\ sem \in [InBlocks -> BlockState] /\ hdr \in [InBlocks -> Header]
      /\ fill \in [last_filled : InBlocks \cup {-1}, missed_pkt_cnt : 0 .. U32 - 1,
                   total_missed : [Beams -> 0 .. U64 - 1]]
  BY DEF NetInv, NetTypeOK, Header, Missed
<1>4. NextBlock(fill.last_filled, N_INPUT_BLOCKS) = binfo.block_i
  BY <1>1 DEF NetInv, FillOrder
<1>5. /\ fill' = [fill EXCEPT !.last_filled = CurBlock,
                              !.total_missed = hdr[CurBlock].missed_pkts]
      /\ pkt' = p /\ UNCHANGED <<hdr, stored, binfo, left, mcnt, status>>
  BY <1>3, <1>4, Zenon DEF MarkFilled, CurBlock
<1>6. /\ fill' \in [last_filled : InBlocks \cup {-1}, missed_pkt_cnt : 0 .. U32 - 1,
                    total_missed : [Beams -> 0 .. U64 - 1]]
      /\ fill'.last_filled = CurBlock
  <2>1. hdr[CurBlock].missed_pkts \in [Beams -> 0 .. U64 - 1]
    BY <1>2, <1>3 DEF Header, Missed
  <2> QED
    BY <1>2, <1>3, <1>5, <2>1
<1>7. \/ sem' = [sem EXCEPT ![CurBlock] = "filled"] /\ pc' = "status"
      \/ sem' = sem /\ pc' = "exited"
  BY <1>2 DEF MarkFilled, SetFilled
<1>8. NetTypeOK'
  <2>1. sem' \in [InBlocks -> BlockState]
    BY <1>2, <1>3, <1>7 DEF BlockState
  <2> QED
    BY <1>1, <1>5, <1>6, <1>7, <2>1 DEF NetInv, NetTypeOK
<1>9. /\ NothingMovedYet' /\ FillOrder' /\ binfo'.mcnt_start % Nm = 0
  BY <1>5, <1>6, <1>7 DEF NetInv, NothingMovedYet, FillOrder, CurBlock, Before
<1>10. PacketInNextBlock'
  <2>1. Nm <= Dist(p) /\ Dist(p) < 2 * Nm
    <3>1. Dist(p) \in Int
      BY <1>1, <1>2, SMT DEF Dist
    <3> QED
      BY <3>1, CompletesInNext DEF MarkFilled
  <2>2. p.mcnt \in BlockMcnts(binfo.mcnt_start + Nm)
    BY <1>1, <1>2, <2>1, Constants, SMT DEF Dist, BlockMcnts
  <2> QED
    BY <1>5, <1>7, <2>2 DEF PacketInNextBlock
<1>11. OwnsWindow'
  BY <1>1, <1>2, <1>3, <1>5, <1>7 DEF NetInv, OwnsWindow, Holds, IsFree, CurBlock, Ahead
<1>12. StoredUnderHeader'
  <2> SUFFICES ASSUME NEW c \in InBlocks PROVE \A s \in stored'[c] : Belongs(c, s)'
    BY DEF StoredUnderHeader
  <2> QED
    BY <1>1, <1>5, StillBelongs
<1>13. PutAside'
  <2>1. p.mcnt < p.mcnt + 1
    BY <1>1, SMT
  <2>2. block_for_mcnt(p.mcnt) \in InBlocks
    BY <1>1, SlotIsBlock
  <2> QED
    BY <1>1, <1>5, <2>1, <2>2 DEF PutAside, BadSid
<1> QED
  BY <1>1, <1>8, <1>9, <1>10, <1>11, <1>12, <1>13 DEF NetInv

LEMMA DroppedNetInv ==
    ASSUME NetInv, NEW beam \in Beams, NEW p \in Packet, Sent(beam, p),
           IgnoreLate(p) \/ CountOutOfSeq(p)
    PROVE  NetInv'
<1>1. /\ StreamOK' /\ Pairs' = Pairs /\ from' = from /\ pc = "batch"
      /\ \A c \in Beams : next[c] <= next'[c]
      /\ left - 1 \in 0 .. VLEN
  BY SentIs DEF Sent
<1>2. /\ pc' = "batch" /\ left' = left - 1 /\ mcnt' = mcnt
      /\ UNCHANGED <<sem, hdr, stored, fill, pkt, status>>
      /\ binfo' = binfo \/ binfo' = [binfo EXCEPT !.out_of_seq_cnt = @ + 1]
  BY DEF IgnoreLate, CountOutOfSeq, PacketDone, KeepLast, ring
<1>3. /\ binfo' \in BlockInfo
      /\ binfo'.mcnt_start = binfo.mcnt_start /\ binfo'.block_i = binfo.block_i
  <2>1. binfo \in BlockInfo
    BY DEF NetInv, NetTypeOK, BlockInfo
  <2> QED
    BY <1>2, <2>1 DEF BlockInfo
<1>4. NetTypeOK'
  BY <1>1, <1>2, <1>3 DEF NetInv, NetTypeOK, BlockInfo
<1>5. /\ NothingMovedYet' /\ PacketInNextBlock' /\ FillOrder' /\ PutAside'
      /\ binfo'.mcnt_start % Nm = 0
  BY <1>1, <1>2, <1>3 DEF NetInv, NothingMovedYet, PacketInNextBlock, FillOrder, PutAside, Before
<1>6. OwnsWindow'
  BY <1>1, <1>2, <1>3 DEF NetInv, OwnsWindow, Holds, IsFree, CurBlock, Ahead
<1>7. StoredUnderHeader'
  <2> SUFFICES ASSUME NEW c \in InBlocks PROVE \A s \in stored'[c] : Belongs(c, s)'
    BY DEF StoredUnderHeader
  <2> QED
    BY <1>1, <1>2, StillBelongs
<1> QED
  BY <1>1, <1>4, <1>5, <1>6, <1>7 DEF NetInv

\* What a resynchronisation does.
LEMMA ResyncIs ==
    ASSUME NetInv, NEW p \in Packet, Resync(p),
           NEW start, start = ResetMcnt(p.mcnt, binfo.block_i)
    PROVE  /\ CurBlock \in InBlocks /\ Ahead \in InBlocks
           /\ binfo' \in BlockInfo
           /\ binfo'.mcnt_start = start /\ binfo'.block_i = CurBlock
           /\ binfo'.out_of_seq_cnt = binfo.out_of_seq_cnt + 1
           /\ hdr' \in [InBlocks -> Header] /\ stored' \in [InBlocks -> SUBSET Pairs]
           /\ hdr'[CurBlock].mcnt = start /\ hdr'[Ahead].mcnt = start + Nm
           /\ hdr'[CurBlock].missed_pkts = AllOf(Nm) /\ hdr'[Ahead].missed_pkts = AllOf(Nm)
           /\ stored'[CurBlock] = {} /\ stored'[Ahead] = {}
           /\ \A c \in InBlocks \ {CurBlock, Ahead} : hdr'[c] = hdr[c] /\ stored'[c] = stored[c]
<1>1. /\ start \in Nat /\ start % Nm = 0
      /\ block_for_mcnt(start) = CurBlock /\ block_for_mcnt(start + Nm) = Ahead
  BY ResyncSlots
<1>2. CurBlock \in InBlocks /\ Ahead \in InBlocks /\ Ahead # CurBlock
  BY WindowSlots DEF NetInv
<1>3. /\ hdr \in [InBlocks -> Header]
      /\ stored \in [InBlocks -> SUBSET Pairs] /\ binfo \in BlockInfo
  BY DEF NetInv, NetTypeOK, BlockInfo, Header, Missed, Pairs
<1>4. /\ binfo' = [mcnt_start |-> start, block_i |-> CurBlock,
                   out_of_seq_cnt |-> binfo.out_of_seq_cnt + 1,
                   counter |-> [binfo.counter EXCEPT ![CurBlock] = 0, ![Ahead] = 0]]
      /\ hdr' = InitializeBlock(InitializeBlock(hdr, start), start + Nm)
      /\ stored' = NoneStored(NoneStored(stored, start), start + Nm)
  BY <1>1 DEF Resync, CurBlock, Ahead
<1>5. /\ hdr' \in [InBlocks -> Header] /\ stored' \in [InBlocks -> SUBSET Pairs]
      /\ hdr'[CurBlock].mcnt = start /\ hdr'[Ahead].mcnt = start + Nm
      /\ hdr'[CurBlock].missed_pkts = AllOf(Nm) /\ hdr'[Ahead].missed_pkts = AllOf(Nm)
      /\ stored'[CurBlock] = {} /\ stored'[Ahead] = {}
      /\ \A c \in InBlocks \ {CurBlock, Ahead} : hdr'[c] = hdr[c] /\ stored'[c] = stored[c]
  BY <1>1, <1>3, <1>4, InitializeTwoBlocks
<1>6. binfo' \in BlockInfo
  <2>1. [binfo.counter EXCEPT ![CurBlock] = 0, ![Ahead] = 0] \in [InBlocks -> Nat]
    BY <1>2, <1>3 DEF BlockInfo
  <2>2. binfo.out_of_seq_cnt + 1 \in Nat
    BY <1>3, SMT DEF BlockInfo
  <2> QED
    BY <1>1, <1>2, <1>4, <2>1, <2>2 DEF BlockInfo
<1> QED
  BY <1>2, <1>4, <1>5, <1>6

LEMMA ResyncNetInv ==
    ASSUME NetInv, NEW beam \in Beams, NEW p \in Packet, Sent(beam, p), Resync(p)
    PROVE  NetInv'
<1> DEFINE start == ResetMcnt(p.mcnt, binfo.block_i)
<1>1. /\ StreamOK' /\ Pairs' = Pairs /\ from' = from /\ pc = "batch"
      /\ \A c \in Beams : next[c] <= next'[c]
      /\ left - 1 \in 0 .. VLEN
  BY SentIs DEF Sent
<1>2. /\ start \in Nat /\ start % Nm = 0
      /\ block_for_mcnt(start) = CurBlock /\ block_for_mcnt(start + Nm) = Ahead
  BY ResyncSlots
<1>3. /\ CurBlock \in InBlocks /\ Ahead \in InBlocks
      /\ binfo' \in BlockInfo
      /\ binfo'.mcnt_start = start /\ binfo'.block_i = CurBlock
      /\ hdr' \in [InBlocks -> Header] /\ stored' \in [InBlocks -> SUBSET Pairs]
      /\ hdr'[CurBlock].mcnt = start /\ hdr'[Ahead].mcnt = start + Nm
      /\ stored'[CurBlock] = {} /\ stored'[Ahead] = {}
      /\ \A c \in InBlocks \ {CurBlock, Ahead} : hdr'[c] = hdr[c] /\ stored'[c] = stored[c]
  BY ResyncIs
<1> HIDE DEF start
<1>4. /\ pc' = "batch" /\ left' = left - 1 /\ mcnt' = mcnt
      /\ UNCHANGED <<sem, fill, pkt, status>>
  BY DEF Resync, PacketDone, KeepLast
<1>5. NetTypeOK'
  BY <1>1, <1>3, <1>4 DEF NetInv, NetTypeOK, BlockInfo, Header, Missed, Pairs
<1>6. NothingMovedYet' /\ PacketInNextBlock' /\ PutAside' /\ binfo'.mcnt_start % Nm = 0
  BY <1>2, <1>3, <1>4 DEF NothingMovedYet, PacketInNextBlock, PutAside, Before
<1>7. FillOrder'
  BY <1>1, <1>2, <1>3, <1>4 DEF NetInv, FillOrder, CurBlock
<1>8. CurBlock' = CurBlock /\ Ahead' = Ahead
  BY <1>3 DEF CurBlock, Ahead
<1>9. OwnsWindow'
  <2>1. IsFree(sem, CurBlock) /\ IsFree(sem, Ahead)
    BY <1>1 DEF NetInv, OwnsWindow, Holds
  <2> QED
    BY <1>3, <1>4, <1>8, <2>1 DEF OwnsWindow, Holds, IsFree
<1>10. StoredUnderHeader'
  <2> SUFFICES ASSUME NEW c \in InBlocks PROVE \A s \in stored'[c] : Belongs(c, s)'
    BY DEF StoredUnderHeader
  <2>1. CASE c \in {CurBlock, Ahead}
    BY <1>3, <2>1
  <2>2. CASE c \notin {CurBlock, Ahead}
    BY <1>1, <1>3, <2>2, StillBelongs
  <2> QED
    BY <2>1, <2>2
<1> QED
  BY <1>1, <1>5, <1>6, <1>7, <1>9, <1>10 DEF NetInv
-----------------------------------------------------------------------------
LEMMA UpdateStatusNetInv == ASSUME NetInv, UpdateStatus PROVE NetInv'
<1>1. /\ CurBlock \in InBlocks /\ Ahead \in InBlocks /\ Ahead # CurBlock
      /\ binfo.mcnt_start \in Nat /\ binfo.mcnt_start + Nm \in Nat
      /\ (binfo.mcnt_start + Nm) % Nm = 0
      /\ block_for_mcnt(binfo.mcnt_start) = CurBlock
      /\ block_for_mcnt(binfo.mcnt_start + Nm) = Ahead
  BY WindowSlots DEF NetInv
<1>2. binfo \in BlockInfo
  BY DEF NetInv, NetTypeOK, BlockInfo
<1>3. binfo' = [mcnt_start |-> binfo.mcnt_start + Nm, block_i |-> Ahead,
                out_of_seq_cnt |-> binfo.out_of_seq_cnt, counter |-> binfo.counter]
  BY <1>2 DEF UpdateStatus, Advance, BlockInfo
<1>4. /\ pc = "status" /\ pc' = "acquire"
      /\ UNCHANGED <<sem, hdr, stored, pkt, left, mcnt, from, next, faults>>
  BY DEF UpdateStatus, ring, beams
<1>5. /\ fill' \in [last_filled : InBlocks \cup {-1}, missed_pkt_cnt : 0 .. U32 - 1,
                    total_missed : [Beams -> 0 .. U64 - 1]]
      /\ fill'.last_filled = fill.last_filled
  <2> DEFINE total == (fill.missed_pkt_cnt + BlockMissed) % U32
  <2>1. BlockMissed \in Nat
    <3>1. binfo.counter[CurBlock] \in Nat
      BY <1>1, <1>2 DEF BlockInfo
    <3>2. Nm * N_BEAMS \in Nat
      BY Constants, NetConstants, ProductIsNat
    <3> QED
      BY <3>1, <3>2, NetConstants, SMT DEF BlockMissed
  <2>2. fill \in [last_filled : InBlocks \cup {-1}, missed_pkt_cnt : 0 .. U32 - 1,
                  total_missed : [Beams -> 0 .. U64 - 1]]
    BY DEF NetInv, NetTypeOK
  <2>3. total \in 0 .. U32 - 1
    <3>1. fill.missed_pkt_cnt \in Nat
      BY <2>2, NetConstants, SMT
    <3> QED
      BY <2>1, <3>1, NetConstants, SMT
  <2>4. fill' = [fill EXCEPT !.missed_pkt_cnt = total]
    BY DEF UpdateStatus
  <2> HIDE DEF total
  <2> QED
    BY <2>2, <2>3, <2>4
<1>6. status' \in [NETHOLD : {"absent", "0", "1"}, NETBKOUT : InBlocks,
                   MISSPKTL : 0 .. U32 - 1, MISSPER : [Beams -> 0 .. U64 - 1],
                   NETMCNT : Nat \cup {NoMcnt}]
  <2>1. status' = [status EXCEPT !.NETBKOUT = CurBlock, !.MISSPKTL = fill'.missed_pkt_cnt,
                                 !.MISSPER = fill.total_missed]
    BY <1>1 DEF UpdateStatus
  <2>2. fill.total_missed \in [Beams -> 0 .. U64 - 1] /\ fill'.missed_pkt_cnt \in 0 .. U32 - 1
    BY <1>5 DEF NetInv, NetTypeOK
  <2>3. status \in [NETHOLD : {"absent", "0", "1"}, NETBKOUT : InBlocks,
                    MISSPKTL : 0 .. U32 - 1, MISSPER : [Beams -> 0 .. U64 - 1],
                    NETMCNT : Nat \cup {NoMcnt}]
    BY DEF NetInv, NetTypeOK
  <2> QED
    BY <1>1, <2>1, <2>2, <2>3
<1>7. NetTypeOK'
  BY <1>1, <1>2, <1>3, <1>4, <1>5, <1>6 DEF NetInv, NetTypeOK, BlockInfo
<1>8. StreamOK' /\ NothingMovedYet' /\ StoredUnderHeader' /\ PutAside'
  BY <1>4 DEF NetInv, StreamOK, NothingMovedYet, StoredUnderHeader, Belongs, PutAside, BadSid, Before
<1>9. binfo'.mcnt_start % Nm = 0 /\ PacketInNextBlock'
  <2>1. binfo'.mcnt_start = binfo.mcnt_start + Nm
    BY <1>3
  <2>2. binfo'.mcnt_start - Nm \in Nat
    BY <1>1, <2>1, Constants, SMT
  <2>3. pkt'.mcnt \in BlockMcnts(binfo'.mcnt_start)
    BY <1>4, <2>1 DEF NetInv, PacketInNextBlock
  <2> QED
    BY <1>1, <1>4, <2>1, <2>2, <2>3 DEF PacketInNextBlock
<1>10. FillOrder'
  BY <1>1, <1>3, <1>4, <1>5 DEF NetInv, FillOrder, Ahead, CurBlock
<1>11. OwnsWindow'
  <2>1. Holds(Ahead, binfo.mcnt_start + Nm)
    BY <1>4 DEF NetInv, OwnsWindow
  <2> QED
    BY <1>3, <1>4, <2>1 DEF OwnsWindow, Holds, IsFree, CurBlock
<1> QED
  BY <1>7, <1>8, <1>9, <1>10, <1>11 DEF NetInv

\* What AcquireNext writes, and where.
LEMMA AcquireNextIs ==
    ASSUME NetInv, AcquireNext
    PROVE  /\ CurBlock \in InBlocks /\ Ahead \in InBlocks /\ Ahead # CurBlock
           /\ pkt \in Packet /\ pkt.sid \in 0 .. N_BEAMS
           /\ block_for_mcnt(pkt.mcnt) = CurBlock
           /\ ~BadSid(pkt) => <<pkt.sid, pkt.mcnt>> \in Pairs
           /\ binfo' \in BlockInfo
           /\ binfo'.mcnt_start = binfo.mcnt_start /\ binfo'.block_i = binfo.block_i
           /\ hdr' \in [InBlocks -> Header] /\ stored' \in [InBlocks -> SUBSET Pairs]
           /\ hdr'[Ahead].mcnt = binfo.mcnt_start + Nm
           /\ hdr'[Ahead].missed_pkts = AllOf(Nm)
           /\ hdr'[CurBlock].mcnt = hdr[CurBlock].mcnt
           /\ \A beam \in Beams :
                  hdr'[CurBlock].missed_pkts[beam] =
                      IF beam = pkt.sid
                      THEN (hdr[CurBlock].missed_pkts[beam] + (U64 - 1)) % U64
                      ELSE hdr[CurBlock].missed_pkts[beam]
           /\ stored'[Ahead] = {}
           /\ stored'[CurBlock] = IF BadSid(pkt) THEN stored[CurBlock]
                                  ELSE stored[CurBlock] \cup {<<pkt.sid, pkt.mcnt>>}
           /\ \A c \in InBlocks \ {CurBlock, Ahead} : hdr'[c] = hdr[c] /\ stored'[c] = stored[c]
<1> DEFINE h == InitializeBlock(hdr, pkt.mcnt + Nm)
           s == NoneStored(stored, pkt.mcnt + Nm)
<1>1. /\ CurBlock \in InBlocks /\ Ahead \in InBlocks /\ Ahead # CurBlock
      /\ binfo.mcnt_start \in Nat /\ binfo.mcnt_start % Nm = 0
      /\ binfo.mcnt_start + Nm \in Nat /\ (binfo.mcnt_start + Nm) % Nm = 0
      /\ block_for_mcnt(binfo.mcnt_start) = CurBlock
      /\ block_for_mcnt(binfo.mcnt_start + Nm) = Ahead
  BY WindowSlots DEF NetInv
<1>2. /\ pc = "acquire" /\ hdr' = DecrementMissed(h, pkt) /\ stored' = CopyPayload(s, pkt)
      /\ binfo' = CountPacket([binfo EXCEPT !.counter[Ahead] = 0], pkt)
  BY DEF AcquireNext, CountersReset
<1>3. /\ pkt \in Packet /\ pkt.mcnt \in Nat /\ pkt.sid \in 0 .. N_BEAMS
      /\ pkt.mcnt \in BlockMcnts(binfo.mcnt_start) /\ pkt.mcnt <= from + Length
      /\ hdr \in [InBlocks -> Header] /\ stored \in [InBlocks -> SUBSET Pairs]
      /\ binfo \in BlockInfo
  BY <1>2 DEF NetInv, NetTypeOK, PutAside, PacketInNextBlock, Packet, Header, Missed, Pairs, BlockInfo
<1>4. pkt.mcnt + Nm \in BlockMcnts(binfo.mcnt_start + Nm) /\ pkt.mcnt + Nm \in Nat
  BY <1>1, <1>3, Constants, SMT DEF BlockMcnts
<1>5. /\ block_for_mcnt(pkt.mcnt) = CurBlock
      /\ block_for_mcnt(pkt.mcnt + Nm) = Ahead /\ RoundDown(pkt.mcnt + Nm) = binfo.mcnt_start + Nm
  BY <1>1, <1>3, <1>4, BlockMcntsSlot
<1>6. ~BadSid(pkt) => <<pkt.sid, pkt.mcnt>> \in Pairs
  <2> SUFFICES ASSUME ~BadSid(pkt) PROVE pkt.sid \in Beams /\ pkt.mcnt \in 0 .. from + Length
    BY DEF Pairs
  <2>1. pkt.sid \in Beams
    BY <1>3, NetConstants, SMT DEF BadSid, Beams
  <2>2. from + Length \in Nat
    BY NetConstants, SMT DEF NetInv, StreamOK
  <2> QED
    BY <1>3, <2>1, <2>2, SMT
<1>7. /\ h \in [InBlocks -> Header] /\ h[Ahead].mcnt = binfo.mcnt_start + Nm
      /\ h[Ahead].missed_pkts = AllOf(Nm)
      /\ \A c \in InBlocks : c # Ahead => h[c] = hdr[c]
  BY <1>3, <1>4, <1>5, InitializeBlockIs
<1>8. /\ s \in [InBlocks -> SUBSET Pairs] /\ s[Ahead] = {}
      /\ \A c \in InBlocks : c # Ahead => s[c] = stored[c]
  BY <1>3, <1>4, <1>5, NoneStoredIs
<1> HIDE DEF h, s
<1>9. /\ hdr' \in [InBlocks -> Header]
      /\ \A c \in InBlocks : hdr'[c].mcnt = h[c].mcnt
      /\ \A c \in InBlocks : c # CurBlock => hdr'[c] = h[c]
      /\ \A beam \in Beams :
             hdr'[CurBlock].missed_pkts[beam] =
                 IF beam = pkt.sid THEN (h[CurBlock].missed_pkts[beam] + (U64 - 1)) % U64
                 ELSE h[CurBlock].missed_pkts[beam]
  BY <1>2, <1>3, <1>5, <1>7, DecrementMissedIs
<1>10. /\ stored' \in [InBlocks -> SUBSET Pairs]
       /\ stored'[CurBlock] = IF BadSid(pkt) THEN s[CurBlock]
                              ELSE s[CurBlock] \cup {<<pkt.sid, pkt.mcnt>>}
       /\ \A c \in InBlocks : c # CurBlock => stored'[c] = s[c]
  BY <1>2, <1>3, <1>5, <1>6, <1>8, CopyPayloadIs
<1>11. /\ binfo' \in BlockInfo
       /\ binfo'.mcnt_start = binfo.mcnt_start /\ binfo'.block_i = binfo.block_i
  <2> DEFINE bi == [binfo EXCEPT !.counter[Ahead] = 0]
  <2>1. bi = [mcnt_start |-> binfo.mcnt_start, block_i |-> binfo.block_i,
              out_of_seq_cnt |-> binfo.out_of_seq_cnt,
              counter |-> [binfo.counter EXCEPT ![Ahead] = 0]]
    BY <1>3 DEF BlockInfo
  <2>2. [binfo.counter EXCEPT ![Ahead] = 0] \in [InBlocks -> Nat]
    BY <1>1, <1>3 DEF BlockInfo
  <2>3. bi \in BlockInfo /\ bi.mcnt_start = binfo.mcnt_start /\ bi.block_i = binfo.block_i
    BY <1>3, <2>1, <2>2 DEF BlockInfo
  <2>4. binfo' = CountPacket(bi, pkt)
    BY <1>2
  <2> HIDE DEF bi
  <2> QED
    BY <1>3, <2>3, <2>4, CountPacketIs
<1>12. /\ hdr'[Ahead] = h[Ahead] /\ stored'[Ahead] = {}
       /\ h[CurBlock] = hdr[CurBlock] /\ s[CurBlock] = stored[CurBlock]
  BY <1>1, <1>7, <1>8, <1>9, <1>10
<1>13. \A c \in InBlocks \ {CurBlock, Ahead} : hdr'[c] = hdr[c] /\ stored'[c] = stored[c]
  BY <1>7, <1>8, <1>9, <1>10
<1>14. hdr'[CurBlock].mcnt = hdr[CurBlock].mcnt
  BY <1>1, <1>9, <1>12
<1> QED
  BY <1>1, <1>3, <1>5, <1>6, <1>7, <1>9, <1>10, <1>11, <1>12, <1>13, <1>14

LEMMA AcquireNextNetInv == ASSUME NetInv, AcquireNext PROVE NetInv'
<1>1. /\ CurBlock \in InBlocks /\ Ahead \in InBlocks /\ Ahead # CurBlock
      /\ pkt \in Packet
      /\ binfo' \in BlockInfo
      /\ binfo'.mcnt_start = binfo.mcnt_start /\ binfo'.block_i = binfo.block_i
      /\ hdr' \in [InBlocks -> Header] /\ stored' \in [InBlocks -> SUBSET Pairs]
      /\ hdr'[Ahead].mcnt = binfo.mcnt_start + Nm
      /\ hdr'[CurBlock].mcnt = hdr[CurBlock].mcnt
      /\ stored'[Ahead] = {}
      /\ stored'[CurBlock] = IF BadSid(pkt) THEN stored[CurBlock]
                             ELSE stored[CurBlock] \cup {<<pkt.sid, pkt.mcnt>>}
      /\ \A c \in InBlocks \ {CurBlock, Ahead} : hdr'[c] = hdr[c] /\ stored'[c] = stored[c]
  BY AcquireNextIs
<1>2. /\ pc = "acquire" /\ pc' = "batch" /\ IsFree(sem, Ahead) /\ pkt' = NoPacket
      /\ UNCHANGED <<sem, fill, status, from, next, faults>>
      /\ left' = left - 1
      /\ mcnt' \in {mcnt, binfo.mcnt_start - Nm}
  BY DEF AcquireNext, NewBlockReady, PacketDone, KeepLast, beams
<1>3. /\ left' \in 0 .. VLEN /\ mcnt' \in Nat \cup {NoMcnt}
      /\ pkt' \in [mcnt : Nat, sid : Nat]
  <2>1. left > 0 /\ left \in 0 .. VLEN
    BY <1>2 DEF NetInv, NetTypeOK, PutAside
  <2>2. left - 1 \in 0 .. VLEN
    BY <2>1, NetConstants, SMT
  <2>3. binfo.mcnt_start - Nm \in Nat /\ mcnt \in Nat \cup {NoMcnt}
    BY <1>2 DEF NetInv, NetTypeOK, PacketInNextBlock
  <2> QED
    BY <1>2, <2>2, <2>3 DEF NoPacket
<1>4. NetTypeOK'
  BY <1>1, <1>2, <1>3 DEF NetInv, NetTypeOK, BlockInfo, Header, Missed, Pairs
<1>5. /\ StreamOK' /\ NothingMovedYet' /\ PacketInNextBlock' /\ PutAside'
      /\ binfo'.mcnt_start % Nm = 0
  BY <1>1, <1>2 DEF NetInv, StreamOK, NothingMovedYet, PacketInNextBlock, PutAside, Before
<1>6. FillOrder'
  BY <1>1, <1>2 DEF NetInv, FillOrder
<1>7. Holds(CurBlock, binfo.mcnt_start)
  BY <1>2 DEF NetInv, OwnsWindow
<1>8. OwnsWindow'
  <2>1. CurBlock' = CurBlock /\ Ahead' = Ahead
    BY <1>1 DEF CurBlock, Ahead
  <2> QED
    BY <1>1, <1>2, <1>7, <2>1 DEF OwnsWindow, Holds, IsFree
<1>9. StoredUnderHeader'
  <2> SUFFICES ASSUME NEW c \in InBlocks, NEW s \in stored'[c] PROVE Belongs(c, s)'
    BY DEF StoredUnderHeader
  <2>1. CASE c = Ahead
    BY <1>1, <2>1
  <2>2. CASE s \in stored[c] /\ c # Ahead
    <3>1. Belongs(c, s) /\ hdr'[c].mcnt = hdr[c].mcnt
      BY <1>1, <2>2 DEF NetInv, StoredUnderHeader
    <3> QED
      BY <1>2, <3>1 DEF Belongs
  <2>3. CASE c = CurBlock /\ ~BadSid(pkt) /\ s = <<pkt.sid, pkt.mcnt>>
    <3>1. pkt.mcnt \in BlockMcnts(hdr[CurBlock].mcnt)
      BY <1>2, <1>7 DEF NetInv, PacketInNextBlock, Holds
    <3>2. pkt.mcnt < next[pkt.sid]
      BY <1>2, <2>3 DEF NetInv, PutAside
    <3> QED
      BY <1>1, <1>2, <2>3, <3>1, <3>2 DEF Belongs
  <2> QED
    BY <1>1, <2>1, <2>2, <2>3
<1> QED
  BY <1>4, <1>5, <1>6, <1>8, <1>9 DEF NetInv
-----------------------------------------------------------------------------
LEMMA StepNetInv == NetInv /\ [Next]_netVars => NetInv'
<1> SUFFICES ASSUME NetInv, [Next]_netVars PROVE NetInv'
  OBVIOUS
<1>1. CASE ForceHold \/ LookHold \/ Operator \/ Params \/ ReceiveBatch \/ ReceiveNothing
           \/ Stop \/ Exited \/ WaitFails \/ ReportBatch
  BY <1>1, OtherStepsNetInv
<1>2. CASE Start
  BY <1>2, StartNetInv
<1>3. CASE Benchmark
  BY <1>3, BenchmarkNetInv
<1>4. CASE UpdateStatus
  BY <1>4, UpdateStatusNetInv
<1>5. CASE AcquireNext
  BY <1>5, AcquireNextNetInv
<1>6. ASSUME NEW beam \in Beams, Process(beam) PROVE NetInv'
  <2>1. PICK p \in Packet : Sent(beam, p) /\ ProcessPacket(p)
    BY <1>6, ProcessSends
  <2>2. CASE StorePacket(p)
    BY <2>1, <2>2, StorePacketNetInv
  <2>3. CASE MarkFilled(p)
    BY <2>1, <2>3, MarkFilledNetInv
  <2>4. CASE IgnoreLate(p) \/ CountOutOfSeq(p)
    BY <2>1, <2>4, DroppedNetInv
  <2>5. CASE Resync(p)
    BY <2>1, <2>5, ResyncNetInv
  <2> QED
    BY <2>1, <2>2, <2>3, <2>4, <2>5 DEF ProcessPacket
<1>7. ASSUME NEW beam \in Beams, Lose(beam) PROVE NetInv'
  BY <1>7, LoseNetInv
<1>8. ASSUME NEW b \in InBlocks, Drain(b) PROVE NetInv'
  BY <1>8, DrainNetInv
<1>9. CASE UNCHANGED netVars
  BY <1>9, StutterNetInv
<1> QED
  BY <1>1, <1>2, <1>3, <1>4, <1>5, <1>6, <1>7, <1>8, <1>9 DEF Next, ThreadStep, Processing

LEMMA NetInvariance == Spec => []NetInv
  BY InitNetInv, StepNetInv, PTL DEF Spec

\* Every variable of the UDP network thread keeps its type, see NetTypeOK.
THEOREM NetTypeCorrect == Spec => []NetTypeOK
<1>1. NetInv => NetTypeOK
  BY DEF NetInv
<1> QED
  BY <1>1, NetInvariance, PTL

\* The thread stores packets only in the two blocks that it has acquired, under
\* the headers of the window, and fills them round the ring, see HoldsWindow.
THEOREM PacketsStayInTheWindow == Spec => []HoldsWindow
<1>1. NetInv => HoldsWindow
  BY DEF NetInv, FillOrder, OwnsWindow, Holds, HoldsWindow
<1> QED
  BY <1>1, NetInvariance, PTL

\* What a step leaves alone in the blocks that are not of the window.
LEMMA FilledIsNotWritten ==
    ASSUME NetInv, [Next]_netVars, NEW b \in InBlocks, IsFilled(sem, b)
    PROVE  hdr'[b] = hdr[b] /\ stored'[b] = stored[b]
<1>1. ~IsFree(sem, b)
  BY DEF IsFilled, IsFree
<1>2. CASE UNCHANGED <<hdr, stored>>
  BY <1>2
<1>3. pc \notin Before
  BY <1>1 DEF NetInv, NothingMovedYet
<1>4. CASE AcquireNext
  <2>1. /\ IsFree(sem, CurBlock) /\ IsFree(sem, Ahead)
    BY <1>4 DEF AcquireNext, NewBlockReady, NetInv, OwnsWindow, Holds
  <2>2. \A c \in InBlocks \ {CurBlock, Ahead} : hdr'[c] = hdr[c] /\ stored'[c] = stored[c]
    BY <1>4, AcquireNextIs
  <2> QED
    BY <1>1, <2>1, <2>2
<1>5. ASSUME NEW beam \in Beams, Process(beam)
      PROVE  hdr'[b] = hdr[b] /\ stored'[b] = stored[b]
  <2>1. PICK p \in Packet : Sent(beam, p) /\ ProcessPacket(p)
    BY <1>5, ProcessSends
  <2>2. b # CurBlock /\ b # Ahead
    BY <1>1, <2>1 DEF Sent, NetInv, OwnsWindow, Holds
  <2>3. CASE StorePacket(p)
    <3>1. block_for_mcnt(p.mcnt) # b
      BY <2>2, <2>3, PacketSlot DEF StorePacket, NetInv
    <3>2. /\ hdr \in [InBlocks -> Header] /\ stored \in [InBlocks -> SUBSET Pairs]
          /\ p.sid \in 0 .. N_BEAMS /\ (~BadSid(p) => <<p.sid, p.mcnt>> \in Pairs)
      BY <2>1, SentIs DEF NetInv, NetTypeOK, Header, Missed, Pairs
    <3>3. hdr'[b] = hdr[b]
      BY <2>3, <3>1, <3>2, DecrementMissedIs DEF StorePacket
    <3>4. stored'[b] = stored[b]
      BY <2>3, <3>1, <3>2, CopyPayloadIs DEF StorePacket
    <3> QED
      BY <3>3, <3>4
  <2>4. CASE MarkFilled(p) \/ IgnoreLate(p) \/ CountOutOfSeq(p)
    BY <2>4 DEF MarkFilled, IgnoreLate, CountOutOfSeq, ring
  <2>5. CASE Resync(p)
    BY <2>2, <2>5, ResyncIs
  <2> QED
    BY <2>1, <2>3, <2>4, <2>5 DEF ProcessPacket
<1> QED
  BY <1>2, <1>3, <1>4, <1>5 DEF Next, ThreadStep, Processing, netVars, ring, Before,
     ForceHold, LookHold, Operator, Params, Start, Benchmark, ReceiveBatch, ReceiveNothing,
     Stop, Exited, WaitFails, ReportBatch, UpdateStatus, Lose, Drain

\* Between set filled and set free, the thread changes neither header nor data
\* of a block: the benchmark writes into all, but before any is filled.
THEOREM FilledBlocksAreLeftAlone == Spec => LeavesFilledAlone
<1>1. /\ NetInv /\ [Next]_netVars =>
           [\A b \in InBlocks : IsFilled(sem, b) =>
                hdr'[b] = hdr[b] /\ stored'[b] = stored[b]]_netVars
  BY FilledIsNotWritten
<1> QED
  BY <1>1, NetInvariance, PTL DEF Spec, LeavesFilledAlone
-----------------------------------------------------------------------------
\* The packets of one beam.
Of(set, beam) == {s \in set : s[1] = beam}

Counts(missed, set) ==
    \A beam \in Beams : missed[beam] = Nm - Cardinality(Of(set, beam))

LEMMA BeamIsFinite ==
    ASSUME NEW m \in Nat, NEW set \in SUBSET Pairs, \A s \in set : s[2] \in BlockMcnts(m),
           NEW beam \in Beams
    PROVE  IsFiniteSet(Of(set, beam)) /\ Cardinality(Of(set, beam)) \in 0 .. Nm
<1>1. m \in Int /\ m + Nm - 1 \in Int /\ Nm > 0 /\ Nm \in Nat
  BY Constants, SMT
<1>2. IsFiniteSet(BlockMcnts(m)) /\ Cardinality(BlockMcnts(m)) = Nm
  <2>1. /\ IsFiniteSet(m .. m + Nm - 1)
        /\ Cardinality(m .. m + Nm - 1)
               = IF m > m + Nm - 1 THEN 0 ELSE m + Nm - 1 - m + 1
    BY <1>1, FS_Interval
  <2>2. (IF m > m + Nm - 1 THEN 0 ELSE m + Nm - 1 - m + 1) = Nm
    BY <1>1, SMT
  <2> QED
    BY <2>1, <2>2 DEF BlockMcnts
<1>3. IsFiniteSet({beam}) /\ Cardinality({beam}) = 1
  BY FS_Singleton
<1>4. /\ IsFiniteSet({beam} \X BlockMcnts(m))
      /\ Cardinality({beam} \X BlockMcnts(m)) = 1 * Nm
  BY <1>2, <1>3, FS_Product
<1>5. Of(set, beam) \subseteq {beam} \X BlockMcnts(m)
  BY DEF Of, Pairs
<1>6. /\ IsFiniteSet(Of(set, beam))
      /\ Cardinality(Of(set, beam)) <= Cardinality({beam} \X BlockMcnts(m))
  BY <1>4, <1>5, FS_Subset
<1>7. Cardinality(Of(set, beam)) \in Nat
  BY <1>6, FS_CardinalityType
<1> DEFINE k == Cardinality(Of(set, beam))
           n == Cardinality({beam} \X BlockMcnts(m))
<1> HIDE DEF k, n
<1>8. k <= n /\ n = 1 * Nm /\ k \in Nat
  BY <1>4, <1>6, <1>7 DEF k, n
<1>9. k \in 0 .. Nm
  BY <1>1, <1>8, SMT
<1> QED
  BY <1>6, <1>9 DEF k

\* A packet that is stored for the first time is taken off what its beam misses.
LEMMA CountsOneMore ==
    ASSUME NEW m \in Nat, NEW set \in SUBSET Pairs, \A s \in set : s[2] \in BlockMcnts(m),
           NEW p \in Packet, p.sid \in 0 .. N_BEAMS, p.mcnt \in BlockMcnts(m),
           ~BadSid(p) => <<p.sid, p.mcnt>> \in Pairs /\ <<p.sid, p.mcnt>> \notin set,
           NEW missed, Counts(missed, set),
           NEW set2, set2 = IF BadSid(p) THEN set ELSE set \cup {<<p.sid, p.mcnt>>},
           NEW missed2,
           \A beam \in Beams : missed2[beam] = IF beam = p.sid
                                               THEN (missed[beam] + (U64 - 1)) % U64
                                               ELSE missed[beam]
    PROVE  Counts(missed2, set2)
<1> SUFFICES ASSUME NEW beam \in Beams
             PROVE  missed2[beam] = Nm - Cardinality(Of(set2, beam))
  BY DEF Counts
<1>1. missed[beam] = Nm - Cardinality(Of(set, beam))
  BY DEF Counts
<1>2. CASE beam # p.sid
  <2>1. Of(set2, beam) = Of(set, beam)
    BY <1>2 DEF Of
  <2> QED
    BY <1>1, <1>2, <2>1
<1>3. CASE beam = p.sid
  <2>1. ~BadSid(p)
    BY <1>3, NetConstants, SMT DEF BadSid, Beams
  <2> DEFINE e == <<p.sid, p.mcnt>>
             k == Cardinality(Of(set, beam))
             n == Cardinality(Of(set2, beam))
  <2>2. set2 \in SUBSET Pairs /\ \A s \in set2 : s[2] \in BlockMcnts(m)
    BY <2>1
  <2>3. IsFiniteSet(Of(set, beam)) /\ k \in 0 .. Nm /\ n \in 0 .. Nm
    BY <2>2, BeamIsFinite
  <2>4. Of(set2, beam) = Of(set, beam) \cup {e} /\ e \notin Of(set, beam)
    BY <1>3, <2>1 DEF Of
  <2>5. n = k + 1
    BY <2>3, <2>4, FS_AddElement
  <2>6. missed2[beam] = ((Nm - k) + (U64 - 1)) % U64
    BY <1>1, <1>3
  <2> HIDE DEF k, n
  <2>7. missed2[beam] = Nm - n
    BY <2>3, <2>5, <2>6, Constants, NetConstants, SMT
  <2> QED
    BY <2>7 DEF n
<1> QED
  BY <1>2, <1>3

LEMMA NothingCounts == Counts(AllOf(Nm), {})
<1>1. \A beam \in Beams : Of({}, beam) = {} /\ AllOf(Nm)[beam] = Nm
  BY DEF Of, AllOf
<1>2. Cardinality({}) = 0 /\ Nm - 0 = Nm
  BY FS_EmptySet, Constants, SMT
<1> QED
  BY <1>1, <1>2 DEF Counts
-----------------------------------------------------------------------------
\* Blocks with a header of their own: those passed on and those of the window.
HasHeader(b) ==
    \/ IsFilled(sem, b)
    \/ pc \in {"bench", "recv", "batch", "status"} /\ b \in {CurBlock, Ahead}
    \/ pc = "acquire" /\ b = CurBlock

GapsCounted == \A b \in InBlocks : HasHeader(b) => Counts(hdr[b].missed_pkts, stored[b])

LEMMA InitCounts == Init => GapsCounted
  BY DEF Init, GapsCounted, HasHeader, IsFilled, DatabufCreate, InBlocks

\* Counts stay right where header and data stay.
LEMMA CountsKept ==
    ASSUME NetInv, GapsCounted, UNCHANGED <<hdr, stored>>,
           \A b \in InBlocks : HasHeader(b)' => HasHeader(b)
    PROVE  GapsCounted'
  BY DEF GapsCounted

LEMMA BenchmarkCounts == ASSUME NetInv, GapsCounted, Benchmark PROVE GapsCounted'
<1>1. /\ pc = "bench" /\ stored' = [b \in InBlocks |-> {}]
      /\ UNCHANGED <<sem, hdr, binfo>> /\ pc' \in {"recv", "exited"}
  BY DEF Benchmark
<1>2. \A b \in InBlocks : stored'[b] = stored[b] /\ ~IsFilled(sem, b)
  BY <1>1 DEF NetInv, NothingMovedYet, Before, IsFree, IsFilled
<1>3. \A b \in InBlocks : HasHeader(b)' => HasHeader(b)
  BY <1>1 DEF HasHeader, CurBlock, Ahead, IsFilled
<1> QED
  BY <1>1, <1>2, <1>3 DEF GapsCounted

LEMMA StartCounts == ASSUME NetInv, Start PROVE GapsCounted'
<1>1. /\ pc = "start" /\ pc' = "bench" /\ UNCHANGED <<sem, stored, binfo>>
      /\ hdr' = InitializeBlock(InitializeBlock(hdr, 0), Nm)
  BY DEF Start
<1>2. /\ \A b \in InBlocks : IsFree(sem, b) /\ stored[b] = {}
      /\ binfo.block_i = 0
      /\ hdr \in [InBlocks -> Header] /\ stored \in [InBlocks -> SUBSET Pairs]
  BY <1>1, StartSlots DEF NetInv, NothingMovedYet, FillOrder, Before, NetTypeOK, Header, Missed, Pairs
<1>3. 0 + Nm = Nm
  BY Constants, SMT
<1>4. hdr'[0].missed_pkts = AllOf(Nm) /\ hdr'[1].missed_pkts = AllOf(Nm)
  <2> DEFINE s2 == NoneStored(NoneStored(stored, 0), 0 + Nm)
  <2>1. s2 = NoneStored(NoneStored(stored, 0), 0 + Nm)
    OBVIOUS
  <2> HIDE DEF s2
  <2> QED
    BY <1>1, <1>2, <1>3, <2>1, StartSlots, InitializeTwoBlocks
<1>5. CurBlock' = 0 /\ Ahead' = 1
  BY <1>1, <1>2, StartSlots DEF CurBlock, Ahead
<1>6. \A b \in InBlocks : HasHeader(b)' => b \in {0, 1} /\ stored'[b] = {}
  BY <1>1, <1>2, <1>5 DEF HasHeader, IsFilled, IsFree
<1> QED
  BY <1>4, <1>6, NothingCounts DEF GapsCounted

LEMMA StorePacketCounts ==
    ASSUME NetInv, GapsCounted, NEW beam \in Beams, NEW p \in Packet, Sent(beam, p), StorePacket(p)
    PROVE  GapsCounted'
<1> DEFINE b == block_for_mcnt(p.mcnt)
<1>1. /\ p.mcnt \in Nat /\ p.sid \in 0 .. N_BEAMS /\ pc = "batch" /\ b \in InBlocks
      /\ ~BadSid(p) => <<p.sid, p.mcnt>> \in Pairs /\ <<p.sid, p.mcnt>> \notin stored[b]
  BY SentIs, SlotIsBlock DEF Sent
<1>2. /\ hdr \in [InBlocks -> Header] /\ stored \in [InBlocks -> SUBSET Pairs]
      /\ binfo \in BlockInfo
  BY DEF NetInv, NetTypeOK, BlockInfo, Header, Missed, Pairs
<1>3. binfo'.block_i = binfo.block_i
  BY <1>2, CountPacketIs DEF StorePacket
<1>4. b \in {CurBlock, Ahead} /\ p.mcnt \in BlockMcnts(hdr[b].mcnt)
  <2>1. Holds(CurBlock, binfo.mcnt_start) /\ Holds(Ahead, binfo.mcnt_start + Nm)
    BY <1>1 DEF NetInv, OwnsWindow
  <2>2. InWindow(Dist(p))
    BY DEF StorePacket
  <2> QED
    BY <2>1, <2>2, PacketSlot DEF NetInv, Holds
<1>5. Counts(hdr[b].missed_pkts, stored[b])
  BY <1>1, <1>4 DEF GapsCounted, HasHeader
<1>6. /\ \A s \in stored[b] : s[2] \in BlockMcnts(hdr[b].mcnt)
      /\ hdr[b].mcnt \in Nat /\ stored[b] \in SUBSET Pairs
  BY <1>1, <1>2 DEF NetInv, StoredUnderHeader, Belongs, Header
<1>7. /\ \A c \in InBlocks : c # b => hdr'[c] = hdr[c]
      /\ \A beam2 \in Beams : hdr'[b].missed_pkts[beam2] =
             IF beam2 = p.sid THEN (hdr[b].missed_pkts[beam2] + (U64 - 1)) % U64
             ELSE hdr[b].missed_pkts[beam2]
  BY <1>1, <1>2, DecrementMissedIs DEF StorePacket
<1>8. /\ stored'[b] = IF BadSid(p) THEN stored[b] ELSE stored[b] \cup {<<p.sid, p.mcnt>>}
      /\ \A c \in InBlocks : c # b => stored'[c] = stored[c]
  BY <1>1, <1>2, CopyPayloadIs DEF StorePacket
<1> HIDE DEF b
<1>9. Counts(hdr'[b].missed_pkts, stored'[b])
  <2> DEFINE m == hdr[b].mcnt
             set == stored[b]
             set2 == stored'[b]
             missed == hdr[b].missed_pkts
             missed2 == hdr'[b].missed_pkts
  <2>1. \A beam2 \in Beams : missed2[beam2] =
             IF beam2 = p.sid THEN (missed[beam2] + (U64 - 1)) % U64 ELSE missed[beam2]
    BY <1>7
  <2>2. set2 = IF BadSid(p) THEN set ELSE set \cup {<<p.sid, p.mcnt>>}
    BY <1>8
  <2>3. ~BadSid(p) => <<p.sid, p.mcnt>> \in Pairs /\ <<p.sid, p.mcnt>> \notin set
    BY <1>1
  <2>4. /\ m \in Nat /\ set \in SUBSET Pairs /\ \A s \in set : s[2] \in BlockMcnts(m)
        /\ p.sid \in 0 .. N_BEAMS /\ p.mcnt \in BlockMcnts(m) /\ Counts(missed, set)
    BY <1>1, <1>4, <1>5, <1>6
  <2> HIDE DEF m, set, set2, missed, missed2
  <2>5. Counts(missed2, set2)
    BY <2>1, <2>2, <2>3, <2>4, CountsOneMore
  <2> QED
    BY <2>5 DEF set2, missed2
<1>10. \A c \in InBlocks : HasHeader(c)' => HasHeader(c)
  BY <1>1, <1>3 DEF HasHeader, CurBlock, Ahead, StorePacket, PacketDone
<1> QED
  BY <1>7, <1>8, <1>9, <1>10 DEF GapsCounted

LEMMA ResyncCounts ==
    ASSUME NetInv, GapsCounted, NEW p \in Packet, pc = "batch", Resync(p) PROVE GapsCounted'
<1>1. /\ binfo'.block_i = CurBlock
      /\ hdr'[CurBlock].missed_pkts = AllOf(Nm) /\ hdr'[Ahead].missed_pkts = AllOf(Nm)
      /\ stored'[CurBlock] = {} /\ stored'[Ahead] = {}
      /\ \A c \in InBlocks \ {CurBlock, Ahead} : hdr'[c] = hdr[c] /\ stored'[c] = stored[c]
  BY ResyncIs
<1>2. pc' = "batch" /\ sem' = sem
  BY DEF Resync, PacketDone
<1>3. \A c \in InBlocks : HasHeader(c)' => HasHeader(c)
  BY <1>1, <1>2 DEF HasHeader, CurBlock, Ahead
<1> QED
  BY <1>1, <1>3, NothingCounts DEF GapsCounted

LEMMA AcquireNextCounts ==
    ASSUME NetInv, GapsCounted, AcquireNext PROVE GapsCounted'
<1>1. /\ CurBlock \in InBlocks /\ pkt \in Packet /\ pkt.sid \in 0 .. N_BEAMS
      /\ block_for_mcnt(pkt.mcnt) = CurBlock
      /\ ~BadSid(pkt) => <<pkt.sid, pkt.mcnt>> \in Pairs
      /\ binfo'.block_i = binfo.block_i
      /\ hdr'[Ahead].missed_pkts = AllOf(Nm) /\ stored'[Ahead] = {}
      /\ \A beam \in Beams :
             hdr'[CurBlock].missed_pkts[beam] =
                 IF beam = pkt.sid THEN (hdr[CurBlock].missed_pkts[beam] + (U64 - 1)) % U64
                 ELSE hdr[CurBlock].missed_pkts[beam]
      /\ stored'[CurBlock] = IF BadSid(pkt) THEN stored[CurBlock]
                             ELSE stored[CurBlock] \cup {<<pkt.sid, pkt.mcnt>>}
      /\ \A c \in InBlocks \ {CurBlock, Ahead} : hdr'[c] = hdr[c] /\ stored'[c] = stored[c]
  BY AcquireNextIs
<1>2. pc = "acquire" /\ pc' = "batch" /\ sem' = sem
  BY DEF AcquireNext, PacketDone
<1>3. /\ pkt.mcnt \in BlockMcnts(hdr[CurBlock].mcnt)
      /\ ~BadSid(pkt) => <<pkt.sid, pkt.mcnt>> \notin stored[CurBlock]
  BY <1>1, <1>2 DEF NetInv, PacketInNextBlock, OwnsWindow, Holds, PutAside
<1>4. /\ \A s \in stored[CurBlock] : s[2] \in BlockMcnts(hdr[CurBlock].mcnt)
      /\ hdr[CurBlock].mcnt \in Nat /\ stored[CurBlock] \in SUBSET Pairs
  BY <1>1 DEF NetInv, NetTypeOK, StoredUnderHeader, Belongs, Pairs
<1>5. Counts(hdr[CurBlock].missed_pkts, stored[CurBlock])
  BY <1>1, <1>2 DEF GapsCounted, HasHeader
<1>6. Counts(hdr'[CurBlock].missed_pkts, stored'[CurBlock])
  BY <1>1, <1>3, <1>4, <1>5, CountsOneMore
<1>7. Counts(hdr'[Ahead].missed_pkts, stored'[Ahead])
  BY <1>1, NothingCounts
<1>8. \A c \in InBlocks \ {CurBlock, Ahead} : HasHeader(c)' => HasHeader(c)
  BY <1>1, <1>2 DEF HasHeader, CurBlock, Ahead
<1> QED
  BY <1>1, <1>6, <1>7, <1>8 DEF GapsCounted

LEMMA StepCounts == NetInv /\ GapsCounted /\ [Next]_netVars => GapsCounted'
<1> SUFFICES ASSUME NetInv, GapsCounted, [Next]_netVars PROVE GapsCounted'
  OBVIOUS
<1> USE DEF HasHeader, CurBlock, Ahead
<1>1. CASE ForceHold \/ LookHold \/ Operator \/ Params \/ ReceiveBatch \/ Stop
           \/ WaitFails \/ ReportBatch
  BY <1>1, CountsKept DEF ForceHold, LookHold, Operator, Params, ReceiveBatch, Stop, WaitFails,
                          ReportBatch, ring
<1>2. CASE ReceiveNothing \/ Exited \/ UNCHANGED netVars
  BY <1>2, CountsKept DEF ReceiveNothing, Exited, netVars, ring
<1>3. CASE UpdateStatus
  <2>1. /\ pc = "status" /\ pc' = "acquire" /\ UNCHANGED <<sem, hdr, stored>>
        /\ binfo' = [binfo EXCEPT !.mcnt_start = @ + Nm, !.block_i = Ahead]
    BY <1>3 DEF UpdateStatus, Advance, ring
  <2>2. binfo'.block_i = Ahead
    BY <2>1 DEF NetInv, NetTypeOK
  <2>3. \A b \in InBlocks : HasHeader(b)' => HasHeader(b)
    BY <2>1, <2>2
  <2> QED
    BY <2>1, <2>3, CountsKept
<1>4. ASSUME NEW beam \in Beams, Process(beam) PROVE GapsCounted'
  <2>1. PICK p \in Packet : Sent(beam, p) /\ ProcessPacket(p)
    BY <1>4, ProcessSends
  <2>2. CASE StorePacket(p)
    BY <2>1, <2>2, StorePacketCounts
  <2>3. CASE MarkFilled(p)
    <3>1. /\ UNCHANGED <<hdr, stored, binfo>> /\ pc' \in {"status", "exited"} /\ pc = "batch"
          /\ sem' \in {sem, [sem EXCEPT ![CurBlock] = "filled"]}
      BY <2>1, <2>3, WindowSlots DEF MarkFilled, SetFilled, Sent, NetInv
    <3>2. sem \in [InBlocks -> BlockState]
      BY DEF NetInv, NetTypeOK
    <3>3. \A b \in InBlocks : HasHeader(b)' => HasHeader(b)
      BY <3>1, <3>2 DEF IsFilled
    <3> QED
      BY <3>1, <3>3, CountsKept
  <2>4. CASE IgnoreLate(p) \/ CountOutOfSeq(p)
    <3>1. /\ UNCHANGED <<sem, hdr, stored>> /\ pc = "batch" /\ pc' = "batch"
          /\ binfo' \in {binfo, [binfo EXCEPT !.out_of_seq_cnt = @ + 1]}
      BY <2>1, <2>4 DEF IgnoreLate, CountOutOfSeq, PacketDone, Sent, ring
    <3>2. binfo'.block_i = binfo.block_i
      BY <3>1 DEF NetInv, NetTypeOK
    <3> QED
      BY <3>1, <3>2, CountsKept
  <2>5. CASE Resync(p)
    BY <2>1, <2>5, ResyncCounts DEF Sent
  <2> QED
    BY <2>1, <2>2, <2>3, <2>4, <2>5 DEF ProcessPacket
<1>5. ASSUME NEW beam \in Beams, Lose(beam) PROVE GapsCounted'
  BY <1>5, CountsKept DEF Lose, ring
<1>6. ASSUME NEW b \in InBlocks, Drain(b) PROVE GapsCounted'
  <2>1. /\ sem' = [sem EXCEPT ![b] = "free"] /\ UNCHANGED <<hdr, stored, binfo, pc>>
    BY <1>6 DEF Drain, SetFree
  <2>2. sem \in [InBlocks -> BlockState]
    BY DEF NetInv, NetTypeOK
  <2>3. \A c \in InBlocks : IsFilled(sem, c)' => IsFilled(sem, c)
    BY <2>1, <2>2 DEF IsFilled
  <2> QED
    BY <2>1, <2>3, CountsKept
<1> QED
  BY <1>1, <1>2, <1>3, <1>4, <1>5, <1>6, BenchmarkCounts, StartCounts, AcquireNextCounts
     DEF Next, ThreadStep, Processing

\* missed_pkts counts, for each beam, the packets that the block lacks, in the
\* blocks of the window and in those passed on, see BeamGapsCounted: whatever
\* is lost or damaged, and whatever an earlier use left in the slot.
THEOREM BeamGapsAreCounted == Spec => []BeamGapsCounted
<1>1. GapsCounted => BeamGapsCounted
  BY DEF GapsCounted, HasHeader, Counts, Of, BeamGapsCounted
<1>2. Spec => []GapsCounted
  BY NetInvariance, InitCounts, StepCounts, PTL DEF Spec
<1> QED
  BY <1>1, <1>2, PTL
-----------------------------------------------------------------------------
(***************************************************************************)
(* The last two invariants are about a stream of which nothing is lost or  *)
(* damaged, and in which no beam leads another by more than half a block,  *)
(* that is, by more than a completing packet is ahead of the block that it *)
(* completes.                                                              *)
(***************************************************************************)
Half == 3 * (Nm \div 2)

WithinHalfABlock == Skew <= Half - Nm

LEMMA HalfIs ==
    /\ Half \in Nat /\ Nm <= Half /\ Half + 1 <= 2 * Nm
    /\ LATE_PKT_MCNT_THRESHOLD \in Nat
    /\ Nm * (N_INPUT_BLOCKS - 1) \in Nat
    /\ LATE_PKT_MCNT_THRESHOLD = 2 * (Nm * (N_INPUT_BLOCKS - 1)) + 2 * Nm
<1>1. Half \in Nat /\ Nm <= Half /\ Half + 1 <= 2 * Nm
  BY Constants, SMT DEF Half
<1> DEFINE k == Nm * (N_INPUT_BLOCKS - 1)
<1>2. N_INPUT_BLOCKS - 1 \in Nat
  BY Constants, SMT
<1>3. k \in Nat
  BY <1>2, Constants, ProductIsNat
<1>4. Nm * N_INPUT_BLOCKS = k + Nm
  BY <1>2, Constants, SMT
<1>5. (2 * Nm) * N_INPUT_BLOCKS = 2 * (Nm * N_INPUT_BLOCKS)
  BY Constants, SMT
<1> HIDE DEF k
<1>6. 2 * (k + Nm) = 2 * k + 2 * Nm /\ 2 * k + 2 * Nm \in Nat
  BY <1>3, Constants, SMT
<1> QED
  BY <1>1, <1>3, <1>4, <1>5, <1>6 DEF LATE_PKT_MCNT_THRESHOLD, k

LEMMA LeastNatural ==
    ASSUME NEW set \in SUBSET Nat, set # {}
    PROVE  \E x \in set : \A y \in set : x <= y
<1> DEFINE less == OpToRel(<, Nat)
<1>1. IsWellFoundedOn(less, Nat)
  BY NatLessThanWellFounded
<1>2. \A x, y \in Nat : <<x, y>> \in less <=> x < y
  BY DEF OpToRel
<1> HIDE DEF less
<1>3. PICK x \in set : \A y \in set : <<y, x>> \notin less
  BY <1>1, WFMin
<1>4. \A y \in set : ~(y < x)
  BY <1>2, <1>3
<1> QED
  BY <1>3, <1>4, SMT

LEMMA MinIsLeast ==
    ASSUME NEW set \in SUBSET Nat, set # {}
    PROVE  Min(set) \in set /\ \A y \in set : Min(set) <= y
  BY LeastNatural DEF Min

\* The beam has at most the lead that is allowed before it goes on.
Leads(beam) == \A c \in Beams : next[beam] - next[c] <= Skew

LEMMA LeadIsBounded == ASSUME NetInv, NEW beam \in Beams, MayAdvance(beam) PROVE Leads(beam)
<1> DEFINE set == {next[other] : other \in Beams}
<1>1. \A c \in Beams : next[c] \in Nat
  BY DEF NetInv, StreamOK
<1>2. set \in SUBSET Nat /\ set # {}
  BY <1>1
<1>3. Min(set) \in Nat /\ \A y \in set : Min(set) <= y
  BY <1>2, MinIsLeast
<1>4. next[beam] - Min(set) <= Skew
  BY DEF MayAdvance
<1> SUFFICES ASSUME NEW c \in Beams PROVE next[beam] - next[c] <= Skew
  BY DEF Leads
<1>5. Min(set) <= next[c]
  BY <1>3
<1> HIDE DEF set
<1> QED
  BY <1>1, <1>3, <1>4, <1>5, NetConstants, SMT
-----------------------------------------------------------------------------
\* No beam gets away from another.
Spread == \A a, c \in Beams : next[a] - next[c] <= Skew + 1

\* The start of the block to which the packet in hand belongs, once it has
\* completed the one before.
Base == IF pc = "status" THEN binfo.mcnt_start + Nm ELSE binfo.mcnt_start

NothingFilled ==
    /\ fill.last_filled = -1 /\ binfo.mcnt_start = 0
    /\ pc \notin {"status", "acquire"}

\* The stream began beyond the window, and is counted out of sequence.
Waiting ==
    /\ NothingFilled
    /\ from >= 2 * Nm /\ binfo.out_of_seq_cnt <= MAX_OUT_OF_SEQ
    /\ \A c \in Beams : next[c] <= from + binfo.out_of_seq_cnt

\* The stream begins in the window.
Fresh ==
    /\ NothingFilled
    /\ from < 2 * Nm
    /\ \A c \in Beams : next[c] = from

\* The next packet of each beam is in the window, or late.  It completes a
\* block at the earliest packet that can, and after the first block completed
\* no packet is late.
InSync(c) ==
    /\ Base - LATE_PKT_MCNT_THRESHOLD < next[c] /\ next[c] <= Base + Half
    /\ fill.last_filled # -1 => Base <= next[c]
    /\ pc \in {"status", "acquire"} => next[c] <= Base + Nm

Synced ==
    /\ pc \notin Before
    /\ pc \in {"status", "acquire"} => fill.last_filled # -1
    /\ \A c \in Beams : InSync(c)

Tracks == NoFaults => pc = "exited" \/ Waiting \/ Fresh \/ Synced

LEMMA InitTracks == Init => Spread /\ Tracks
<1> SUFFICES ASSUME Init PROVE Spread /\ Tracks
  OBVIOUS
<1>1. /\ from \in Nat /\ \A c \in Beams : next[c] = from
      /\ NothingFilled /\ binfo.out_of_seq_cnt = 0
  BY NetConstants DEF Init, AllOf, NothingFilled
<1>2. Spread
  <2> SUFFICES ASSUME NEW a \in Beams, NEW c \in Beams PROVE next[a] - next[c] <= Skew + 1
    BY DEF Spread
  <2> QED
    BY <1>1, NetConstants, SMT
<1>3. CASE from < 2 * Nm
  BY <1>1, <1>2, <1>3 DEF Tracks, Fresh
<1>4. CASE ~(from < 2 * Nm)
  <2>1. /\ from >= 2 * Nm /\ from = from + 0
        /\ 0 <= MAX_OUT_OF_SEQ /\ from <= from + 0
    BY <1>1, <1>4, Constants, NetConstants, SMT DEF MAX_OUT_OF_SEQ
  <2> QED
    BY <1>1, <1>2, <2>1 DEF Tracks, Waiting
<1> QED
  BY <1>3, <1>4

LEMMA SpreadKept ==
    ASSUME NetInv, Spread, NEW beam \in Beams, Leads(beam),
           next' = [next EXCEPT ![beam] = next[beam] + 1]
    PROVE  Spread'
<1>1. next \in [Beams -> Nat]
  BY DEF NetInv, StreamOK
<1> SUFFICES ASSUME NEW a \in Beams, NEW c \in Beams PROVE next'[a] - next'[c] <= Skew + 1
  BY DEF Spread
<1>2. /\ next[a] \in Nat /\ next[c] \in Nat /\ next[beam] \in Nat
      /\ next'[a] = IF a = beam THEN next[a] + 1 ELSE next[a]
      /\ next'[c] = IF c = beam THEN next[c] + 1 ELSE next[c]
      /\ next[a] - next[c] <= Skew + 1 /\ next[beam] - next[c] <= Skew
  BY <1>1 DEF Spread, Leads
<1> QED
  BY <1>2, NetConstants, SMT

LEMMA TracksQuiet ==
    ASSUME Tracks, UNCHANGED <<binfo, fill, beams>>, pc' \notin {"status", "acquire"},
           \/ pc' = pc
           \/ pc' = "exited"
           \/ pc \in Before
           \/ pc \in {"recv", "batch"} /\ pc' \in {"recv", "batch"}
    PROVE  Tracks'
<1> SUFFICES ASSUME NoFaults' PROVE (pc = "exited" \/ Waiting \/ Fresh \/ Synced)'
  BY DEF Tracks
<1>1. UNCHANGED <<binfo, fill, from, next, faults>>
  BY DEF beams
<1>2. pc = "exited" \/ Waiting \/ Fresh \/ Synced
  BY <1>1 DEF Tracks, NoFaults
<1>3. CASE pc = "exited" \/ pc' = "exited"
  BY <1>3 DEF Before
<1>4. CASE Waiting
  BY <1>1, <1>4 DEF Waiting, NothingFilled, MAX_OUT_OF_SEQ
<1>5. CASE Fresh
  BY <1>1, <1>5 DEF Fresh, NothingFilled
<1>6. CASE Synced /\ pc' # "exited"
  <2>1. pc \notin Before
    BY <1>6 DEF Synced
  <2>2. \/ pc' = pc
        \/ pc \in {"recv", "batch"} /\ pc' \in {"recv", "batch"}
    BY <1>6, <2>1
  <2> QED
    BY <1>1, <1>6, <2>1, <2>2 DEF Synced, InSync, Base, Before, LATE_PKT_MCNT_THRESHOLD, Half
<1> QED
  BY <1>2, <1>3, <1>4, <1>5, <1>6

\* A stream that begins beyond the window waits for the resynchronisation.
LEMMA WaitingGoesOn ==
    ASSUME NetInv, WithinHalfABlock, Spread, Waiting,
           NEW beam \in Beams, NEW p \in Packet, Sent(beam, p), Leads(beam), ProcessPacket(p)
    PROVE  /\ CountOutOfSeq(p) \/ Resync(p)
           /\ Waiting' \/ Synced'
           /\ \A c \in Beams : next'[c] <= from + MAX_OUT_OF_SEQ + 1
           /\ CountOutOfSeq(p) => \A c \in Beams : next'[c] <= from + MAX_OUT_OF_SEQ
<1> DEFINE cnt == binfo.out_of_seq_cnt
<1>1. /\ next \in [Beams -> Nat] /\ from \in Nat /\ next[beam] \in Nat /\ p.mcnt = next[beam]
      /\ next' = [next EXCEPT ![beam] = next[beam] + 1] /\ from' = from
      /\ next[beam] >= from /\ pc = "batch" /\ binfo \in BlockInfo
  BY DEF NetInv, StreamOK, Sent, NetTypeOK, BlockInfo
<1>2. /\ binfo.mcnt_start = 0 /\ from >= 2 * Nm /\ fill.last_filled = -1
      /\ cnt \in Nat /\ cnt <= MAX_OUT_OF_SEQ
      /\ \A c \in Beams : next[c] \in Nat /\ next[c] <= from + cnt
  BY <1>1 DEF Waiting, NothingFilled, BlockInfo
<1>3. MAX_OUT_OF_SEQ \in Nat
  BY NetConstants, SMT DEF MAX_OUT_OF_SEQ
<1>4. ~InWindow(Dist(p)) /\ ~IsLate(Dist(p))
  BY <1>1, <1>2, Constants, SMT DEF Dist, InWindow, IsLate
<1>5. CountOutOfSeq(p) \/ Resync(p)
  BY <1>4 DEF ProcessPacket, StorePacket, MarkFilled, Completes, IgnoreLate
<1>6. \A c \in Beams : next'[c] \in Nat /\ next'[c] <= from + cnt + 1
  <2> SUFFICES ASSUME NEW c \in Beams PROVE next'[c] \in Nat /\ next'[c] <= from + cnt + 1
    OBVIOUS
  <2>1. /\ next'[c] = IF c = beam THEN next[c] + 1 ELSE next[c]
        /\ next[c] \in Nat /\ next[c] <= from + cnt
    BY <1>1, <1>2
  <2> HIDE DEF cnt
  <2> QED
    BY <1>1, <1>2, <2>1, SMT
<1>7. \A c \in Beams : next'[c] <= from + MAX_OUT_OF_SEQ + 1
  BY <1>1, <1>2, <1>3, <1>6, SMT
<1>8. CASE CountOutOfSeq(p)
  <2>1. /\ binfo' = [binfo EXCEPT !.out_of_seq_cnt = cnt + 1] /\ cnt + 1 <= MAX_OUT_OF_SEQ
        /\ fill' = fill /\ pc' = "batch"
    BY <1>8 DEF CountOutOfSeq, PacketDone
  <2>2. binfo'.mcnt_start = 0 /\ binfo'.out_of_seq_cnt = cnt + 1
    BY <1>1, <1>2, <2>1 DEF BlockInfo
  <2>3. \A c \in Beams : next'[c] <= from + (cnt + 1) /\ next'[c] <= from + MAX_OUT_OF_SEQ
    <3> HIDE DEF cnt
    <3> QED
      BY <1>1, <1>2, <1>3, <1>6, <2>1, SMT
  <2>4. Waiting'
    BY <1>1, <1>2, <2>1, <2>2, <2>3 DEF Waiting, NothingFilled, MAX_OUT_OF_SEQ
  <2> QED
    BY <1>5, <1>7, <2>3, <2>4
<1>9. CASE Resync(p)
  <2> DEFINE start == ResetMcnt(p.mcnt, binfo.block_i)
  <2>1. start \in Nat /\ start - p.mcnt \in 1 - Nm .. Nm * (N_INPUT_BLOCKS - 1)
    BY ResyncSlots
  <2>2. /\ binfo'.mcnt_start = start /\ fill' = fill /\ pc' = "batch"
    BY <1>9, ResyncIs DEF Resync, PacketDone
  <2> HIDE DEF start
  <2>3. \A c \in Beams : /\ start - LATE_PKT_MCNT_THRESHOLD < next'[c]
                         /\ next'[c] <= start + Half
    <3> SUFFICES ASSUME NEW c \in Beams
                 PROVE  /\ start - LATE_PKT_MCNT_THRESHOLD < next'[c]
                        /\ next'[c] <= start + Half
      OBVIOUS
    <3> DEFINE far == Nm * (N_INPUT_BLOCKS - 1)
    <3>1. /\ far \in Nat /\ LATE_PKT_MCNT_THRESHOLD = 2 * far + 2 * Nm
          /\ Half \in Nat /\ Half + 1 <= 2 * Nm /\ Nm <= Half
      BY HalfIs
    <3>2. /\ next'[c] = IF c = beam THEN next[c] + 1 ELSE next[c]
          /\ next[c] \in Nat
      BY <1>1, <1>2
    <3>3. next[beam] - next[c] <= Skew /\ next[c] - next[beam] <= Skew + 1
      BY DEF Leads, Spread
    <3>4. start - next[beam] >= 1 - Nm /\ start - next[beam] <= far
      BY <1>1, <2>1, <3>1, Constants, SMT
    <3> HIDE DEF far
    <3>5. Skew <= Half - Nm /\ Skew \in Nat /\ Nm \in Nat /\ Nm > 1
      BY NetConstants, Constants DEF WithinHalfABlock
    <3>6. next'[c] >= next[c] /\ next[c] >= next[beam] - Skew /\ next[beam] >= start - far
      BY <1>1, <2>1, <3>1, <3>2, <3>3, <3>4, <3>5, SMT
    <3>7. start - LATE_PKT_MCNT_THRESHOLD < next'[c]
      BY <1>1, <2>1, <3>1, <3>2, <3>5, <3>6, SMT
    <3>8. next'[c] <= next[beam] + Skew + 1 /\ next[beam] <= start + Nm - 1
      BY <1>1, <2>1, <3>1, <3>2, <3>3, <3>4, <3>5, SMT
    <3>9. next'[c] <= start + Half
      BY <1>1, <2>1, <3>1, <3>2, <3>5, <3>8, SMT
    <3> QED
      BY <3>7, <3>9
  <2>4. Synced'
    BY <1>2, <2>2, <2>3 DEF Synced, InSync, Base, Before, LATE_PKT_MCNT_THRESHOLD, Half
  <2>5. ~CountOutOfSeq(p)
    BY <1>2, <1>3, <1>9, SMT DEF CountOutOfSeq, Resync
  <2> QED
    BY <1>5, <1>7, <2>4, <2>5
<1> QED
  BY <1>5, <1>8, <1>9

\* The first packet of a stream that begins in the window.
LEMMA FreshGoesOn ==
    ASSUME NetInv, Fresh,
           NEW beam \in Beams, NEW p \in Packet, Sent(beam, p), ProcessPacket(p)
    PROVE  /\ StorePacket(p) \/ MarkFilled(p)
           /\ pc' = "exited" \/ Synced'
<1>1. /\ next \in [Beams -> Nat] /\ from \in Nat /\ p.mcnt = from /\ next[beam] = from
      /\ next' = [next EXCEPT ![beam] = next[beam] + 1] /\ from' = from
      /\ binfo \in BlockInfo /\ binfo.mcnt_start = 0 /\ fill.last_filled = -1
      /\ from < 2 * Nm /\ \A c \in Beams : next[c] = from
  BY DEF NetInv, StreamOK, Sent, NetTypeOK, BlockInfo, Fresh, NothingFilled
<1>2. Dist(p) = from /\ InWindow(Dist(p))
  BY <1>1, Constants, SMT DEF Dist, InWindow
<1>3. StorePacket(p) \/ MarkFilled(p)
  <2>1. ~IsLate(Dist(p)) /\ ~IsOutOfSeq(Dist(p))
    BY <1>1, <1>2, SMT DEF IsLate, IsOutOfSeq
  <2> QED
    BY <2>1 DEF ProcessPacket, IgnoreLate, CountOutOfSeq, Resync
<1>4. \A c \in Beams : next'[c] \in {from, from + 1}
  BY <1>1
<1>5. /\ Half \in Nat /\ Nm <= Half /\ Half + 1 <= 2 * Nm /\ Nm \in Nat
      /\ LATE_PKT_MCNT_THRESHOLD \in Nat /\ LATE_PKT_MCNT_THRESHOLD > 0
  BY HalfIs, Constants, SMT
<1>6. CASE StorePacket(p)
  <2>1. /\ binfo'.mcnt_start = 0 /\ fill' = fill /\ pc' = "batch"
    BY <1>1, <1>6, CountPacketIs DEF StorePacket, PacketDone
  <2>2. from < Half
    BY <1>1, <1>2, <1>5, <1>6, SMT DEF StorePacket, Completes, Half
  <2>3. \A c \in Beams : /\ 0 - LATE_PKT_MCNT_THRESHOLD < next'[c]
                         /\ next'[c] <= 0 + Half
    BY <1>1, <1>4, <1>5, <2>2, SMT
  <2>4. Synced'
    BY <1>1, <2>1, <2>3 DEF Synced, InSync, Base, Before, LATE_PKT_MCNT_THRESHOLD, Half
  <2> QED
    BY <1>3, <2>4
<1>7. CASE MarkFilled(p)
  <2>1. from >= Half
    BY <1>1, <1>2, <1>5, <1>7, SMT DEF MarkFilled, Completes, Half
  <2>2. /\ binfo' = binfo /\ pc' \in {"status", "exited"}
    BY <1>7 DEF MarkFilled
  <2>3. fill'.last_filled \in InBlocks
    <3>1. fill' = [fill EXCEPT !.last_filled = NextBlock(fill.last_filled, N_INPUT_BLOCKS),
                               !.total_missed = hdr[CurBlock].missed_pkts]
      BY <1>7 DEF MarkFilled
    <3>2. fill'.last_filled = NextBlock(fill.last_filled, N_INPUT_BLOCKS)
      BY <3>1 DEF NetInv, NetTypeOK
    <3> QED
      BY <1>1, <3>2, StartSlots
  <2>4. \A c \in Beams : /\ (0 + Nm) - LATE_PKT_MCNT_THRESHOLD < next'[c]
                         /\ next'[c] <= (0 + Nm) + Half
                         /\ 0 + Nm <= next'[c]
                         /\ next'[c] <= (0 + Nm) + Nm
    BY <1>1, <1>4, <1>5, <2>1, SMT
  <2>5. fill'.last_filled # -1
    BY <2>3, Constants, SMT DEF InBlocks, BlockIds
  <2>6. CASE pc' = "status"
    <3>1. Base' = 0 + Nm
      BY <1>1, <2>2, <2>6 DEF Base
    <3> QED
      BY <1>3, <2>4, <2>5, <2>6, <3>1 DEF Synced, InSync, Before, LATE_PKT_MCNT_THRESHOLD, Half
  <2> QED
    BY <1>3, <2>2, <2>6
<1> QED
  BY <1>3, <1>6, <1>7

LEMMA FillsCurrent ==
    ASSUME NetInv, pc = "batch", NEW p \in Packet, MarkFilled(p)
    PROVE  fill'.last_filled = CurBlock /\ fill'.last_filled # -1
<1>1. fill' = [fill EXCEPT !.last_filled = NextBlock(fill.last_filled, N_INPUT_BLOCKS),
                           !.total_missed = hdr[CurBlock].missed_pkts]
  BY DEF MarkFilled
<1>2. fill'.last_filled = NextBlock(fill.last_filled, N_INPUT_BLOCKS)
  BY <1>1 DEF NetInv, NetTypeOK
<1>3. fill'.last_filled = CurBlock
  BY <1>2 DEF NetInv, FillOrder, CurBlock
<1>4. CurBlock \in InBlocks
  BY WindowSlots DEF NetInv
<1> QED
  BY <1>3, <1>4, Constants, SMT DEF InBlocks, BlockIds

\* When a packet completes a block, every beam is past that block.
LEMMA AllArePast ==
    ASSUME NetInv, WithinHalfABlock,
           NEW beam \in Beams, NEW p \in Packet, Sent(beam, p), Leads(beam), MarkFilled(p),
           NEW c \in Beams
    PROVE  binfo.mcnt_start + Nm <= next[c]
<1>1. /\ next[beam] \in Nat /\ next[c] \in Nat /\ p.mcnt = next[beam]
      /\ binfo.mcnt_start \in Nat /\ next[beam] - next[c] <= Skew
  BY DEF NetInv, StreamOK, NetTypeOK, Sent, Leads
<1>2. p.mcnt - binfo.mcnt_start >= Half
  BY DEF MarkFilled, Completes, Dist, Half
<1>3. Skew <= Half - Nm /\ Half \in Nat
  BY HalfIs DEF WithinHalfABlock
<1> QED
  BY <1>1, <1>2, <1>3, Constants, NetConstants, SMT

LEMMA SyncedGoesOn ==
    ASSUME NetInv, WithinHalfABlock, Synced,
           NEW beam \in Beams, NEW p \in Packet, Sent(beam, p), Leads(beam), ProcessPacket(p)
    PROVE  /\ StorePacket(p) \/ MarkFilled(p) \/ IgnoreLate(p)
           /\ pc' = "exited" \/ Synced'
<1> DEFINE start == binfo.mcnt_start
           late == LATE_PKT_MCNT_THRESHOLD
<1>1. /\ next \in [Beams -> Nat] /\ p.mcnt = next[beam] /\ pc = "batch"
      /\ next' = [next EXCEPT ![beam] = next[beam] + 1]
      /\ binfo \in BlockInfo /\ start \in Nat
  BY DEF NetInv, StreamOK, Sent, NetTypeOK, BlockInfo
<1>2. /\ late \in Nat /\ Half \in Nat /\ Nm \in Nat
      /\ Half + 1 <= 2 * Nm /\ Nm <= Half /\ 2 * Nm <= late
  BY HalfIs, Constants, SMT
<1>3. \A c \in Beams : /\ start - late < next[c] /\ next[c] <= start + Half
                       /\ fill.last_filled # -1 => start <= next[c]
  BY <1>1 DEF Synced, InSync, Base
<1>4. \A c \in Beams : /\ next[c] \in Nat
                       /\ next'[c] = IF c = beam THEN next[c] + 1 ELSE next[c]
  BY <1>1
<1>5. StorePacket(p) \/ MarkFilled(p) \/ IgnoreLate(p)
  <2>1. p.mcnt \in Nat /\ start - late < p.mcnt /\ p.mcnt <= start + Half
    BY <1>1, <1>3
  <2>2. IsLate(Dist(p)) \/ InWindow(Dist(p))
    <3> HIDE DEF late
    <3>1. /\ p.mcnt - start > -late /\ p.mcnt - start < 2 * Nm /\ p.mcnt - start \in Int
      BY <1>1, <1>2, <2>1, SMT
    <3> QED
      BY <3>1, SMT DEF IsLate, InWindow, Dist, late
  <2>3. ~IsOutOfSeq(Dist(p))
    BY <2>2 DEF IsOutOfSeq
  <2> QED
    BY <2>3 DEF ProcessPacket, CountOutOfSeq, Resync
<1> HIDE DEF late, start
<1>6. CASE StorePacket(p) \/ IgnoreLate(p)
  <2>1. binfo'.mcnt_start = start /\ fill' = fill /\ pc' = "batch"
    BY <1>1, <1>6, CountPacketIs DEF StorePacket, IgnoreLate, PacketDone, start
  <2>2. p.mcnt - start < Half
    <3>1. Dist(p) = p.mcnt - start /\ Dist(p) \in Int
      BY <1>1, <1>4, SMT DEF Dist, start
    <3>2. CASE StorePacket(p)
      BY <3>1, <3>2, <1>2, SMT DEF StorePacket, Completes, Half
    <3>3. CASE IgnoreLate(p)
      BY <3>1, <3>3, <1>2, SMT DEF IgnoreLate, IsLate
    <3> QED
      BY <1>6, <3>2, <3>3
  <2>3. \A c \in Beams : /\ start - late < next'[c] /\ next'[c] <= start + Half
                         /\ fill.last_filled # -1 => start <= next'[c]
    <3> SUFFICES ASSUME NEW c \in Beams
                 PROVE  /\ start - late < next'[c] /\ next'[c] <= start + Half
                        /\ fill.last_filled # -1 => start <= next'[c]
      OBVIOUS
    <3>1. /\ next[c] \in Nat /\ next'[c] = IF c = beam THEN next[c] + 1 ELSE next[c]
          /\ start - late < next[c] /\ next[c] <= start + Half
          /\ fill.last_filled # -1 => start <= next[c]
      BY <1>3, <1>4
    <3>2. c = beam => next[c] - start < Half
      BY <1>1, <2>2
    <3> QED
      BY <1>1, <1>2, <3>1, <3>2, SMT
  <2>4. Base' = start /\ fill'.last_filled = fill.last_filled
    BY <2>1 DEF Base
  <2>5. \A c \in Beams : /\ Base' - late < next'[c] /\ next'[c] <= Base' + Half
                         /\ fill'.last_filled # -1 => Base' <= next'[c]
    BY <2>3, <2>4, Zenon
  <2>6. pc' \notin Before /\ pc' \notin {"status", "acquire"}
    BY <2>1 DEF Before
  <2>7. Synced'
    <3>1. ASSUME NEW c \in Beams PROVE InSync(c)'
      BY <2>5, <2>6, Zenon DEF InSync, LATE_PKT_MCNT_THRESHOLD, Half, late
    <3> QED
      BY <2>6, <3>1, Zenon DEF Synced
  <2> QED
    BY <1>5, <2>7
<1>7. CASE MarkFilled(p) /\ pc' = "status"
  <2>1. binfo' = binfo /\ fill'.last_filled # -1
    BY <1>1, <1>7, FillsCurrent DEF MarkFilled
  <2>2. Base' = start + Nm
    BY <1>7, <2>1 DEF Base, start
  <2>3. \A c \in Beams : /\ start + Nm <= next'[c] /\ next'[c] <= start + Nm + Nm
                         /\ (start + Nm) - late < next'[c] /\ next'[c] <= (start + Nm) + Half
    <3> SUFFICES ASSUME NEW c \in Beams
                 PROVE  /\ start + Nm <= next'[c] /\ next'[c] <= start + Nm + Nm
                        /\ (start + Nm) - late < next'[c] /\ next'[c] <= (start + Nm) + Half
      OBVIOUS
    <3>1. /\ next[c] \in Nat /\ next'[c] = IF c = beam THEN next[c] + 1 ELSE next[c]
          /\ next[c] <= start + Half
      BY <1>3, <1>4
    <3>2. start + Nm <= next[c]
      BY <1>7, AllArePast DEF start
    <3>3. start + Nm <= next'[c] /\ next'[c] <= start + Half + 1
      BY <1>1, <1>2, <3>1, <3>2, SMT
    <3>4. next'[c] \in Nat
      BY <3>1, SMT
    <3>5. late > 0
      BY <1>2, Constants, SMT
    <3> QED
      BY <1>1, <1>2, <3>3, <3>4, <3>5, SMT
  <2>4. \A c \in Beams : /\ Base' - late < next'[c] /\ next'[c] <= Base' + Half
                         /\ Base' <= next'[c] /\ next'[c] <= Base' + Nm
    BY <2>2, <2>3, Zenon
  <2>5. \A c \in Beams : InSync(c)'
    BY <2>4, Zenon DEF InSync, LATE_PKT_MCNT_THRESHOLD, Half, late
  <2>6. pc' \notin Before
    BY <1>7 DEF Before
  <2> QED
    BY <1>5, <2>1, <2>5, <2>6, Zenon DEF Synced
<1>8. CASE MarkFilled(p) /\ pc' = "exited"
  BY <1>5, <1>8
<1> QED
  BY <1>5, <1>6, <1>7, <1>8 DEF MarkFilled

\* Nothing is damaged: the packet has the beam's own id.
LEMMA SentAsIs ==
    ASSUME NetInv, NEW beam \in Beams, NEW p \in Packet, Sent(beam, p), NoFaults'
    PROVE  NoFaults /\ p.sid = beam /\ ~BadSid(p)
<1>1. faults \in Nat /\ faults' = 0 /\ (faults' = faults \/ faults' = faults + 1)
  BY DEF NetInv, StreamOK, Sent, NoFaults
<1>2. faults' = faults /\ faults = 0
  BY <1>1, SMT
<1>3. p.sid = beam
  BY <1>1, <1>2, SMT DEF Sent
<1> QED
  BY <1>2, <1>3, NetConstants, SMT DEF NoFaults, BadSid, Beams

LEMMA StepTracks ==
    ASSUME NetInv, WithinHalfABlock, Spread, Tracks, [Next]_netVars
    PROVE  Spread' /\ Tracks'
<1>1. ASSUME NEW beam \in Beams, Process(beam) PROVE Spread' /\ Tracks'
  <2>1. PICK p \in Packet : Sent(beam, p) /\ ProcessPacket(p)
    BY <1>1, ProcessSends
  <2>2. Leads(beam)
    BY <1>1, LeadIsBounded DEF Process
  <2>3. Spread'
    BY <2>1, <2>2, SpreadKept DEF Sent
  <2>4. ASSUME NoFaults' PROVE (pc = "exited" \/ Waiting \/ Fresh \/ Synced)'
    <3>1. Waiting \/ Fresh \/ Synced
      BY <2>1, <2>4, SentAsIs DEF Tracks, Sent
    <3> QED
      BY <2>1, <2>2, <3>1, WaitingGoesOn, FreshGoesOn, SyncedGoesOn
  <2> QED
    BY <2>3, <2>4 DEF Tracks
<1>2. ASSUME NEW beam \in Beams, Lose(beam) PROVE Spread' /\ Tracks'
  <2>1. /\ Leads(beam) /\ next' = [next EXCEPT ![beam] = next[beam] + 1]
        /\ faults' = faults + 1 /\ faults \in Nat
    BY <1>2, LeadIsBounded DEF Lose, NetInv, StreamOK
  <2>2. ~NoFaults'
    BY <2>1, SMT DEF NoFaults
  <2> QED
    BY <2>1, <2>2, SpreadKept DEF Tracks
<1>3. CASE UpdateStatus
  <2>1. /\ pc = "status" /\ pc' = "acquire"
        /\ binfo' = [binfo EXCEPT !.mcnt_start = @ + Nm, !.block_i = Ahead]
        /\ fill' = [fill EXCEPT !.missed_pkt_cnt = (@ + BlockMissed) % U32]
        /\ UNCHANGED <<from, next, faults>>
    BY <1>3 DEF UpdateStatus, Advance, beams
  <2>2. binfo'.mcnt_start = binfo.mcnt_start + Nm /\ fill'.last_filled = fill.last_filled
    BY <2>1 DEF NetInv, NetTypeOK
  <2>3. Base' = Base
    BY <2>1, <2>2 DEF Base
  <2>4. Spread'
    BY <2>1 DEF Spread
  <2>5. ASSUME NoFaults' PROVE Synced'
    <3>1. Synced
      BY <2>1, <2>5 DEF Tracks, Waiting, Fresh, NothingFilled, NoFaults
    <3> QED
      BY <2>1, <2>2, <2>3, <3>1 DEF Synced, InSync, Before, LATE_PKT_MCNT_THRESHOLD, Half
  <2> QED
    BY <2>4, <2>5 DEF Tracks
<1>4. CASE AcquireNext
  <2>1. /\ pc = "acquire" /\ pc' = "batch"
        /\ binfo'.mcnt_start = binfo.mcnt_start
        /\ UNCHANGED <<fill, from, next, faults>>
    BY <1>4, AcquireNextIs DEF AcquireNext, PacketDone, beams
  <2>2. Base' = Base
    BY <2>1 DEF Base
  <2>3. Spread'
    BY <2>1 DEF Spread
  <2>4. ASSUME NoFaults' PROVE Synced'
    <3>1. Synced
      BY <2>1, <2>4 DEF Tracks, Waiting, Fresh, NothingFilled, NoFaults
    <3> QED
      BY <2>1, <2>2, <3>1 DEF Synced, InSync, Before, LATE_PKT_MCNT_THRESHOLD, Half
  <2> QED
    BY <2>3, <2>4 DEF Tracks
<1>5. CASE ForceHold \/ LookHold \/ Operator \/ Params \/ Start \/ Benchmark \/ ReceiveBatch
           \/ Stop \/ WaitFails \/ ReportBatch
  <2>1. /\ UNCHANGED <<binfo, fill, beams>> /\ pc' \notin {"status", "acquire"}
        /\ \/ pc' = pc
           \/ pc' = "exited"
           \/ pc \in Before
           \/ pc \in {"recv", "batch"} /\ pc' \in {"recv", "batch"}
    BY <1>5 DEF ForceHold, LookHold, Operator, Params, Start, Benchmark, ReceiveBatch, Stop,
                WaitFails, ReportBatch, Before
  <2>2. Tracks'
    BY <2>1, TracksQuiet
  <2> QED
    BY <2>1, <2>2 DEF Spread, beams
<1>6. CASE ReceiveNothing \/ Exited \/ UNCHANGED netVars
           \/ \E b \in InBlocks : Drain(b)
  <2>1. UNCHANGED <<binfo, fill, pc, from, next, faults>>
    BY <1>6 DEF ReceiveNothing, Exited, Drain, netVars, beams
  <2> QED
    BY <2>1 DEF Spread, Tracks, NoFaults, Waiting, Fresh, NothingFilled, Synced, InSync, Base,
                MAX_OUT_OF_SEQ
<1> QED
  BY <1>1, <1>2, <1>3, <1>4, <1>5, <1>6 DEF Next, ThreadStep, Processing

-----------------------------------------------------------------------------
\* Without faults, the keys of the status buffer name the block filled last,
\* as soon as the batch in which it was completed has been reported.
KeysHold ==
    /\ pc \in Before \cup {"recv"} => mcnt = NoMcnt
    /\ pc \in {"recv", "batch"} /\ fill.last_filled # -1 =>
        /\ status.NETBKOUT = fill.last_filled
        /\ IF mcnt = NoMcnt THEN status.NETMCNT = binfo.mcnt_start - Nm
           ELSE mcnt = binfo.mcnt_start - Nm
    /\ pc \in {"status", "acquire"} => ~BadSid(pkt)
    /\ pc = "acquire" => status.NETBKOUT = fill.last_filled

Reported == NoFaults => KeysHold

LEMMA InitReported == Init => Reported
  BY DEF Init, Reported, KeysHold, Before

LEMMA ProcessReported ==
    ASSUME NetInv, WithinHalfABlock, Spread, Tracks, Reported, NoFaults',
           NEW beam \in Beams, NEW p \in Packet, Sent(beam, p), Leads(beam), ProcessPacket(p)
    PROVE  KeysHold'
<1>1. NoFaults /\ ~BadSid(p) /\ pc = "batch" /\ KeysHold
  BY SentAsIs DEF Reported, Sent
<1>2. CASE StorePacket(p) \/ IgnoreLate(p) \/ CountOutOfSeq(p)
  <2>1. /\ pc' = "batch" /\ mcnt' = mcnt /\ UNCHANGED <<fill, status>>
        /\ binfo'.mcnt_start = binfo.mcnt_start
    BY <1>2, CountPacketIs DEF StorePacket, IgnoreLate, CountOutOfSeq, PacketDone, KeepLast,
                              NetInv, NetTypeOK, BlockInfo
  <2> QED
    BY <1>1, <2>1 DEF KeysHold, Before
<1>3. CASE MarkFilled(p)
  <2>1. pc' \in {"status", "exited"} /\ pkt' = p
    BY <1>3 DEF MarkFilled
  <2> QED
    BY <1>1, <2>1 DEF KeysHold, Before, BadSid
<1>4. CASE Resync(p)
  <2>1. Waiting \/ Fresh \/ Synced
    BY <1>1 DEF Tracks
  <2>2. fill.last_filled = -1
    <3>1. ~StorePacket(p) /\ ~MarkFilled(p) /\ ~IgnoreLate(p)
      BY <1>4 DEF Resync, StorePacket, MarkFilled, IgnoreLate, IsOutOfSeq, Completes
    <3> QED
      BY <2>1, <3>1, SyncedGoesOn DEF Waiting, Fresh, NothingFilled
  <2>3. pc' = "batch" /\ UNCHANGED fill
    BY <1>4 DEF Resync, PacketDone
  <2> QED
    BY <2>2, <2>3 DEF KeysHold, Before
<1> QED
  BY <1>2, <1>3, <1>4 DEF ProcessPacket

LEMMA StepReported ==
    ASSUME NetInv, WithinHalfABlock, Spread, Tracks, Reported, [Next]_netVars
    PROVE  Reported'
<1> SUFFICES ASSUME NoFaults' PROVE KeysHold'
  BY DEF Reported
<1>1. ASSUME NEW beam \in Beams, Process(beam) PROVE KeysHold'
  <2>1. PICK p \in Packet : Sent(beam, p) /\ ProcessPacket(p)
    BY <1>1, ProcessSends
  <2>2. Leads(beam)
    BY <1>1, LeadIsBounded DEF Process
  <2> QED
    BY <2>1, <2>2, ProcessReported
<1>2. ASSUME NEW beam \in Beams, Lose(beam) PROVE FALSE
  <2>1. faults' = faults + 1 /\ faults \in Nat
    BY <1>2 DEF Lose, NetInv, StreamOK
  <2> QED
    BY <2>1, SMT DEF NoFaults
<1>3. CASE UpdateStatus
  <2>1. /\ pc = "status" /\ pc' = "acquire" /\ pkt' = pkt /\ faults' = faults
        /\ fill' = [fill EXCEPT !.missed_pkt_cnt = (@ + BlockMissed) % U32]
        /\ status' = [status EXCEPT !.NETBKOUT = block_for_mcnt(binfo.mcnt_start),
                                    !.MISSPKTL = fill'.missed_pkt_cnt,
                                    !.MISSPER = fill.total_missed]
    BY <1>3 DEF UpdateStatus, beams
  <2>2. fill'.last_filled = fill.last_filled
    BY <2>1 DEF NetInv, NetTypeOK
  <2>3. status'.NETBKOUT = fill.last_filled
    BY <2>1 DEF NetInv, NetTypeOK, FillOrder
  <2>4. ~BadSid(pkt)
    BY <2>1 DEF Reported, KeysHold, NoFaults
  <2> QED
    BY <2>1, <2>2, <2>3, <2>4 DEF KeysHold, Before, BadSid
<1>4. CASE AcquireNext
  <2>1. /\ pc = "acquire" /\ pc' = "batch" /\ UNCHANGED <<fill, status, faults>>
        /\ mcnt' = KeepLast(IF BadSid(pkt) THEN NoMcnt ELSE binfo.mcnt_start - Nm)
    BY <1>4 DEF AcquireNext, PacketDone, beams
  <2>2. KeysHold
    BY <2>1 DEF Reported, NoFaults
  <2>3. binfo.mcnt_start - Nm \in Nat /\ binfo'.mcnt_start = binfo.mcnt_start
    BY <1>4, <2>1, AcquireNextIs DEF NetInv, PacketInNextBlock
  <2>4. binfo.mcnt_start - Nm # NoMcnt
    BY <2>3, SMT DEF NoMcnt
  <2>5. mcnt' = binfo.mcnt_start - Nm
    BY <2>1, <2>2, <2>4 DEF KeepLast, KeysHold
  <2> QED
    BY <2>1, <2>2, <2>3, <2>4, <2>5 DEF KeysHold, Before
<1>5. CASE ReportBatch
  <2>1. /\ pc = "batch" /\ pc' = "recv" /\ mcnt' = NoMcnt /\ UNCHANGED <<binfo, fill, faults>>
        /\ status' = IF mcnt = NoMcnt THEN status ELSE [status EXCEPT !.NETMCNT = mcnt]
    BY <1>5 DEF ReportBatch, beams
  <2>2. KeysHold
    BY <2>1 DEF Reported, NoFaults
  <2>3. /\ status'.NETBKOUT = status.NETBKOUT
        /\ status'.NETMCNT = IF mcnt = NoMcnt THEN status.NETMCNT ELSE mcnt
    BY <2>1 DEF NetInv, NetTypeOK
  <2> QED
    BY <2>1, <2>2, <2>3 DEF KeysHold, Before
<1>6. CASE ReceiveBatch
  BY <1>6 DEF ReceiveBatch, Reported, KeysHold, Before, NoFaults, beams
<1>7. CASE Start \/ Benchmark
  <2>1. /\ pc \in {"start", "bench"} /\ pc' \in {"bench", "recv", "exited"}
        /\ UNCHANGED <<mcnt, fill, faults>>
    BY <1>7 DEF Start, Benchmark, beams
  <2>2. fill.last_filled = -1 /\ mcnt = NoMcnt
    BY <2>1 DEF NetInv, NothingMovedYet, Reported, KeysHold, Before, NoFaults
  <2> QED
    BY <2>1, <2>2 DEF KeysHold, Before
<1>8. CASE ForceHold \/ LookHold \/ Operator \/ Params
  <2>1. pc \in Before /\ pc' \in Before /\ UNCHANGED <<mcnt, faults>>
    BY <1>8 DEF ForceHold, LookHold, Operator, Params, Before, beams
  <2> QED
    BY <2>1 DEF Reported, KeysHold, Before, NoFaults
<1>9. CASE Stop \/ WaitFails
  <2>1. pc' = "exited"
    BY <1>9 DEF Stop, WaitFails
  <2> QED
    BY <2>1 DEF KeysHold, Before
<1>10. CASE ReceiveNothing \/ Exited \/ UNCHANGED netVars \/ \E b \in InBlocks : Drain(b)
  <2>1. UNCHANGED <<binfo, fill, pc, pkt, mcnt, status, faults>>
    BY <1>10 DEF ReceiveNothing, Exited, Drain, netVars, beams
  <2> QED
    BY <2>1 DEF Reported, KeysHold, NoFaults, BadSid
<1> QED
  BY <1>1, <1>2, <1>3, <1>4, <1>5, <1>6, <1>7, <1>8, <1>9, <1>10
     DEF Next, ThreadStep, Processing

(***************************************************************************)
(* Between batches, and with no packet damaged or lost, NETBKOUT and       *)
(* NETMCNT name the block that was filled last, however many blocks the    *)
(* batch completed, if no beam leads by more than half a block.            *)
(***************************************************************************)
THEOREM LastBlockIsReported == ASSUME WithinHalfABlock PROVE Spec => []ReportsLastBlock
<1>1. Init => Spread /\ Tracks /\ Reported
  BY InitTracks, InitReported
<1>2. NetInv /\ Spread /\ Tracks /\ Reported /\ [Next]_netVars => (Spread /\ Tracks /\ Reported)'
  BY StepTracks, StepReported
<1>3. Reported => ReportsLastBlock
  BY DEF Reported, KeysHold, ReportsLastBlock
<1> QED
  BY <1>1, <1>2, <1>3, NetInvariance, PTL DEF Spec

-----------------------------------------------------------------------------
\* The blocks after the first ones, those that the counters may reach before
\* the thread follows the stream.
Settled(b) == hdr[b].mcnt > from + MAX_OUT_OF_SEQ

\* The blocks that the thread is writing, under the headers of the window.
Writing(b) ==
    \/ pc \in {"recv", "batch"} /\ b \in {CurBlock, Ahead}
    \/ pc = "status" /\ b = Ahead
    \/ pc = "acquire" /\ b = CurBlock

PutAsideIs(beam, x) == pc \in {"status", "acquire"} /\ beam = pkt.sid /\ x = pkt.mcnt

FilledWhole(b) ==
    IsFilled(sem, b) =>
        \A beam \in Beams : \A x \in BlockMcnts(hdr[b].mcnt) : <<beam, x>> \in stored[b]

\* Nothing that came for a block is missing in it.
WholeSoFar(b) ==
    Writing(b) =>
        \A beam \in Beams : \A x \in BlockMcnts(hdr[b].mcnt) :
            x < next[beam] => <<beam, x>> \in stored[b] \/ PutAsideIs(beam, x)

Whole == NoFaults => \A b \in InBlocks : Settled(b) => FilledWhole(b) /\ WholeSoFar(b)

LEMMA InitWhole == Init => Whole
<1> SUFFICES ASSUME Init PROVE Whole
  OBVIOUS
<1>1. \A b \in InBlocks : ~IsFilled(sem, b) /\ ~Writing(b)
  BY DEF Init, DatabufCreate, InBlocks, IsFilled, Writing
<1> QED
  BY <1>1 DEF Whole, FilledWhole, WholeSoFar

\* The counters have not reached the blocks after the first ones.
LEMMA EarlyIsWhole ==
    ASSUME NetInv', \A c \in Beams : next'[c] <= from' + MAX_OUT_OF_SEQ + 1,
           NEW b \in InBlocks, Settled(b)'
    PROVE  WholeSoFar(b)'
<1>1. hdr'[b].mcnt \in Nat /\ from' \in Nat /\ next' \in [Beams -> Nat]
  BY DEF NetInv, NetTypeOK, StreamOK
<1>2. MAX_OUT_OF_SEQ \in Nat
  BY NetConstants, SMT DEF MAX_OUT_OF_SEQ
<1>3. hdr'[b].mcnt > from' + MAX_OUT_OF_SEQ
  BY DEF Settled, MAX_OUT_OF_SEQ
<1>4. ASSUME NEW c \in Beams, NEW x \in BlockMcnts(hdr'[b].mcnt) PROVE ~(x < next'[c])
  BY <1>1, <1>2, <1>3, <1>4, Constants, SMT DEF BlockMcnts
<1> QED
  BY <1>4 DEF WholeSoFar

\* Steps that write nothing, and start to write no block.
LEMMA WholeKept ==
    ASSUME Whole, UNCHANGED <<hdr, stored, beams>>,
           \A b \in InBlocks : IsFilled(sem, b)' => IsFilled(sem, b),
           \A b \in InBlocks : Writing(b)' => Writing(b),
           \/ pc' \notin {"status", "acquire"} /\ pc \notin {"status", "acquire"}
           \/ pc' = "exited"
           \/ pc' \in {"status", "acquire"} /\ pkt' = pkt
    PROVE  Whole'
<1> SUFFICES ASSUME NoFaults', NEW b \in InBlocks, Settled(b)'
             PROVE  FilledWhole(b)' /\ WholeSoFar(b)'
  BY DEF Whole
<1>1. FilledWhole(b) /\ WholeSoFar(b)
  BY DEF Whole, NoFaults, Settled, MAX_OUT_OF_SEQ, beams
<1>2. FilledWhole(b)'
  BY <1>1 DEF FilledWhole
<1>3. WholeSoFar(b)'
  <2>1. ASSUME pc' # "exited", NEW beam, NEW x, PutAsideIs(beam, x) PROVE PutAsideIs(beam, x)'
    BY <2>1 DEF PutAsideIs
  <2>2. pc' = "exited" => ~Writing(b)'
    BY DEF Writing
  <2> QED
    BY <1>1, <2>1, <2>2 DEF WholeSoFar, beams
<1> QED
  BY <1>2, <1>3

\* The window while packets are processed.
LEMMA WindowIs ==
    ASSUME NetInv, pc = "batch", NEW b \in {CurBlock, Ahead}
    PROVE  /\ b \in InBlocks /\ IsFree(sem, b) /\ Writing(b)
           /\ hdr[b].mcnt \in Nat /\ hdr[b].mcnt % Nm = 0
           /\ binfo.mcnt_start \in Nat /\ binfo.mcnt_start <= hdr[b].mcnt
           /\ block_for_mcnt(hdr[b].mcnt) = b
<1>1. /\ binfo.mcnt_start \in Nat /\ binfo.mcnt_start % Nm = 0
      /\ (binfo.mcnt_start + Nm) % Nm = 0
      /\ CurBlock \in InBlocks /\ Ahead \in InBlocks
      /\ block_for_mcnt(binfo.mcnt_start) = CurBlock
      /\ block_for_mcnt(binfo.mcnt_start + Nm) = Ahead
  BY WindowSlots DEF NetInv
<1>2. Holds(CurBlock, binfo.mcnt_start) /\ Holds(Ahead, binfo.mcnt_start + Nm)
  BY DEF NetInv, OwnsWindow
<1>3. /\ binfo.mcnt_start <= binfo.mcnt_start /\ binfo.mcnt_start <= binfo.mcnt_start + Nm
      /\ binfo.mcnt_start + Nm \in Nat
  BY <1>1, Constants, SMT
<1> QED
  BY <1>1, <1>2, <1>3 DEF Holds, Writing

\* A beam's packets have come up to the one before this, or to this one.
LEMMA CameBefore ==
    ASSUME NetInv, NEW beam \in Beams, NEW p \in Packet, Sent(beam, p),
           NEW c \in Beams, NEW x \in Nat, x < next'[c]
    PROVE  x < next[c] \/ (c = beam /\ x = p.mcnt)
<1>1. /\ next \in [Beams -> Nat] /\ p.mcnt = next[beam]
      /\ next' = [next EXCEPT ![beam] = next[beam] + 1]
  BY DEF NetInv, StreamOK, Sent
<1>2. next[c] \in Nat /\ next'[c] = IF c = beam THEN next[c] + 1 ELSE next[c]
  BY <1>1
<1> QED
  BY <1>1, <1>2, SMT

\* The packet is stored in the block whose header covers it.
LEMMA StorePacketWhole ==
    ASSUME NetInv, NetInv', Whole, NoFaults', NEW beam \in Beams, NEW p \in Packet,
           Sent(beam, p), StorePacket(p), NEW b \in InBlocks, Settled(b)'
    PROVE  WholeSoFar(b)'
<1>1. NoFaults /\ p.sid = beam /\ ~BadSid(p) /\ pc = "batch" /\ from' = from
  BY SentAsIs DEF Sent
<1>2. /\ hdr \in [InBlocks -> Header] /\ stored \in [InBlocks -> SUBSET Pairs]
      /\ binfo \in BlockInfo /\ p.sid \in 0 .. N_BEAMS /\ <<p.sid, p.mcnt>> \in Pairs
      /\ p.mcnt \in Nat
  BY <1>1, SentIs DEF NetInv, NetTypeOK, BlockInfo, Header, Missed, Pairs
<1>3. hdr'[b].mcnt = hdr[b].mcnt
  BY <1>2, DecrementMissedIs DEF StorePacket
<1>4. /\ stored[b] \subseteq stored'[b]
      /\ block_for_mcnt(p.mcnt) = b => <<p.sid, p.mcnt>> \in stored'[b]
  BY <1>1, <1>2, CopyPayloadIs DEF StorePacket
<1>5. CurBlock' = CurBlock /\ Ahead' = Ahead /\ pc' = "batch"
  BY <1>2, CountPacketIs DEF StorePacket, PacketDone, CurBlock, Ahead
<1> SUFFICES ASSUME Writing(b)', NEW c \in Beams, NEW x \in BlockMcnts(hdr[b].mcnt), x < next'[c]
             PROVE  <<c, x>> \in stored'[b]
  BY <1>3 DEF WholeSoFar
<1>6. b \in {CurBlock, Ahead}
  BY <1>5 DEF Writing
<1>7. /\ hdr[b].mcnt \in Nat /\ hdr[b].mcnt % Nm = 0 /\ Writing(b)
      /\ block_for_mcnt(hdr[b].mcnt) = b
  BY <1>1, <1>6, WindowIs
<1>8. x \in Nat
  BY <1>7, Constants, SMT DEF BlockMcnts
<1>9. CASE x < next[c]
  <2>1. Settled(b)
    BY <1>1, <1>3 DEF Settled, MAX_OUT_OF_SEQ
  <2>2. WholeSoFar(b) /\ ~PutAsideIs(c, x)
    BY <1>1, <2>1 DEF Whole, PutAsideIs
  <2> QED
    BY <1>4, <1>7, <1>9, <2>2 DEF WholeSoFar
<1>10. CASE c = beam /\ x = p.mcnt
  <2>1. block_for_mcnt(p.mcnt) = b
    BY <1>7, <1>8, <1>10, BlockMcntsSlot
  <2> QED
    BY <1>1, <1>4, <1>10, <2>1
<1> QED
  BY <1>8, <1>9, <1>10, CameBefore

\* A late packet belongs to no block of the window.
LEMMA IgnoreLateWhole ==
    ASSUME NetInv, NetInv', Whole, NoFaults', NEW beam \in Beams, NEW p \in Packet,
           Sent(beam, p), IgnoreLate(p), NEW b \in InBlocks, Settled(b)'
    PROVE  WholeSoFar(b)'
<1>1. NoFaults /\ pc = "batch" /\ from' = from
  BY SentAsIs DEF Sent
<1>2. UNCHANGED <<hdr, stored, binfo>> /\ pc' = "batch"
  BY DEF IgnoreLate, PacketDone, ring
<1> SUFFICES ASSUME Writing(b)', NEW c \in Beams, NEW x \in BlockMcnts(hdr[b].mcnt), x < next'[c]
             PROVE  <<c, x>> \in stored[b]
  BY <1>2 DEF WholeSoFar
<1>3. b \in {CurBlock, Ahead}
  BY <1>2 DEF Writing, CurBlock, Ahead
<1>4. /\ hdr[b].mcnt \in Nat /\ Writing(b)
      /\ binfo.mcnt_start \in Nat /\ binfo.mcnt_start <= hdr[b].mcnt
  BY <1>1, <1>3, WindowIs
<1>5. x \in Nat /\ hdr[b].mcnt <= x
  BY <1>4, Constants, SMT DEF BlockMcnts
<1>6. x # p.mcnt
  <2>1. p.mcnt - binfo.mcnt_start < 0 /\ p.mcnt \in Nat
    BY DEF IgnoreLate, IsLate, Dist, Packet
  <2> QED
    BY <1>4, <1>5, <2>1, SMT
<1>7. x < next[c]
  BY <1>5, <1>6, CameBefore
<1>8. Settled(b)
  BY <1>1, <1>2 DEF Settled, MAX_OUT_OF_SEQ
<1>9. WholeSoFar(b) /\ ~PutAsideIs(c, x)
  BY <1>1, <1>8 DEF Whole, PutAsideIs
<1> QED
  BY <1>4, <1>7, <1>9 DEF WholeSoFar

\* The block completed is whole, and the packet that completed it is put aside.
LEMMA MarkFilledWhole ==
    ASSUME NetInv, WithinHalfABlock, Whole, NoFaults', NEW beam \in Beams, NEW p \in Packet,
           Sent(beam, p), Leads(beam), MarkFilled(p), NEW b \in InBlocks, Settled(b)'
    PROVE  FilledWhole(b)' /\ WholeSoFar(b)'
<1>1. NoFaults /\ pc = "batch" /\ from' = from /\ p.sid = beam
  BY SentAsIs DEF Sent
<1>2. /\ UNCHANGED <<hdr, stored, binfo>> /\ pkt' = p
      /\ \/ sem' = SetFilled(sem, CurBlock) /\ pc' = "status"
         \/ sem' = sem /\ pc' = "exited"
  BY WindowSlots DEF MarkFilled, NetInv
<1>3. Settled(b)
  BY <1>1, <1>2 DEF Settled, MAX_OUT_OF_SEQ
<1>4. FilledWhole(b) /\ WholeSoFar(b) /\ \A c, x : ~PutAsideIs(c, x)
  BY <1>1, <1>3 DEF Whole, PutAsideIs
<1>5. FilledWhole(b)'
  <2> SUFFICES ASSUME IsFilled(sem', b), NEW c \in Beams, NEW x \in BlockMcnts(hdr[b].mcnt)
               PROVE  <<c, x>> \in stored[b]
    BY <1>2 DEF FilledWhole
  <2>1. CASE IsFilled(sem, b)
    BY <1>4, <2>1 DEF FilledWhole
  <2>2. CASE ~IsFilled(sem, b)
    <3>1. sem \in [InBlocks -> BlockState]
      BY DEF NetInv, NetTypeOK
    <3>2. b = CurBlock
      BY <1>2, <2>2, <3>1 DEF IsFilled, SetFilled
    <3>3. hdr[b].mcnt = binfo.mcnt_start /\ binfo.mcnt_start \in Nat
      BY <1>1, <3>2 DEF NetInv, OwnsWindow, Holds, NetTypeOK
    <3>4. binfo.mcnt_start + Nm <= next[c] /\ next[c] \in Nat
      BY AllArePast DEF NetInv, StreamOK
    <3>5. x < next[c]
      BY <3>3, <3>4, Constants, SMT DEF BlockMcnts
    <3>6. Writing(b)
      BY <1>1, <3>2 DEF Writing
    <3> QED
      BY <1>4, <3>5, <3>6 DEF WholeSoFar
  <2> QED
    BY <2>1, <2>2
<1>6. WholeSoFar(b)'
  <2> SUFFICES ASSUME Writing(b)', NEW c \in Beams, NEW x \in BlockMcnts(hdr[b].mcnt), x < next'[c]
               PROVE  <<c, x>> \in stored[b] \/ PutAsideIs(c, x)'
    BY <1>2 DEF WholeSoFar
  <2>1. b = Ahead /\ pc' = "status"
    BY <1>2 DEF Writing, Ahead
  <2>2. hdr[b].mcnt \in Nat /\ Writing(b)
    BY <1>1, <2>1, WindowIs
  <2>3. x \in Nat
    BY <2>2, Constants, SMT DEF BlockMcnts
  <2>4. CASE x < next[c]
    BY <1>4, <2>2, <2>4 DEF WholeSoFar
  <2>5. CASE c = beam /\ x = p.mcnt
    BY <1>1, <1>2, <2>1, <2>5 DEF PutAsideIs
  <2> QED
    BY <2>3, <2>4, <2>5, CameBefore
<1> QED
  BY <1>5, <1>6

\* Packets out of sequence come only before the thread follows the stream.
LEMMA OutOfSeqIsEarly ==
    ASSUME NetInv, WithinHalfABlock, Spread, Tracks, NoFaults',
           NEW beam \in Beams, NEW p \in Packet, Sent(beam, p), Leads(beam), ProcessPacket(p),
           CountOutOfSeq(p) \/ Resync(p)
    PROVE  \A c \in Beams : next'[c] <= from' + MAX_OUT_OF_SEQ + 1
<1>1. NoFaults /\ pc = "batch" /\ from' = from
  BY SentAsIs DEF Sent
<1>2. ~StorePacket(p) /\ ~MarkFilled(p) /\ ~IgnoreLate(p)
  BY DEF CountOutOfSeq, Resync, StorePacket, MarkFilled, IgnoreLate, IsOutOfSeq, Completes
<1>3. Waiting
  BY <1>1, <1>2, FreshGoesOn, SyncedGoesOn DEF Tracks
<1> QED
  BY <1>1, <1>3, WaitingGoesOn

LEMMA ProcessWhole ==
    ASSUME NetInv, NetInv', WithinHalfABlock, Spread, Tracks, Whole, [Next]_netVars,
           NEW beam \in Beams, NEW p \in Packet, Sent(beam, p), Leads(beam), ProcessPacket(p)
    PROVE  Whole'
<1> SUFFICES ASSUME NoFaults', NEW b \in InBlocks, Settled(b)'
             PROVE  FilledWhole(b)' /\ WholeSoFar(b)'
  BY DEF Whole
<1>1. CASE MarkFilled(p)
  BY <1>1, MarkFilledWhole
<1>2. CASE StorePacket(p) \/ IgnoreLate(p) \/ CountOutOfSeq(p) \/ Resync(p)
  <2>1. FilledWhole(b)'
    <3> SUFFICES ASSUME IsFilled(sem, b) PROVE FilledWhole(b)'
      BY <1>2 DEF StorePacket, IgnoreLate, CountOutOfSeq, Resync, ring, FilledWhole
    <3>1. hdr'[b] = hdr[b] /\ stored'[b] = stored[b]
      BY FilledIsNotWritten
    <3>2. Settled(b) /\ NoFaults
      BY <3>1, SentAsIs DEF Sent, Settled, MAX_OUT_OF_SEQ
    <3>3. FilledWhole(b)
      BY <3>2 DEF Whole
    <3> QED
      BY <3>1, <3>3 DEF FilledWhole
  <2>2. WholeSoFar(b)'
    <3>1. CASE StorePacket(p)
      BY <3>1, StorePacketWhole
    <3>2. CASE IgnoreLate(p)
      BY <3>2, IgnoreLateWhole
    <3>3. CASE CountOutOfSeq(p) \/ Resync(p)
      BY <3>3, OutOfSeqIsEarly, EarlyIsWhole
    <3> QED
      BY <1>2, <3>1, <3>2, <3>3
  <2> QED
    BY <2>1, <2>2
<1> QED
  BY <1>1, <1>2 DEF ProcessPacket

\* The packet put aside goes into the block it belongs to, and no packet of
\* the new block has come yet.
LEMMA AcquireNextWhole ==
    ASSUME NetInv, Tracks, Reported, Whole, [Next]_netVars, AcquireNext
    PROVE  Whole'
<1> SUFFICES ASSUME NoFaults', NEW b \in InBlocks, Settled(b)'
             PROVE  FilledWhole(b)' /\ WholeSoFar(b)'
  BY DEF Whole
<1>1. /\ pc = "acquire" /\ pc' = "batch" /\ UNCHANGED <<sem, from, next, faults>>
      /\ NoFaults /\ KeysHold
  BY DEF AcquireNext, PacketDone, beams, Reported, NoFaults
<1>2. ~BadSid(pkt)
  BY <1>1 DEF KeysHold
<1>3. FilledWhole(b)'
  <2> SUFFICES ASSUME IsFilled(sem, b) PROVE FilledWhole(b)'
    BY <1>1 DEF FilledWhole
  <2>1. hdr'[b] = hdr[b] /\ stored'[b] = stored[b]
    BY FilledIsNotWritten
  <2>2. FilledWhole(b)
    BY <1>1, <2>1 DEF Whole, Settled, MAX_OUT_OF_SEQ
  <2> QED
    BY <2>1, <2>2 DEF FilledWhole
<1>4. WholeSoFar(b)'
  <2>1. CurBlock' = CurBlock /\ Ahead' = Ahead
    BY AcquireNextIs DEF CurBlock, Ahead
  <2>2. CASE b = Ahead
    <3>1. hdr'[b].mcnt = binfo.mcnt_start + Nm
      BY <2>2, AcquireNextIs
    <3>2. Synced
      BY <1>1 DEF Tracks, Waiting, Fresh, NothingFilled
    <3>3. ASSUME NEW c \in Beams PROVE next[c] <= binfo.mcnt_start + Nm
      BY <1>1, <3>2 DEF Synced, InSync, Base
    <3>4. next \in [Beams -> Nat] /\ binfo.mcnt_start \in Nat
      BY DEF NetInv, StreamOK, NetTypeOK
    <3>5. ASSUME NEW c \in Beams, NEW x \in BlockMcnts(hdr'[b].mcnt) PROVE ~(x < next'[c])
      <4>1. next[c] \in Nat /\ next'[c] = next[c] /\ next[c] <= binfo.mcnt_start + Nm
        BY <1>1, <3>3, <3>4
      <4>2. x \in binfo.mcnt_start + Nm .. binfo.mcnt_start + Nm + Nm - 1
        BY <3>1, <3>5 DEF BlockMcnts
      <4> QED
        BY <3>4, <4>1, <4>2, Constants, SMT
    <3> QED
      BY <3>5 DEF WholeSoFar
  <2>3. CASE b = CurBlock
    <3>1. hdr'[b].mcnt = hdr[b].mcnt /\ stored'[b] = stored[b] \cup {<<pkt.sid, pkt.mcnt>>}
      BY <1>2, <2>3, AcquireNextIs
    <3>2. WholeSoFar(b) /\ Writing(b)
      BY <1>1, <2>3, <3>1 DEF Whole, Settled, MAX_OUT_OF_SEQ, Writing
    <3> QED
      BY <1>1, <3>1, <3>2 DEF WholeSoFar, PutAsideIs
  <2>4. CASE b \notin {CurBlock, Ahead}
    BY <1>1, <2>1, <2>4 DEF WholeSoFar, Writing
  <2> QED
    BY <2>2, <2>3, <2>4
<1> QED
  BY <1>3, <1>4

LEMMA StepWhole ==
    ASSUME NetInv, NetInv', WithinHalfABlock, Spread, Tracks, Reported, Whole, [Next]_netVars
    PROVE  Whole'
<1>1. ASSUME NEW beam \in Beams, Process(beam) PROVE Whole'
  <2>1. PICK p \in Packet : Sent(beam, p) /\ ProcessPacket(p)
    BY <1>1, ProcessSends
  <2>2. Leads(beam)
    BY <1>1, LeadIsBounded DEF Process
  <2> QED
    BY <2>1, <2>2, ProcessWhole
<1>2. ASSUME NEW beam \in Beams, Lose(beam) PROVE Whole'
  <2>1. faults' = faults + 1 /\ faults \in Nat
    BY <1>2 DEF Lose, NetInv, StreamOK
  <2> QED
    BY <2>1, SMT DEF Whole, NoFaults
<1>3. CASE Start
  <2>1. UNCHANGED sem /\ pc' = "bench" /\ \A b \in InBlocks : IsFree(sem, b)
    BY <1>3 DEF Start, NetInv, NothingMovedYet, Before
  <2>2. \A b \in InBlocks : ~IsFilled(sem, b)' /\ ~Writing(b)'
    BY <2>1 DEF IsFree, IsFilled, Writing
  <2> QED
    BY <2>2 DEF Whole, FilledWhole, WholeSoFar
<1>4. CASE Benchmark
  <2> SUFFICES ASSUME NoFaults', NEW b \in InBlocks, Settled(b)'
               PROVE  FilledWhole(b)' /\ WholeSoFar(b)'
    BY DEF Whole
  <2>1. pc = "bench" /\ UNCHANGED <<sem, from, next, faults>>
    BY <1>4 DEF Benchmark, beams
  <2>2. FilledWhole(b)'
    BY <2>1 DEF NetInv, NothingMovedYet, Before, IsFree, IsFilled, FilledWhole
  <2>3. Waiting \/ Fresh
    BY <2>1 DEF Tracks, NoFaults, Synced, Before
  <2>4. ASSUME NEW c \in Beams PROVE next[c] <= from + MAX_OUT_OF_SEQ + 1
    <3>1. /\ next[c] \in Nat /\ from \in Nat /\ binfo.out_of_seq_cnt \in Nat
          /\ MAX_OUT_OF_SEQ \in Nat
      BY NetConstants, SMT DEF NetInv, StreamOK, NetTypeOK, MAX_OUT_OF_SEQ
    <3>2. \/ next[c] = from
          \/ next[c] <= from + binfo.out_of_seq_cnt /\ binfo.out_of_seq_cnt <= MAX_OUT_OF_SEQ
      BY <2>3 DEF Waiting, Fresh
    <3> QED
      BY <3>1, <3>2, SMT
  <2>5. \A c \in Beams : next'[c] <= from' + MAX_OUT_OF_SEQ + 1
    BY <2>1, <2>4
  <2> QED
    BY <2>2, <2>5, EarlyIsWhole
<1>5. CASE UpdateStatus
  <2>1. /\ pc = "status" /\ pc' = "acquire" /\ pkt' = pkt
        /\ UNCHANGED <<sem, hdr, stored, beams>>
        /\ binfo' = [binfo EXCEPT !.mcnt_start = @ + Nm, !.block_i = Ahead]
    BY <1>5 DEF UpdateStatus, Advance, ring
  <2>2. CurBlock' = Ahead
    BY <2>1 DEF NetInv, NetTypeOK, CurBlock
  <2>3. \A b \in InBlocks : Writing(b)' => Writing(b)
    BY <2>1, <2>2 DEF Writing
  <2> QED
    BY <2>1, <2>3, WholeKept
<1>6. CASE ForceHold \/ LookHold \/ Operator \/ Params \/ ReceiveBatch \/ ReportBatch \/ Stop
           \/ WaitFails
  <2>1. /\ UNCHANGED <<sem, hdr, stored, binfo, pkt, beams>>
        /\ \/ pc \in Before /\ pc' \in Before
           \/ pc \in {"recv", "batch"} /\ pc' \in {"recv", "batch"}
           \/ pc' = "exited"
    BY <1>6 DEF ForceHold, LookHold, Operator, Params, ReceiveBatch, ReportBatch, Stop,
                WaitFails, Before, ring
  <2>2. \A b \in InBlocks : Writing(b)' => Writing(b)
    BY <2>1 DEF Writing, CurBlock, Ahead, Before
  <2> QED
    BY <2>1, <2>2, WholeKept DEF Before
<1>7. CASE ReceiveNothing \/ Exited \/ UNCHANGED netVars
  <2>1. UNCHANGED <<sem, hdr, stored, binfo, pc, pkt, beams>>
    BY <1>7 DEF ReceiveNothing, Exited, netVars, ring
  <2>2. \A b \in InBlocks : Writing(b)' => Writing(b)
    BY <2>1 DEF Writing, CurBlock, Ahead
  <2> QED
    BY <2>1, <2>2, WholeKept
<1>8. ASSUME NEW d \in InBlocks, Drain(d) PROVE Whole'
  <2>1. sem' = SetFree(sem, d) /\ UNCHANGED <<hdr, stored, binfo, pc, pkt, beams>>
    BY <1>8 DEF Drain
  <2>2. \A b \in InBlocks : Writing(b)' => Writing(b)
    BY <2>1 DEF Writing, CurBlock, Ahead
  <2>3. \A b \in InBlocks : IsFilled(sem, b)' => IsFilled(sem, b)
    BY <2>1 DEF NetInv, NetTypeOK, IsFilled, SetFree
  <2> QED
    BY <2>1, <2>2, <2>3, WholeKept
<1> QED
  BY <1>1, <1>2, <1>3, <1>4, <1>5, <1>6, <1>7, <1>8, AcquireNextWhole
     DEF Next, ThreadStep, Processing

(***************************************************************************)
(* Of a stream without losses or damage, in which no beam leads by more    *)
(* than half a block, every block after the first ones is whole when it is *)
(* passed on, although a packet of any one beam closes it for all.         *)
(***************************************************************************)
THEOREM BlocksAreWhole == ASSUME WithinHalfABlock PROVE Spec => []WholeWithinSkew
<1>1. Init => Spread /\ Tracks /\ Reported /\ Whole
  BY InitTracks, InitReported, InitWhole
<1>2. /\ NetInv /\ NetInv' /\ Spread /\ Tracks /\ Reported /\ Whole /\ [Next]_netVars
           => (Spread /\ Tracks /\ Reported /\ Whole)'
  BY StepTracks, StepReported, StepWhole
<1>3. NetInv /\ Whole => WholeWithinSkew
  <2> SUFFICES ASSUME NetInv, Whole, NoFaults, NEW b \in InBlocks, IsFilled(sem, b),
                      hdr[b].mcnt > from + MAX_OUT_OF_SEQ
               PROVE  stored[b] = Beams \X BlockMcnts(hdr[b].mcnt)
    BY DEF WholeWithinSkew, BlockMcnts
  <2>1. ASSUME NEW beam \in Beams, NEW x \in BlockMcnts(hdr[b].mcnt)
        PROVE  <<beam, x>> \in stored[b]
    BY DEF Whole, Settled, FilledWhole
  <2>2. ASSUME NEW s \in stored[b]
        PROVE  s \in Beams \X BlockMcnts(hdr[b].mcnt)
    <3>1. s \in Beams \X (0 .. from + Length)
      BY DEF NetInv, NetTypeOK
    <3>2. s[2] \in BlockMcnts(hdr[b].mcnt)
      BY DEF NetInv, StoredUnderHeader, Belongs
    <3> QED
      BY <3>1, <3>2
  <2> QED
    BY <2>1, <2>2
<1> QED
  BY <1>1, <1>2, <1>3, NetInvariance, PTL DEF Spec
=============================================================================
