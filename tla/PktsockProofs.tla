--------------------------- MODULE PktsockProofs ---------------------------
(***************************************************************************)
(* The safety of the network thread, for every ring, every block length    *)
(* and every network; on a stream (PktsockStream), what its blocks hold;   *)
(* and, at the end, the frames its packets come in (FrameRing).            *)
(***************************************************************************)
EXTENDS PktsockStream, FrameRing, McntArithProofs, FiniteSetTheorems

LEMMA PktsockConstants ==
    /\ N_SOURCE_NODES \in Nat
    /\ N_BEAMS \in Nat /\ N_BORS \in Nat
    /\ U32 \in Nat /\ U32 > 0
    /\ U64 \in Nat /\ U64 > Nm
    /\ Mcnts \subseteq Nat /\ Sids \subseteq Nat
<1>1. Nm * N_BEAMS \in Nat
  BY PktsockAssumption, Constants, ProductIsNat
<1> QED
  BY <1>1, PktsockAssumption, Constants, SMT

LEMMA SlotIsBlock == ASSUME NEW m \in Nat PROVE block_for_mcnt(m) \in InBlocks
  BY SlotInRing DEF InBlocks, BlockIds

\* Whatever a packet may carry: most of what follows does not depend on the
\* packets of the network, and holds of every one.
Packet == [mcnt : Nat, sid : Nat]

LEMMA NextIsBlock ==
    ASSUME NEW b \in InBlocks
    PROVE  NextBlock(b, N_INPUT_BLOCKS) \in InBlocks \ {b}
  BY Constants, SMT DEF InBlocks, BlockIds, NextBlock

\* What initialize_block does to the headers.
LEMMA InitializeBlockIs ==
    ASSUME NEW h \in [InBlocks -> Header], NEW m \in Nat, NEW s \in Nat
    PROVE  /\ InitializeBlock(h, m, s) \in [InBlocks -> Header]
           /\ InitializeBlock(h, m, s)[block_for_mcnt(m)].mcnt = RoundDown(m)
           /\ InitializeBlock(h, m, s)[block_for_mcnt(m)].missed_pkts = Nm
           /\ \A c \in InBlocks : InitializeBlock(h, m, s)[c].time = h[c].time
           /\ \A c \in InBlocks : c # block_for_mcnt(m) => InitializeBlock(h, m, s)[c] = h[c]
<1>1. block_for_mcnt(m) \in InBlocks /\ RoundDown(m) \in Nat
  BY SlotIsBlock, RoundDownIsStart
<1>2. Nm \in 0 .. U64 - 1
  BY PktsockConstants, Constants, SMT
<1> QED
  BY <1>1, <1>2 DEF InitializeBlock, Header

LEMMA DecrementMissedIs ==
    ASSUME NEW h \in [InBlocks -> Header], NEW p \in Packet
    PROVE  /\ DecrementMissed(h, p) \in [InBlocks -> Header]
           /\ \A c \in InBlocks : /\ DecrementMissed(h, p)[c].mcnt = h[c].mcnt
                                  /\ DecrementMissed(h, p)[c].time = h[c].time
           /\ \A c \in InBlocks : c # block_for_mcnt(p.mcnt) => DecrementMissed(h, p)[c] = h[c]
           /\ ~BadSid(p) => DecrementMissed(h, p)[block_for_mcnt(p.mcnt)].missed_pkts
                                = (h[block_for_mcnt(p.mcnt)].missed_pkts + (U64 - 1)) % U64
<1>1. block_for_mcnt(p.mcnt) \in InBlocks
  BY SlotIsBlock DEF Packet
<1>2. \A x \in 0 .. U64 - 1 : (x + (U64 - 1)) % U64 \in 0 .. U64 - 1
  BY PktsockConstants, Constants, SMT
<1> QED
  BY <1>1, <1>2 DEF DecrementMissed, Header

LEMMA NoteStoredIs ==
    ASSUME NEW s \in [InBlocks -> SUBSET Nat], NEW p \in Packet
    PROVE  /\ NoteStored(s, p) \in [InBlocks -> SUBSET Nat]
           /\ NoteStored(s, p)[block_for_mcnt(p.mcnt)]
                  \subseteq s[block_for_mcnt(p.mcnt)] \cup {p.mcnt}
           /\ \A c \in InBlocks : c # block_for_mcnt(p.mcnt) => NoteStored(s, p)[c] = s[c]
           /\ ~BadSid(p) => NoteStored(s, p)[block_for_mcnt(p.mcnt)]
                                = s[block_for_mcnt(p.mcnt)] \cup {p.mcnt}
<1>1. block_for_mcnt(p.mcnt) \in InBlocks /\ p.mcnt \in Nat
  BY SlotIsBlock DEF Packet
<1> QED
  BY <1>1 DEF NoteStored

\* Payloads of one block have places of their own.
LEMMA OwnPlaces ==
    ASSUME NEW m \in Nat, m % Nm = 0, NEW x \in BlockMcnts(m), NEW y \in BlockMcnts(m),
           x % Nm = y % Nm
    PROVE  x = y
<1>1. x \in Nat /\ y \in Nat /\ m <= x /\ x < m + Nm /\ m <= y /\ y < m + Nm
  BY Constants, SMT DEF BlockMcnts
<1>2. RoundDown(x) = m /\ RoundDown(y) = m
  BY <1>1, SameBlock
<1>3. x % Nm \in Int
  BY <1>1, DivMod, Constants, SMT
<1> QED
  BY <1>1, <1>2, <1>3, SMT DEF RoundDown

\* A block has a packet for each of its places.
LEMMA EveryPlace ==
    ASSUME NEW m \in Nat, NEW x \in Nat
    PROVE  \E y \in BlockMcnts(m) : y % Nm = x % Nm
<1> DEFINE a == RoundDown(m)
           r == x % Nm
<1>1. a \in Nat /\ a % Nm = 0 /\ a <= m /\ m < a + Nm
  BY RoundDownIsStart
<1>2. r \in Nat /\ r < Nm
  BY DivMod, Constants, SMT
<1> HIDE DEF a, r
<1>3. a + Nm \in Nat /\ (a + Nm) % Nm = 0
  <2>1. a + Nm \in Nat
    BY <1>1, Constants, SMT
  <2>2. (a + Nm) % Nm = a % Nm
    BY <1>1, NextSlot
  <2> QED
    BY <1>1, <2>1, <2>2
<1>4. ASSUME NEW s \in Nat, s % Nm = 0 PROVE (s + r) % Nm = r
  <2>1. s + r \in Nat /\ s <= s + r /\ s + r < s + Nm
    BY <1>2, <1>4, Constants, SMT
  <2>2. RoundDown(s + r) = s
    BY <1>4, <2>1, SameBlock
  <2>3. (s + r) % Nm \in Int
    BY <2>1, DivMod, Constants, SMT
  <2> QED
    BY <1>2, <2>1, <2>2, <2>3, SMT DEF RoundDown
<1>5. CASE m <= a + r
  <2>1. a + r \in BlockMcnts(m)
    BY <1>1, <1>2, <1>5, Constants, SMT DEF BlockMcnts
  <2> QED
    BY <1>1, <1>4, <2>1 DEF r
<1>6. CASE a + r < m
  <2>1. a + Nm + r \in BlockMcnts(m)
    BY <1>1, <1>2, <1>6, Constants, SMT DEF BlockMcnts
  <2> QED
    BY <1>3, <1>4, <2>1 DEF r
<1> QED
  BY <1>1, <1>2, <1>5, <1>6, SMT

LEMMA CopyPayloadIs ==
    ASSUME NEW d \in [InBlocks -> SUBSET Nat], NEW p \in Packet
    PROVE  /\ CopyPayload(d, p) \in [InBlocks -> SUBSET Nat]
           /\ \A c \in InBlocks : c # block_for_mcnt(p.mcnt) => CopyPayload(d, p)[c] = d[c]
           /\ \A x \in CopyPayload(d, p)[block_for_mcnt(p.mcnt)] :
                  \/ x \in d[block_for_mcnt(p.mcnt)]
                  \/ x = p.mcnt /\ ~BadSid(p)
           /\ ~BadSid(p) =>
                  /\ p.mcnt \in CopyPayload(d, p)[block_for_mcnt(p.mcnt)]
                  /\ \A x \in CopyPayload(d, p)[block_for_mcnt(p.mcnt)] :
                        x % Nm = p.mcnt % Nm => x = p.mcnt
                  /\ \A x \in d[block_for_mcnt(p.mcnt)] :
                        x % Nm # p.mcnt % Nm => x \in CopyPayload(d, p)[block_for_mcnt(p.mcnt)]
           /\ BadSid(p) => CopyPayload(d, p) = d
<1>1. block_for_mcnt(p.mcnt) \in InBlocks /\ p.mcnt \in Nat
  BY SlotIsBlock DEF Packet
<1> QED
  BY <1>1 DEF CopyPayload

\* A copy puts one payload in a place: others keep theirs.
LEMMA CopyKeepsPlaces ==
    ASSUME IInv, NEW p \in Packet, data' = CopyPayload(data, p)
    PROVE  OnePerPlace'
<1>1. /\ data \in [InBlocks -> SUBSET Nat]
      /\ \A b \in InBlocks : \A m \in data[b] :
            /\ block_for_mcnt(m) = b
            /\ \A n \in data[b] : m % Nm = n % Nm => m = n
  BY DEF IInv, TypeOK, OnePerPlace
<1> SUFFICES ASSUME NEW b \in InBlocks, NEW m \in data'[b]
             PROVE  /\ block_for_mcnt(m) = b
                    /\ \A n \in data'[b] : m % Nm = n % Nm => m = n
  BY DEF OnePerPlace
<1>2. CASE b # block_for_mcnt(p.mcnt) \/ BadSid(p)
  <2>1. data'[b] = data[b]
    BY <1>1, <1>2, CopyPayloadIs
  <2> QED
    BY <1>1, <2>1
<1>3. CASE b = block_for_mcnt(p.mcnt) /\ ~BadSid(p)
  <2>1. /\ \A x \in data'[b] : x \in data[b] \/ x = p.mcnt
        /\ \A x \in data'[b] : x % Nm = p.mcnt % Nm => x = p.mcnt
    BY <1>1, <1>3, CopyPayloadIs
  <2> QED
    BY <1>1, <1>3, <2>1
<1> QED
  BY <1>2, <1>3

\* What is stored in the block of a packet stays when the packet is copied.
LEMMA CopyKeepsStored ==
    ASSUME NEW d \in [InBlocks -> SUBSET Nat], NEW s \in [InBlocks -> SUBSET Nat],
           NEW p \in Packet, NEW m \in Nat, m % Nm = 0, p.mcnt \in BlockMcnts(m),
           s[block_for_mcnt(p.mcnt)] \subseteq d[block_for_mcnt(p.mcnt)] \cap BlockMcnts(m)
    PROVE  NoteStored(s, p)[block_for_mcnt(p.mcnt)]
               \subseteq CopyPayload(d, p)[block_for_mcnt(p.mcnt)] \cap BlockMcnts(m)
<1> DEFINE b == block_for_mcnt(p.mcnt)
<1>1. CASE BadSid(p)
  <2>1. NoteStored(s, p) = s /\ CopyPayload(d, p) = d
    BY <1>1 DEF NoteStored, CopyPayload
  <2> QED
    BY <2>1
<1>2. CASE ~BadSid(p)
  <2>1. NoteStored(s, p)[b] = s[b] \cup {p.mcnt}
    BY <1>2, NoteStoredIs
  <2>2. /\ p.mcnt \in CopyPayload(d, p)[b]
        /\ \A x \in d[b] : x % Nm # p.mcnt % Nm => x \in CopyPayload(d, p)[b]
    BY <1>2, CopyPayloadIs
  <2>3. \A x \in s[b] : x % Nm = p.mcnt % Nm => x = p.mcnt
    BY OwnPlaces
  <2> QED
    BY <2>1, <2>2, <2>3
<1> QED
  BY <1>1, <1>2

LEMMA NoneStoredIs ==
    ASSUME NEW s \in [InBlocks -> SUBSET Nat], NEW m \in Nat
    PROVE  /\ NoneStored(s, m) \in [InBlocks -> SUBSET Nat]
           /\ NoneStored(s, m)[block_for_mcnt(m)] = {}
           /\ \A c \in InBlocks : c # block_for_mcnt(m) => NoneStored(s, m)[c] = s[c]
  BY SlotIsBlock DEF NoneStored

BlockInfo == [mcnt_start : Nat, block_i : InBlocks, out_of_seq_cnt : Nat,
              counter : [InBlocks -> Nat]]

LEMMA CountPacketIs ==
    ASSUME NEW bi \in BlockInfo, NEW p \in Packet
    PROVE  /\ CountPacket(bi, p) \in BlockInfo
           /\ CountPacket(bi, p).mcnt_start = bi.mcnt_start
           /\ CountPacket(bi, p).block_i = bi.block_i
           /\ CountPacket(bi, p).counter[block_for_mcnt(p.mcnt)]
                  = bi.counter[block_for_mcnt(p.mcnt)] + 1
           /\ \A c \in InBlocks : c # block_for_mcnt(p.mcnt) =>
                  CountPacket(bi, p).counter[c] = bi.counter[c]
<1> DEFINE b == block_for_mcnt(p.mcnt)
           counter == [bi.counter EXCEPT ![b] = bi.counter[b] + 1]
<1>1. b \in InBlocks
  BY SlotIsBlock DEF Packet
<1>2. bi.counter \in [InBlocks -> Nat]
  BY DEF BlockInfo
<1> HIDE DEF b
<1>3. /\ counter \in [InBlocks -> Nat]
      /\ counter[b] = bi.counter[b] + 1
      /\ \A c \in InBlocks : c # b => counter[c] = bi.counter[c]
  BY <1>1, <1>2, SMT
<1>4. CountPacket(bi, p) = [bi EXCEPT !.out_of_seq_cnt = 0, !.counter = counter]
  BY DEF CountPacket, BlockInfo, b
<1> HIDE DEF counter
<1>5. CountPacket(bi, p) = [mcnt_start |-> bi.mcnt_start, block_i |-> bi.block_i,
                            out_of_seq_cnt |-> 0, counter |-> counter]
  BY <1>4 DEF BlockInfo
<1>6. bi.mcnt_start \in Nat /\ bi.block_i \in InBlocks
  BY DEF BlockInfo
<1> QED
  BY <1>3, <1>5, <1>6 DEF BlockInfo, b
-----------------------------------------------------------------------------
\* The two blocks of the window, and the packets that fall into them.
LEMMA WindowSlots ==
    ASSUME TypeOK, binfo.mcnt_start % Nm = 0, FillOrder
    PROVE  /\ binfo.mcnt_start \in Nat /\ binfo.mcnt_start + Nm \in Nat
           /\ (binfo.mcnt_start + Nm) % Nm = 0
           /\ CurBlock \in InBlocks /\ Ahead \in InBlocks /\ Ahead # CurBlock
           /\ block_for_mcnt(binfo.mcnt_start) = CurBlock
           /\ block_for_mcnt(binfo.mcnt_start + Nm) = Ahead
<1>1. binfo.mcnt_start \in Nat /\ CurBlock \in InBlocks
  BY DEF TypeOK, CurBlock
<1>2. binfo.mcnt_start + Nm \in Nat
  BY <1>1, Constants, SMT
<1>3. Ahead \in InBlocks /\ Ahead # CurBlock
  BY <1>1, NextIsBlock DEF Ahead, CurBlock
<1>4. block_for_mcnt(binfo.mcnt_start) = CurBlock
  BY DEF FillOrder, CurBlock
<1>5. /\ block_for_mcnt(binfo.mcnt_start + Nm)
             = (block_for_mcnt(binfo.mcnt_start) + 1) % N_INPUT_BLOCKS
      /\ (binfo.mcnt_start + Nm) % Nm = 0
  BY <1>1, NextSlot
<1> QED
  BY <1>1, <1>2, <1>3, <1>4, <1>5 DEF Ahead, CurBlock, NextBlock

LEMMA BlockMcntsSlot ==
    ASSUME NEW s \in Nat, s % Nm = 0, NEW m \in Nat, m \in BlockMcnts(s)
    PROVE  RoundDown(m) = s /\ block_for_mcnt(m) = block_for_mcnt(s)
<1>1. s <= m /\ m < s + Nm
  BY Constants, SMT DEF BlockMcnts
<1> QED
  BY <1>1, SameBlock

\* The step of a thread whose network carries any packets.
AnyNext ==
    \/ \E p \in Packet : Receive(p)
    \/ ThreadStep
    \/ \E b \in InBlocks : Drain(b)

LEMMA PacketIsTyped == ASSUME NEW p \in Packets PROVE p \in Packet
  BY PktsockConstants DEF Packets, Packet

LEMMA NextIsAnyNext == [Next]_vars => [AnyNext]_vars
  BY PacketIsTyped DEF Next, AnyNext

LEMMA PacketSlot ==
    ASSUME TypeOK, binfo.mcnt_start % Nm = 0, FillOrder,
           NEW p \in Packet, InWindow(Dist(p))
    PROVE  \/ /\ p.mcnt \in BlockMcnts(binfo.mcnt_start)
              /\ block_for_mcnt(p.mcnt) = CurBlock
           \/ /\ p.mcnt \in BlockMcnts(binfo.mcnt_start + Nm)
              /\ block_for_mcnt(p.mcnt) = Ahead
<1>1. p.mcnt \in Nat
  BY DEF Packet
<1>2. p.mcnt \in BlockMcnts(binfo.mcnt_start) \/ p.mcnt \in BlockMcnts(binfo.mcnt_start + Nm)
  BY <1>1, WindowSlots, Constants, SMT DEF InWindow, Dist, BlockMcnts
<1> QED
  BY <1>1, <1>2, WindowSlots, BlockMcntsSlot
-----------------------------------------------------------------------------
LEMMA InitIInv == Init => IInv
<1> SUFFICES ASSUME Init PROVE IInv
  OBVIOUS
<1>1. TypeOK
  <2>1. 0 \in InBlocks /\ 0 \in 0 .. U64 - 1 /\ 0 \in 0 .. U32 - 1
    BY Constants, PktsockConstants, SMT DEF InBlocks, BlockIds
  <2>2. sem \in [InBlocks -> BlockState]
    BY DEF Init, DatabufCreate, InBlocks, BlockState
  <2>3. hdr \in [InBlocks -> Header]
    BY <2>1 DEF Init, Header, NoTime
  <2> QED
    BY <2>1, <2>2, <2>3 DEF Init, TypeOK, NoPacket, NoMcnt
<1>2. 0 \div Nm = 0 /\ 0 % Nm = 0 /\ 0 % N_INPUT_BLOCKS = 0
  BY Constants, SMT
<1>3. FillOrder
  BY <1>2, SMT DEF Init, FillOrder, block_for_mcnt
<1>4. StampIsOfThisFill
  BY DEF Init, StampIsOfThisFill, IsFilled, DatabufCreate, InBlocks
<1>5. NothingMovedAtStart /\ StoredUnderHeader /\ OnePerPlace
  BY DEF Init, NothingMovedAtStart, StoredUnderHeader, OnePerPlace
<1>6. PacketInNextBlock /\ OwnsWindow
  BY DEF Init, PacketInNextBlock, OwnsWindow
<1>7. binfo.mcnt_start % Nm = 0
  BY <1>2 DEF Init
<1> QED
  BY <1>1, <1>3, <1>4, <1>5, <1>6, <1>7 DEF IInv

LEMMA StutterIInv == IInv /\ UNCHANGED vars => IInv'
  BY DEF IInv, vars, TypeOK, NothingMovedAtStart, PacketInNextBlock, FillOrder, OwnsWindow,
         StoredUnderHeader, OnePerPlace, StampIsOfThisFill, Holds, CurBlock, Ahead, IsFree, IsFilled

LEMMA StorePacketIInv ==
    ASSUME IInv, NEW p \in Packet, pc = "recv", StorePacket(p)
    PROVE  IInv'
<1> DEFINE b == block_for_mcnt(p.mcnt)
<1>1. p \in Packet
  BY DEF Packet
<1>2. /\ sem \in [InBlocks -> BlockState] /\ hdr \in [InBlocks -> Header]
      /\ stored \in [InBlocks -> SUBSET Nat] /\ binfo \in BlockInfo
  BY DEF IInv, TypeOK, BlockInfo
<1>3. /\ binfo' \in BlockInfo
      /\ binfo'.mcnt_start = binfo.mcnt_start /\ binfo'.block_i = binfo.block_i
  BY <1>1, <1>2, CountPacketIs DEF StorePacket
<1>4. /\ hdr' \in [InBlocks -> Header]
      /\ \A c \in InBlocks : hdr'[c].mcnt = hdr[c].mcnt /\ hdr'[c].time = hdr[c].time
  BY <1>1, <1>2, DecrementMissedIs DEF StorePacket
<1>5. /\ stored' \in [InBlocks -> SUBSET Nat]
      /\ stored'[b] \subseteq stored[b] \cup {p.mcnt}
      /\ \A c \in InBlocks : c # b => stored'[c] = stored[c]
      /\ data' \in [InBlocks -> SUBSET Nat]
      /\ \A c \in InBlocks : c # b => data'[c] = data[c]
  <2>1. data \in [InBlocks -> SUBSET Nat] /\ data' = CopyPayload(data, p)
    BY DEF IInv, TypeOK, StorePacket
  <2>2. stored' = NoteStored(stored, p)
    BY DEF StorePacket
  <2>3. /\ data' \in [InBlocks -> SUBSET Nat]
        /\ \A c \in InBlocks : c # b => data'[c] = data[c]
    BY <1>1, <2>1, CopyPayloadIs
  <2> QED
    BY <1>1, <1>2, <2>2, <2>3, NoteStoredIs
<1>6. UNCHANGED <<sem, last_filled, pc, pkt, netmcnt, status>>
  BY DEF StorePacket
<1>7. TypeOK'
  BY <1>3, <1>4, <1>5, <1>6 DEF IInv, TypeOK, BlockInfo
<1>8. /\ NothingMovedAtStart' /\ PacketInNextBlock' /\ FillOrder' /\ StampIsOfThisFill'
      /\ binfo'.mcnt_start % Nm = 0
  BY <1>3, <1>4, <1>6 DEF IInv, NothingMovedAtStart, PacketInNextBlock, FillOrder,
                          StampIsOfThisFill, IsFilled
<1>9. OwnsWindow'
  <2>1. CurBlock' = CurBlock /\ Ahead' = Ahead /\ CurBlock \in InBlocks /\ Ahead \in InBlocks
    BY <1>3, WindowSlots DEF CurBlock, Ahead, IInv
  <2> QED
    BY <1>3, <1>4, <1>6, <2>1 DEF IInv, OwnsWindow, Holds, IsFree
<1>10. StoredUnderHeader'
  <2>1. InWindow(Dist(p))
    BY DEF StorePacket
  <2>2. Holds(CurBlock, binfo.mcnt_start) /\ Holds(Ahead, binfo.mcnt_start + Nm)
    BY DEF IInv, OwnsWindow
  <2>3. /\ p.mcnt \in BlockMcnts(hdr[b].mcnt) /\ b \in InBlocks
        /\ hdr[b].mcnt \in Nat /\ hdr[b].mcnt % Nm = 0
    BY <2>1, <2>2, PacketSlot, WindowSlots DEF IInv, Holds
  <2>4. /\ data \in [InBlocks -> SUBSET Nat]
        /\ \A c \in InBlocks : stored[c] \subseteq data[c] \cap BlockMcnts(hdr[c].mcnt)
    BY DEF IInv, TypeOK, StoredUnderHeader
  <2>5. data' = CopyPayload(data, p) /\ stored' = NoteStored(stored, p)
    BY DEF StorePacket
  <2>6. stored'[b] \subseteq data'[b] \cap BlockMcnts(hdr[b].mcnt)
    BY <1>2, <2>3, <2>4, <2>5, CopyKeepsStored
  <2> HIDE DEF b
  <2> QED
    BY <1>4, <1>5, <2>3, <2>4, <2>6 DEF StoredUnderHeader
<1>11. OnePerPlace'
  BY CopyKeepsPlaces DEF StorePacket
<1> QED
  BY <1>7, <1>8, <1>9, <1>10, <1>11 DEF IInv

LEMMA MarkFilledIInv ==
    ASSUME IInv, NEW p \in Packet, pc = "recv", MarkFilled(p)
    PROVE  IInv'
<1>1. /\ CurBlock \in InBlocks /\ Ahead \in InBlocks /\ Ahead # CurBlock
      /\ block_for_mcnt(binfo.mcnt_start) = CurBlock /\ binfo.mcnt_start \in Nat
  BY WindowSlots DEF IInv
<1>2. /\ sem \in [InBlocks -> BlockState] /\ hdr \in [InBlocks -> Header]
  BY DEF IInv, TypeOK
<1>3. hdr' = [hdr EXCEPT ![CurBlock].time = binfo.mcnt_start]
  BY DEF MarkFilled, StampBlock
<1>4. /\ hdr' \in [InBlocks -> Header]
      /\ hdr'[CurBlock].time = binfo.mcnt_start
      /\ \A c \in InBlocks : hdr'[c].mcnt = hdr[c].mcnt
      /\ \A c \in InBlocks : c # CurBlock => hdr'[c] = hdr[c]
  BY <1>1, <1>2, <1>3 DEF Header
<1>5. sem' = [sem EXCEPT ![CurBlock] = "filled"]
  BY <1>1 DEF MarkFilled, SetFilled
<1>6. p.mcnt \in Nat /\ p \in [mcnt : Nat, sid : Nat]
  BY DEF Packet
<1>7. (last_filled + 1) % N_INPUT_BLOCKS = binfo.block_i
  BY DEF IInv, FillOrder
<1>8. /\ last_filled' = binfo.block_i /\ pkt' = p /\ pc' = "status"
      /\ UNCHANGED <<data, stored, binfo, netmcnt, status>>
  BY <1>7 DEF MarkFilled
<1>9. TypeOK'
  BY <1>1, <1>2, <1>4, <1>5, <1>6, <1>8 DEF IInv, TypeOK, BlockState, CurBlock
<1>10. NothingMovedAtStart' /\ FillOrder' /\ binfo'.mcnt_start % Nm = 0
  BY <1>8 DEF IInv, NothingMovedAtStart, FillOrder
<1>11. PacketInNextBlock'
  <2>1. Nm <= Dist(p) /\ Dist(p) < 2 * Nm
    <3>1. Dist(p) \in Int
      BY <1>1, <1>6, SMT DEF Dist
    <3> QED
      BY <3>1, CompletesInNext DEF MarkFilled
  <2>2. p.mcnt \in BlockMcnts(binfo.mcnt_start + Nm)
    BY <1>1, <1>6, <2>1, Constants, SMT DEF Dist, BlockMcnts
  <2> QED
    BY <1>8, <2>2 DEF PacketInNextBlock
<1>12. OwnsWindow'
  BY <1>1, <1>2, <1>4, <1>5, <1>8 DEF IInv, OwnsWindow, Holds, IsFree, CurBlock, Ahead
<1>13. StoredUnderHeader' /\ OnePerPlace'
  BY <1>4, <1>8 DEF IInv, StoredUnderHeader, OnePerPlace
<1>14. StampIsOfThisFill'
  <2>1. hdr[CurBlock].mcnt = binfo.mcnt_start
    BY DEF IInv, OwnsWindow, Holds
  <2> QED
    BY <1>1, <1>2, <1>4, <1>5, <2>1 DEF IInv, StampIsOfThisFill, IsFilled
<1> QED
  BY <1>9, <1>10, <1>11, <1>12, <1>13, <1>14 DEF IInv

LEMMA SetFilledFailsIInv ==
    ASSUME IInv, NEW p \in Packet, pc = "recv", SetFilledFails(p)
    PROVE  IInv'
<1>1. CurBlock \in InBlocks /\ block_for_mcnt(binfo.mcnt_start) = CurBlock /\ binfo.mcnt_start \in Nat
  BY WindowSlots DEF IInv
<1>2. sem \in [InBlocks -> BlockState] /\ hdr \in [InBlocks -> Header]
  BY DEF IInv, TypeOK
<1>3. hdr' = [hdr EXCEPT ![CurBlock].time = binfo.mcnt_start]
  BY DEF SetFilledFails, StampBlock
<1>4. /\ hdr' \in [InBlocks -> Header]
      /\ \A c \in InBlocks : hdr'[c].mcnt = hdr[c].mcnt
      /\ \A c \in InBlocks : c # CurBlock => hdr'[c] = hdr[c]
  BY <1>1, <1>2, <1>3 DEF Header
<1>5. (last_filled + 1) % N_INPUT_BLOCKS = CurBlock
  BY DEF IInv, FillOrder, CurBlock
<1>6. last_filled' = CurBlock /\ pc' = "exited" /\ UNCHANGED <<sem, data, stored, binfo, pkt, netmcnt, status>>
  BY <1>5 DEF SetFilledFails
<1>7. TypeOK'
  BY <1>1, <1>4, <1>6 DEF IInv, TypeOK
<1>8. /\ NothingMovedAtStart' /\ PacketInNextBlock' /\ FillOrder' /\ OwnsWindow'
      /\ binfo'.mcnt_start % Nm = 0
  BY <1>6 DEF IInv, NothingMovedAtStart, PacketInNextBlock, FillOrder, OwnsWindow
<1>9. StoredUnderHeader' /\ OnePerPlace'
  BY <1>4, <1>6 DEF IInv, StoredUnderHeader, OnePerPlace
<1>10. StampIsOfThisFill'
  <2>1. sem[CurBlock] = "free"
    BY DEF IInv, OwnsWindow, Holds, IsFree
  <2> QED
    BY <1>1, <1>4, <1>6, <2>1 DEF IInv, StampIsOfThisFill, IsFilled
<1> QED
  BY <1>7, <1>8, <1>9, <1>10 DEF IInv

LEMMA UpdateStatusIInv == ASSUME IInv, UpdateStatus PROVE IInv'
<1>1. /\ CurBlock \in InBlocks /\ Ahead \in InBlocks /\ Ahead # CurBlock
      /\ binfo.mcnt_start \in Nat /\ binfo.mcnt_start + Nm \in Nat
      /\ (binfo.mcnt_start + Nm) % Nm = 0
      /\ block_for_mcnt(binfo.mcnt_start) = CurBlock
      /\ block_for_mcnt(binfo.mcnt_start + Nm) = Ahead
  BY WindowSlots DEF IInv
<1>2. binfo \in BlockInfo
  BY DEF IInv, TypeOK, BlockInfo
<1>3. binfo' = [mcnt_start |-> binfo.mcnt_start + Nm, block_i |-> Ahead,
                out_of_seq_cnt |-> binfo.out_of_seq_cnt, counter |-> binfo.counter]
  BY <1>2 DEF UpdateStatus, Advance, BlockInfo
<1>4. /\ pc = "status" /\ pc' = "acquire"
      /\ UNCHANGED <<sem, hdr, data, stored, last_filled, pkt>>
  BY DEF UpdateStatus
<1>5. status' \in [NETBKOUT : InBlocks, MISSEDBM : Nat, MISSEDPK : 0 .. U32 - 1,
                   NETMCNT : Nat \cup {NoMcnt}]
  <2> DEFINE left == BlockMissed
             total == (status.MISSEDPK + (left % Nm)) % U32
  <2>1. left \in Nat
    <3>1. binfo.counter[CurBlock] \in Nat
      BY <1>1, <1>2 DEF BlockInfo
    <3>2. N_PACKETS_PER_BLOCK \in Nat
      BY Constants, PktsockConstants, ProductIsNat DEF N_PACKETS_PER_BLOCK
    <3> QED
      BY <3>1, <3>2, PktsockConstants, SMT DEF BlockMissed
  <2> HIDE DEF left
  <2>2. left \div Nm \in Nat /\ left % Nm \in Nat
    BY <2>1, DivMod, Constants, SMT
  <2>3. status.MISSEDPK \in Nat
    BY PktsockConstants, SMT DEF IInv, TypeOK
  <2>4. total \in 0 .. U32 - 1
    BY <2>2, <2>3, PktsockConstants, DivMod, SMT
  <2> HIDE DEF total
  <2>5. status' = [status EXCEPT !.NETBKOUT = CurBlock, !.MISSEDBM = left \div Nm,
                                 !.MISSEDPK = total]
    BY <1>1 DEF UpdateStatus, left, total
  <2> QED
    BY <1>1, <2>2, <2>4, <2>5 DEF IInv, TypeOK
<1>6. netmcnt' \in Nat \cup {NoMcnt}
  BY <1>1 DEF UpdateStatus, FilledMcnt
<1>7. TypeOK'
  BY <1>1, <1>2, <1>3, <1>4, <1>5, <1>6 DEF IInv, TypeOK, BlockInfo
<1>8. NothingMovedAtStart' /\ StoredUnderHeader' /\ OnePerPlace' /\ StampIsOfThisFill'
  BY <1>4 DEF IInv, NothingMovedAtStart, StoredUnderHeader, OnePerPlace, StampIsOfThisFill, IsFilled
<1>9. binfo'.mcnt_start % Nm = 0 /\ PacketInNextBlock'
  BY <1>1, <1>3, <1>4 DEF IInv, PacketInNextBlock
<1>10. FillOrder'
  BY <1>1, <1>3, <1>4 DEF IInv, FillOrder, Ahead, CurBlock, NextBlock
<1>11. OwnsWindow'
  <2>1. Holds(Ahead, binfo.mcnt_start + Nm)
    BY <1>4 DEF IInv, OwnsWindow
  <2> QED
    BY <1>3, <1>4, <2>1 DEF OwnsWindow, Holds, IsFree, CurBlock
<1> QED
  BY <1>7, <1>8, <1>9, <1>10, <1>11 DEF IInv

\* AcquireNext writes the header of the block after the current one, and the
\* packet at hand goes to the current one.
LEMMA AcquireNextSlots ==
    ASSUME IInv, pc = "acquire"
    PROVE  /\ pkt.mcnt \in Nat /\ pkt.sid \in Nat /\ pkt.mcnt + Nm \in Nat
           /\ block_for_mcnt(pkt.mcnt) = CurBlock
           /\ block_for_mcnt(pkt.mcnt + Nm) = Ahead
           /\ RoundDown(pkt.mcnt + Nm) = binfo.mcnt_start + Nm
<1>1. pkt.mcnt \in Nat /\ pkt.sid \in Nat
  BY DEF IInv, TypeOK
<1>2. pkt.mcnt \in BlockMcnts(binfo.mcnt_start)
  BY DEF IInv, PacketInNextBlock
<1>3. /\ binfo.mcnt_start \in Nat /\ binfo.mcnt_start % Nm = 0
      /\ binfo.mcnt_start + Nm \in Nat /\ (binfo.mcnt_start + Nm) % Nm = 0
      /\ block_for_mcnt(binfo.mcnt_start) = CurBlock
      /\ block_for_mcnt(binfo.mcnt_start + Nm) = Ahead
  BY WindowSlots DEF IInv
<1>4. pkt.mcnt + Nm \in BlockMcnts(binfo.mcnt_start + Nm) /\ pkt.mcnt + Nm \in Nat
  BY <1>1, <1>2, <1>3, Constants, SMT DEF BlockMcnts
<1> QED
  BY <1>1, <1>2, <1>3, <1>4, BlockMcntsSlot

\* AcquireNext resets the count of the block it acquires and counts the packet
\* at hand.
LEMMA AcquireNextInfo ==
    ASSUME IInv, AcquireNext
    PROVE  /\ binfo' \in BlockInfo
           /\ binfo'.mcnt_start = binfo.mcnt_start /\ binfo'.block_i = binfo.block_i
           /\ binfo'.counter[CurBlock] = binfo.counter[CurBlock] + 1
           /\ binfo'.counter[Ahead] = 0
<1> DEFINE bi == [binfo EXCEPT !.counter[Ahead] = 0]
<1>1. binfo \in BlockInfo /\ pkt \in Packet
  BY DEF IInv, TypeOK, BlockInfo, Packet
<1>2. CurBlock \in InBlocks /\ Ahead \in InBlocks /\ Ahead # CurBlock
  BY WindowSlots DEF IInv
<1>3. block_for_mcnt(pkt.mcnt) = CurBlock
  BY AcquireNextSlots DEF AcquireNext
<1>4. bi = [mcnt_start |-> binfo.mcnt_start, block_i |-> binfo.block_i,
            out_of_seq_cnt |-> binfo.out_of_seq_cnt,
            counter |-> [binfo.counter EXCEPT ![Ahead] = 0]]
  BY <1>1 DEF BlockInfo
<1>5. [binfo.counter EXCEPT ![Ahead] = 0] \in [InBlocks -> Nat]
  BY <1>1, <1>2 DEF BlockInfo
<1>6. binfo.mcnt_start \in Nat /\ binfo.block_i \in InBlocks /\ binfo.out_of_seq_cnt \in Nat
  BY <1>1 DEF BlockInfo
<1>7. /\ bi \in BlockInfo
      /\ bi.mcnt_start = binfo.mcnt_start /\ bi.block_i = binfo.block_i
      /\ bi.counter[Ahead] = 0 /\ bi.counter[CurBlock] = binfo.counter[CurBlock]
  BY <1>1, <1>2, <1>4, <1>5, <1>6 DEF BlockInfo
<1>8. binfo' = CountPacket(bi, pkt)
  BY DEF AcquireNext, CountersReset
<1> HIDE DEF bi
<1> QED
  BY <1>1, <1>2, <1>3, <1>7, <1>8, CountPacketIs

LEMMA AcquireNextIInv == ASSUME IInv, AcquireNext PROVE IInv'
<1> DEFINE h == InitializeBlock(hdr, pkt.mcnt + Nm, pkt.sid)
           s == NoneStored(stored, pkt.mcnt + Nm)
<1>1. /\ CurBlock \in InBlocks /\ Ahead \in InBlocks /\ Ahead # CurBlock
      /\ binfo.mcnt_start \in Nat
  BY WindowSlots DEF IInv
<1>2. /\ pc = "acquire" /\ pc' = "return" /\ IsFree(sem, Ahead)
      /\ UNCHANGED <<sem, last_filled, pkt, status>>
  BY DEF AcquireNext, NewBlockReady
<1>3. /\ pkt.mcnt \in Nat /\ pkt.sid \in Nat /\ pkt.mcnt + Nm \in Nat
      /\ block_for_mcnt(pkt.mcnt) = CurBlock
      /\ block_for_mcnt(pkt.mcnt + Nm) = Ahead
      /\ RoundDown(pkt.mcnt + Nm) = binfo.mcnt_start + Nm
  BY <1>2, AcquireNextSlots
<1>4. /\ pkt \in Packet /\ hdr \in [InBlocks -> Header]
      /\ stored \in [InBlocks -> SUBSET Nat] /\ binfo \in BlockInfo
  BY DEF IInv, TypeOK, BlockInfo, Packet
<1>5. /\ h \in [InBlocks -> Header]
      /\ h[Ahead].mcnt = binfo.mcnt_start + Nm
      /\ \A c \in InBlocks : h[c].time = hdr[c].time
      /\ \A c \in InBlocks : c # Ahead => h[c] = hdr[c]
  BY <1>3, <1>4, InitializeBlockIs
<1>6. /\ s \in [InBlocks -> SUBSET Nat] /\ s[Ahead] = {}
      /\ \A c \in InBlocks : c # Ahead => s[c] = stored[c]
  BY <1>3, <1>4, NoneStoredIs
<1>7. hdr' = DecrementMissed(h, pkt) /\ stored' = NoteStored(s, pkt)
  BY DEF AcquireNext
<1> HIDE DEF h, s
<1>8. /\ hdr' \in [InBlocks -> Header]
      /\ \A c \in InBlocks : hdr'[c].mcnt = h[c].mcnt /\ hdr'[c].time = h[c].time
  BY <1>4, <1>5, <1>7, DecrementMissedIs
<1>9. /\ stored' \in [InBlocks -> SUBSET Nat]
      /\ stored'[CurBlock] \subseteq s[CurBlock] \cup {pkt.mcnt}
      /\ \A c \in InBlocks : c # CurBlock => stored'[c] = s[c]
  <2>1. /\ block_for_mcnt(pkt.mcnt) = CurBlock /\ s \in [InBlocks -> SUBSET Nat]
        /\ pkt \in Packet /\ stored' = NoteStored(s, pkt)
    BY <1>3, <1>4, <1>6, <1>7
  <2> QED
    BY <2>1, NoteStoredIs
<1>10. /\ binfo' \in BlockInfo
       /\ binfo'.mcnt_start = binfo.mcnt_start /\ binfo'.block_i = binfo.block_i
  BY AcquireNextInfo
<1>11. TypeOK'
  <2>1. netmcnt' \in Nat \cup {NoMcnt}
    BY DEF IInv, TypeOK, AcquireNext
  <2>2. data' \in [InBlocks -> SUBSET Nat]
    BY <1>4, CopyPayloadIs DEF AcquireNext, IInv, TypeOK
  <2> QED
    BY <1>2, <1>8, <1>9, <1>10, <2>1, <2>2 DEF IInv, TypeOK, BlockInfo
<1>12. /\ NothingMovedAtStart' /\ PacketInNextBlock' /\ FillOrder' /\ StampIsOfThisFill'
       /\ binfo'.mcnt_start % Nm = 0
  <2>1. \A c \in InBlocks : IsFilled(sem, c) => hdr'[c].mcnt = hdr[c].mcnt /\ hdr'[c].time = hdr[c].time
    BY <1>2, <1>5, <1>8 DEF IsFilled, IsFree
  <2> QED
    BY <1>2, <1>10, <2>1 DEF IInv, NothingMovedAtStart, PacketInNextBlock, FillOrder,
                             StampIsOfThisFill, IsFilled
<1>13. OwnsWindow'
  <2>1. CurBlock' = CurBlock /\ Ahead' = Ahead
    BY <1>10 DEF CurBlock, Ahead
  <2>2. Holds(CurBlock, binfo.mcnt_start)
    BY <1>2 DEF IInv, OwnsWindow
  <2> QED
    BY <1>1, <1>2, <1>5, <1>8, <1>10, <2>1, <2>2 DEF OwnsWindow, Holds, IsFree
<1>14. StoredUnderHeader'
  <2>1. /\ pkt.mcnt \in BlockMcnts(binfo.mcnt_start) /\ binfo.mcnt_start % Nm = 0
        /\ hdr[CurBlock].mcnt = binfo.mcnt_start
    BY <1>2 DEF IInv, OwnsWindow, Holds, PacketInNextBlock
  <2>2. /\ data \in [InBlocks -> SUBSET Nat]
        /\ \A c \in InBlocks : stored[c] \subseteq data[c] \cap BlockMcnts(hdr[c].mcnt)
    BY DEF IInv, TypeOK, StoredUnderHeader
  <2>3. stored'[Ahead] = {}
    BY <1>1, <1>6, <1>9
  <2>4. data' = CopyPayload(data, pkt)
    BY DEF AcquireNext
  <2>5. stored'[CurBlock] \subseteq data'[CurBlock] \cap BlockMcnts(binfo.mcnt_start)
    <3>1. s[CurBlock] \subseteq data[CurBlock] \cap BlockMcnts(binfo.mcnt_start)
      BY <1>1, <1>6, <2>1, <2>2
    <3> QED
      BY <1>1, <1>3, <1>4, <1>6, <1>7, <2>1, <2>2, <2>4, <3>1, CopyKeepsStored
  <2>6. \A c \in InBlocks : c # CurBlock => data'[c] = data[c]
    BY <1>3, <1>4, <2>2, <2>4, CopyPayloadIs
  <2>7. \A c \in InBlocks : c \notin {CurBlock, Ahead} =>
            stored'[c] \subseteq data'[c] \cap BlockMcnts(hdr'[c].mcnt)
    BY <1>5, <1>6, <1>8, <1>9, <2>2, <2>6
  <2> QED
    BY <1>1, <1>5, <1>8, <2>1, <2>3, <2>5, <2>7 DEF StoredUnderHeader
<1>15. OnePerPlace'
  BY <1>4, CopyKeepsPlaces DEF AcquireNext
<1> QED
  BY <1>11, <1>12, <1>13, <1>14, <1>15 DEF IInv
-----------------------------------------------------------------------------
\* Writing the headers of two successive blocks, as Start and Resync do.
LEMMA InitializeTwoBlocks ==
    ASSUME NEW h \in [InBlocks -> Header], NEW s \in [InBlocks -> SUBSET Nat],
           NEW m \in Nat, m % Nm = 0, NEW sid \in Nat,
           NEW h2, h2 = InitializeBlock(InitializeBlock(h, m, sid), m + Nm, sid),
           NEW s2, s2 = NoneStored(NoneStored(s, m), m + Nm)
    PROVE  /\ h2 \in [InBlocks -> Header] /\ s2 \in [InBlocks -> SUBSET Nat]
           /\ h2[block_for_mcnt(m)].mcnt = m
           /\ h2[block_for_mcnt(m + Nm)].mcnt = m + Nm
           /\ h2[block_for_mcnt(m)].missed_pkts = Nm
           /\ h2[block_for_mcnt(m + Nm)].missed_pkts = Nm
           /\ s2[block_for_mcnt(m)] = {} /\ s2[block_for_mcnt(m + Nm)] = {}
           /\ \A c \in InBlocks : h2[c].time = h[c].time
           /\ \A c \in InBlocks \ {block_for_mcnt(m), block_for_mcnt(m + Nm)} :
                  h2[c] = h[c] /\ s2[c] = s[c]
<1> DEFINE b == block_for_mcnt(m)
           n == block_for_mcnt(m + Nm)
           h1 == InitializeBlock(h, m, sid)
           s1 == NoneStored(s, m)
<1>1. m + Nm \in Nat /\ (m + Nm) % Nm = 0
  <2>1. m + Nm \in Nat
    BY Constants, SMT
  <2> QED
    BY <2>1, NextSlot
<1>2. m \in BlockMcnts(m) /\ m + Nm \in BlockMcnts(m + Nm)
  BY <1>1, Constants, SMT DEF BlockMcnts
<1>3. RoundDown(m) = m /\ RoundDown(m + Nm) = m + Nm
  BY <1>1, <1>2, BlockMcntsSlot
<1>4. b \in InBlocks /\ n \in InBlocks /\ n # b
  <2>1. b \in InBlocks /\ n = NextBlock(b, N_INPUT_BLOCKS)
    BY SlotIsBlock, NextSlot DEF NextBlock
  <2> QED
    BY <2>1, NextIsBlock
<1>5. /\ h1 \in [InBlocks -> Header] /\ h1[b].mcnt = m /\ h1[b].missed_pkts = Nm
      /\ \A c \in InBlocks : h1[c].time = h[c].time
      /\ \A c \in InBlocks : c # b => h1[c] = h[c]
  BY <1>3, InitializeBlockIs
<1>6. /\ s1 \in [InBlocks -> SUBSET Nat] /\ s1[b] = {}
      /\ \A c \in InBlocks : c # b => s1[c] = s[c]
  BY NoneStoredIs
<1>7. h2 = InitializeBlock(h1, m + Nm, sid) /\ s2 = NoneStored(s1, m + Nm)
  OBVIOUS
<1> HIDE DEF h1, s1
<1>8. /\ h2 \in [InBlocks -> Header] /\ h2[n].mcnt = m + Nm /\ h2[n].missed_pkts = Nm
      /\ \A c \in InBlocks : h2[c].time = h1[c].time
      /\ \A c \in InBlocks : c # n => h2[c] = h1[c]
  BY <1>1, <1>3, <1>5, <1>7, InitializeBlockIs
<1>9. /\ s2 \in [InBlocks -> SUBSET Nat] /\ s2[n] = {}
      /\ \A c \in InBlocks : c # n => s2[c] = s1[c]
  BY <1>1, <1>6, <1>7, NoneStoredIs
<1> QED
  BY <1>4, <1>5, <1>6, <1>8, <1>9

\* The two blocks a resynchronisation recycles are those of the window.
LEMMA ResyncSlots ==
    ASSUME IInv, NEW p \in Packet, NEW start, start = ResetMcnt(p.mcnt, binfo.block_i)
    PROVE  /\ start \in Nat /\ start % Nm = 0
           /\ start - p.mcnt \in 1 - Nm .. Nm * (N_INPUT_BLOCKS - 1)
           /\ block_for_mcnt(start) = CurBlock /\ block_for_mcnt(start + Nm) = Ahead
<1>1. p.mcnt \in Nat
  BY DEF Packet
<1>2. binfo.block_i \in 0 .. N_INPUT_BLOCKS - 1
  BY DEF IInv, TypeOK, InBlocks, BlockIds
<1>3. /\ start \in Nat /\ start % Nm = 0
      /\ block_for_mcnt(start) = binfo.block_i
      /\ start - p.mcnt \in 1 - Nm .. Nm * (N_INPUT_BLOCKS - 1)
  BY <1>1, <1>2, ResetKeepsSlot
<1>4. block_for_mcnt(start + Nm) = (block_for_mcnt(start) + 1) % N_INPUT_BLOCKS
  BY <1>3, NextSlot
<1> QED
  BY <1>3, <1>4 DEF CurBlock, Ahead, NextBlock

LEMMA ResyncIInv ==
    ASSUME IInv, NEW p \in Packet, pc = "recv", Resync(p)
    PROVE  IInv'
<1> DEFINE start == ResetMcnt(p.mcnt, binfo.block_i)
<1>1. /\ start \in Nat /\ start % Nm = 0
      /\ block_for_mcnt(start) = CurBlock /\ block_for_mcnt(start + Nm) = Ahead
  BY ResyncSlots
<1>2. /\ CurBlock \in InBlocks /\ Ahead \in InBlocks /\ Ahead # CurBlock
  BY WindowSlots DEF IInv
<1>3. /\ p \in Packet /\ hdr \in [InBlocks -> Header]
      /\ stored \in [InBlocks -> SUBSET Nat] /\ binfo \in BlockInfo
  BY DEF IInv, TypeOK, BlockInfo
<1>4. /\ binfo' = [mcnt_start |-> start, block_i |-> CurBlock,
                   out_of_seq_cnt |-> binfo.out_of_seq_cnt + 1,
                   counter |-> [binfo.counter EXCEPT ![CurBlock] = 0, ![Ahead] = 0]]
      /\ hdr' = InitializeBlock(InitializeBlock(hdr, start, p.sid), start + Nm, p.sid)
      /\ stored' = NoneStored(NoneStored(stored, start), start + Nm)
      /\ UNCHANGED <<sem, data, last_filled, pc, pkt, netmcnt, status>>
  BY <1>1 DEF Resync, CurBlock, Ahead
<1> HIDE DEF start
<1>5. p.sid \in Nat
  BY DEF Packet
<1>6. /\ hdr' \in [InBlocks -> Header] /\ stored' \in [InBlocks -> SUBSET Nat]
      /\ hdr'[CurBlock].mcnt = start /\ hdr'[Ahead].mcnt = start + Nm
      /\ stored'[CurBlock] = {} /\ stored'[Ahead] = {}
      /\ \A c \in InBlocks : hdr'[c].time = hdr[c].time
      /\ \A c \in InBlocks \ {CurBlock, Ahead} : hdr'[c] = hdr[c] /\ stored'[c] = stored[c]
  BY <1>1, <1>3, <1>4, <1>5, InitializeTwoBlocks
<1>7. /\ binfo' \in BlockInfo
      /\ binfo'.mcnt_start = start /\ binfo'.block_i = CurBlock
  <2>1. [binfo.counter EXCEPT ![CurBlock] = 0, ![Ahead] = 0] \in [InBlocks -> Nat]
    BY <1>2, <1>3 DEF BlockInfo
  <2>2. binfo.out_of_seq_cnt + 1 \in Nat
    BY <1>3, SMT DEF BlockInfo
  <2> QED
    BY <1>1, <1>2, <1>4, <2>1, <2>2 DEF BlockInfo
<1>8. IsFree(sem, CurBlock) /\ IsFree(sem, Ahead)
  BY DEF IInv, OwnsWindow, Holds
<1>9. CurBlock' = CurBlock /\ Ahead' = Ahead
  BY <1>7 DEF CurBlock, Ahead
<1>10. TypeOK'
  BY <1>4, <1>6, <1>7 DEF IInv, TypeOK, BlockInfo
<1>11. NothingMovedAtStart' /\ PacketInNextBlock' /\ binfo'.mcnt_start % Nm = 0
  BY <1>1, <1>4, <1>7 DEF IInv, NothingMovedAtStart, PacketInNextBlock
<1>12. FillOrder'
  BY <1>1, <1>4, <1>7 DEF IInv, FillOrder, CurBlock
<1>13. OwnsWindow'
  BY <1>4, <1>6, <1>7, <1>8, <1>9 DEF OwnsWindow, Holds, IsFree
<1>14. StampIsOfThisFill'
  <2>1. \A c \in InBlocks : IsFilled(sem, c) => c \notin {CurBlock, Ahead}
    BY <1>8 DEF IsFree, IsFilled
  <2> QED
    BY <1>4, <1>6, <2>1 DEF IInv, StampIsOfThisFill, IsFilled
<1>15. StoredUnderHeader' /\ OnePerPlace'
  BY <1>4, <1>6 DEF IInv, StoredUnderHeader, OnePerPlace
<1> QED
  BY <1>10, <1>11, <1>12, <1>13, <1>14, <1>15 DEF IInv

\* Start writes the headers of blocks 0 and 1.
LEMMA StartSlots ==
    /\ 0 % Nm = 0 /\ block_for_mcnt(0) = 0 /\ block_for_mcnt(0 + Nm) = 1
    /\ 0 \in InBlocks /\ 1 \in InBlocks
<1>1. 0 % Nm = 0 /\ 0 \div Nm = 0 /\ 0 % N_INPUT_BLOCKS = 0 /\ (0 + 1) % N_INPUT_BLOCKS = 1
  BY Constants, SMT
<1>2. block_for_mcnt(0) = 0
  BY <1>1 DEF block_for_mcnt
<1>3. block_for_mcnt(0 + Nm) = (block_for_mcnt(0) + 1) % N_INPUT_BLOCKS
  BY NextSlot
<1> QED
  BY <1>1, <1>2, <1>3, Constants, SMT DEF InBlocks, BlockIds

LEMMA StartIInv == ASSUME IInv, Start PROVE IInv'
<1>1. 0 + Nm = Nm
  BY Constants, SMT
<1>2. /\ hdr \in [InBlocks -> Header] /\ stored \in [InBlocks -> SUBSET Nat]
      /\ \A b \in InBlocks : stored[b] = {}
      /\ binfo.mcnt_start = 0 /\ binfo.block_i = 0
  BY DEF IInv, TypeOK, NothingMovedAtStart, Start
<1>3. hdr' = InitializeBlock(InitializeBlock(hdr, 0, 0), 0 + Nm, 0)
  BY <1>1 DEF Start
<1>4. /\ hdr' \in [InBlocks -> Header]
      /\ hdr'[0].mcnt = 0 /\ hdr'[1].mcnt = Nm
      /\ \A c \in InBlocks : hdr'[c].time = hdr[c].time
      /\ \A c \in InBlocks \ {0, 1} : hdr'[c] = hdr[c]
  <2> DEFINE s2 == NoneStored(NoneStored(stored, 0), 0 + Nm)
  <2>1. s2 = NoneStored(NoneStored(stored, 0), 0 + Nm)
    OBVIOUS
  <2> HIDE DEF s2
  <2> QED
    BY <1>1, <1>2, <1>3, <2>1, StartSlots, InitializeTwoBlocks
<1>5. /\ pc' = "recv" /\ IsFree(sem, 0) /\ IsFree(sem, 1) /\ pc = "start"
      /\ UNCHANGED <<sem, data, stored, binfo, last_filled, pkt, netmcnt>>
  BY DEF Start
<1>6. CurBlock = 0 /\ Ahead = 1 /\ CurBlock' = 0 /\ Ahead' = 1
  <2>1. NextBlock(0, N_INPUT_BLOCKS) = 1
    BY Constants, SMT DEF NextBlock
  <2> QED
    BY <1>2, <1>5, <2>1 DEF CurBlock, Ahead
<1>7. TypeOK'
  <2>1. status' \in [NETBKOUT : InBlocks, MISSEDBM : Nat, MISSEDPK : 0 .. U32 - 1,
                     NETMCNT : Nat \cup {NoMcnt}]
    <3>1. 0 \in 0 .. U32 - 1
      BY PktsockConstants, SMT
    <3> QED
      BY <3>1 DEF IInv, TypeOK, Start
  <2> QED
    BY <1>4, <1>5, <2>1 DEF IInv, TypeOK
<1>8. /\ NothingMovedAtStart' /\ PacketInNextBlock' /\ FillOrder' /\ binfo'.mcnt_start % Nm = 0
  BY <1>5 DEF IInv, NothingMovedAtStart, PacketInNextBlock, FillOrder
<1>9. OwnsWindow'
  BY <1>1, <1>2, <1>4, <1>5, <1>6 DEF OwnsWindow, Holds, IsFree
<1>10. StoredUnderHeader' /\ OnePerPlace'
  BY <1>2, <1>5 DEF IInv, StoredUnderHeader, OnePerPlace
<1>11. StampIsOfThisFill'
  <2>1. \A c \in InBlocks : IsFilled(sem, c) => c \notin {0, 1}
    BY <1>5 DEF IsFree, IsFilled
  <2> QED
    BY <1>4, <1>5, <2>1 DEF IInv, StampIsOfThisFill, IsFilled
<1> QED
  BY <1>7, <1>8, <1>9, <1>10, <1>11 DEF IInv

LEMMA OtherStepsIInv ==
    ASSUME IInv,
           \/ WaitFails \/ Stop
           \/ Return
           \/ \E b \in InBlocks : Drain(b)
           \/ \E p \in Packet : pc = "recv" /\ CountOutOfSeq(p)
    PROVE  IInv'
<1>1. CASE WaitFails \/ Stop
  <2>1. pc' = "exited" /\ UNCHANGED <<sem, hdr, data, stored, binfo, last_filled, pkt, netmcnt, status>>
    BY <1>1 DEF WaitFails, Stop
  <2>2. pc # "status"
    BY <1>1 DEF WaitFails, Stop
  <2> QED
    BY <2>1, <2>2 DEF IInv, TypeOK, NothingMovedAtStart, PacketInNextBlock, FillOrder, OwnsWindow,
                      StoredUnderHeader, OnePerPlace, StampIsOfThisFill, IsFilled
<1>2. CASE Return
  <2>1. /\ pc = "return" /\ pc' = "recv" /\ netmcnt' = NoMcnt /\ pkt' = NoPacket
        /\ UNCHANGED <<sem, hdr, data, stored, binfo, last_filled>>
        /\ status' = IF netmcnt = NoMcnt THEN status ELSE [status EXCEPT !.NETMCNT = netmcnt]
    BY <1>2 DEF Return
  <2>2. status' \in [NETBKOUT : InBlocks, MISSEDBM : Nat, MISSEDPK : 0 .. U32 - 1,
                     NETMCNT : Nat \cup {NoMcnt}]
    BY <2>1 DEF IInv, TypeOK
  <2>3. TypeOK'
    BY <2>1, <2>2 DEF IInv, TypeOK, NoPacket
  <2> QED
    BY <2>1, <2>3 DEF IInv, NothingMovedAtStart, PacketInNextBlock, FillOrder, OwnsWindow,
                      StoredUnderHeader, OnePerPlace, StampIsOfThisFill, Holds, CurBlock, Ahead,
                      IsFree, IsFilled
<1>3. ASSUME NEW b \in InBlocks, Drain(b) PROVE IInv'
  <2>1. /\ sem' = [sem EXCEPT ![b] = "free"]
        /\ UNCHANGED <<hdr, data, stored, binfo, last_filled, pc, pkt, netmcnt, status>>
    BY <1>3 DEF Drain, SetFree
  <2>2. sem \in [InBlocks -> BlockState]
    BY DEF IInv, TypeOK
  <2>3. sem' \in [InBlocks -> BlockState]
    BY <2>1, <2>2 DEF BlockState
  <2>4. TypeOK'
    BY <2>1, <2>3 DEF IInv, TypeOK
  <2>5. /\ \A c \in InBlocks : sem[c] = "free" => sem'[c] = "free"
        /\ \A c \in InBlocks : sem'[c] = "filled" => sem[c] = "filled"
    BY <2>1, <2>2
  <2>6. CurBlock \in InBlocks /\ Ahead \in InBlocks /\ CurBlock' = CurBlock /\ Ahead' = Ahead
    BY <2>1, WindowSlots DEF IInv, CurBlock, Ahead
  <2>7. OwnsWindow'
    BY <2>1, <2>5, <2>6 DEF IInv, OwnsWindow, Holds, IsFree
  <2> QED
    BY <2>1, <2>4, <2>5, <2>7 DEF IInv, NothingMovedAtStart, PacketInNextBlock, FillOrder,
                                  StoredUnderHeader, OnePerPlace, StampIsOfThisFill, IsFilled
<1>4. ASSUME NEW p \in Packet, pc = "recv", CountOutOfSeq(p) PROVE IInv'
  <2>1. /\ binfo' = [binfo EXCEPT !.out_of_seq_cnt = @ + 1]
        /\ UNCHANGED <<sem, hdr, data, stored, last_filled, pc, pkt, netmcnt, status>>
    BY <1>4 DEF CountOutOfSeq
  <2>2. binfo \in BlockInfo
    BY DEF IInv, TypeOK, BlockInfo
  <2>3. binfo' \in BlockInfo /\ binfo'.mcnt_start = binfo.mcnt_start /\ binfo'.block_i = binfo.block_i
    BY <2>1, <2>2 DEF BlockInfo
  <2>4. TypeOK'
    BY <2>1, <2>3 DEF IInv, TypeOK, BlockInfo
  <2> QED
    BY <2>1, <2>3, <2>4 DEF IInv, NothingMovedAtStart, PacketInNextBlock, FillOrder, OwnsWindow,
                      StoredUnderHeader, OnePerPlace, StampIsOfThisFill, Holds, CurBlock, Ahead,
                      IsFree, IsFilled
<1> QED
  BY <1>1, <1>2, <1>3, <1>4

LEMMA AnyStepIInv == ASSUME IInv, [AnyNext]_vars PROVE IInv'
<1>1. ASSUME NEW p \in Packet, Receive(p) PROVE IInv'
  <2>1. pc = "recv"
    BY <1>1 DEF Receive
  <2>2. CASE StorePacket(p)
    BY <2>1, <2>2, StorePacketIInv
  <2>3. CASE MarkFilled(p)
    BY <2>1, <2>3, MarkFilledIInv
  <2>4. CASE IgnoreLate(p)
    BY <2>4, StutterIInv DEF IgnoreLate
  <2>7. CASE SetFilledFails(p)
    BY <2>1, <2>7, SetFilledFailsIInv
  <2>5. CASE CountOutOfSeq(p)
    BY <2>1, <2>5, OtherStepsIInv
  <2>6. CASE Resync(p)
    BY <2>1, <2>6, ResyncIInv
  <2> QED
    BY <1>1, <2>2, <2>3, <2>4, <2>5, <2>6, <2>7 DEF Receive
<1>2. CASE ThreadStep
  <2>1. CASE SkipFrame \/ Exited
    BY <2>1, StutterIInv DEF SkipFrame, Exited
  <2> QED
    BY <1>2, <2>1, StartIInv, UpdateStatusIInv, AcquireNextIInv, OtherStepsIInv DEF ThreadStep
<1>3. CASE \E b \in InBlocks : Drain(b)
  BY <1>3, OtherStepsIInv
<1>4. CASE UNCHANGED vars
  BY <1>4, StutterIInv
<1> QED
  BY <1>1, <1>2, <1>3, <1>4 DEF AnyNext

LEMMA StepIInv == IInv /\ [Next]_vars => IInv'
  BY AnyStepIInv, NextIsAnyNext

(***************************************************************************)
(* The inductive invariant holds of every behaviour.                       *)
(***************************************************************************)
THEOREM Invariance == Spec => []IInv
<1> QED
  BY InitIInv, StepIInv, PTL DEF Spec

(***************************************************************************)
(* The state of the thread, of the ring headers and of the status buffer   *)
(* stays well-typed: block numbers in the ring, unsigned counters in their *)
(* width.                                                                  *)
(***************************************************************************)
THEOREM TypeCorrect == Spec => []TypeOK
<1>1. IInv => TypeOK
  BY DEF IInv
<1> QED
  BY <1>1, Invariance, PTL

(***************************************************************************)
(* set_block_filled fills the slots round the ring, in order, whatever the *)
(* network delivers: its two consistency checks never fire.                *)
(***************************************************************************)
THEOREM FillsInOrder == Spec => []FillOrder
<1>1. IInv => FillOrder
  BY DEF IInv
<1> QED
  BY <1>1, Invariance, PTL

(***************************************************************************)
(* The thread holds the two blocks that process_packet writes into, under  *)
(* the headers of the window.                                              *)
(***************************************************************************)
THEOREM HoldsItsWindow == Spec => []OwnsWindow
<1>1. IInv => OwnsWindow
  BY DEF IInv
<1> QED
  BY <1>1, Invariance, PTL

(***************************************************************************)
(* No packet is stored under the header of another block, and a filled     *)
(* block carries the time of its own completion.                           *)
(***************************************************************************)
THEOREM BlocksAreConsistent == Spec => [](StoredUnderHeader /\ StampIsOfThisFill)
<1>1. IInv => StoredUnderHeader /\ StampIsOfThisFill
  BY DEF IInv
<1> QED
  BY <1>1, Invariance, PTL
-----------------------------------------------------------------------------
LEMMA AnyStepFreezes == ASSUME IInv, AnyNext PROVE LeavesFilledBlocks
<1>1. /\ hdr \in [InBlocks -> Header]
      /\ data \in [InBlocks -> SUBSET Nat] /\ stored \in [InBlocks -> SUBSET Nat]
      /\ CurBlock \in InBlocks /\ Ahead \in InBlocks
  BY WindowSlots DEF IInv, TypeOK
<1>2. ASSUME NEW p \in Packet, Receive(p) PROVE LeavesFilledBlocks
  <2>1. pc = "recv"
    BY <1>2 DEF Receive
  <2>2. sem[CurBlock] = "free" /\ sem[Ahead] = "free"
    BY <2>1 DEF IInv, OwnsWindow, Holds, IsFree
  <2>3. CASE StorePacket(p)
    <3>1. block_for_mcnt(p.mcnt) \in {CurBlock, Ahead}
      BY <2>3, PacketSlot DEF StorePacket, IInv
    <3>2. /\ hdr' = DecrementMissed(hdr, p)
          /\ data' = CopyPayload(data, p) /\ stored' = NoteStored(stored, p)
      BY <2>3 DEF StorePacket
    <3>3. \A c \in InBlocks \ {CurBlock, Ahead} :
              hdr'[c] = hdr[c] /\ data'[c] = data[c] /\ stored'[c] = stored[c]
      BY <1>1, <2>1, <3>1, <3>2, DecrementMissedIs, CopyPayloadIs, NoteStoredIs
    <3> QED
      BY <2>2, <3>3 DEF LeavesFilledBlocks, IsFilled
  <2>4. CASE MarkFilled(p) \/ SetFilledFails(p)
    <3>1. hdr' = [hdr EXCEPT ![CurBlock].time = binfo.mcnt_start] /\ UNCHANGED <<data, stored>>
      BY <2>4 DEF MarkFilled, SetFilledFails, StampBlock
    <3> QED
      BY <1>1, <2>2, <3>1 DEF LeavesFilledBlocks, IsFilled
  <2>5. CASE IgnoreLate(p) \/ CountOutOfSeq(p)
    BY <2>5 DEF IgnoreLate, CountOutOfSeq, vars, LeavesFilledBlocks
  <2>6. CASE Resync(p)
    <3> DEFINE start == ResetMcnt(p.mcnt, binfo.block_i)
    <3>1. /\ start \in Nat /\ start % Nm = 0
          /\ block_for_mcnt(start) = CurBlock /\ block_for_mcnt(start + Nm) = Ahead
      BY ResyncSlots
    <3>2. /\ hdr' = InitializeBlock(InitializeBlock(hdr, start, p.sid), start + Nm, p.sid)
          /\ stored' = NoneStored(NoneStored(stored, start), start + Nm) /\ data' = data
      BY <2>6 DEF Resync
    <3> HIDE DEF start
    <3>3. p.sid \in Nat
      BY DEF Packet
    <3>4. \A c \in InBlocks \ {CurBlock, Ahead} : hdr'[c] = hdr[c] /\ stored'[c] = stored[c]
      BY <1>1, <3>1, <3>2, <3>3, InitializeTwoBlocks
    <3> QED
      BY <2>2, <3>2, <3>4 DEF LeavesFilledBlocks, IsFilled
  <2> QED
    BY <1>2, <2>3, <2>4, <2>5, <2>6 DEF Receive
<1>3. CASE Start
  <2>1. /\ hdr' = InitializeBlock(InitializeBlock(hdr, 0, 0), 0 + Nm, 0)
        /\ UNCHANGED <<data, stored>>
        /\ sem[0] = "free" /\ sem[1] = "free"
    <3>1. 0 + Nm = Nm
      BY Constants, SMT
    <3> QED
      BY <1>3, <3>1 DEF Start, IsFree
  <2>2. \A c \in InBlocks \ {0, 1} : hdr'[c] = hdr[c]
    <3> DEFINE s2 == NoneStored(NoneStored(stored, 0), 0 + Nm)
    <3>1. s2 = NoneStored(NoneStored(stored, 0), 0 + Nm)
      OBVIOUS
    <3> HIDE DEF s2
    <3> QED
      BY <1>1, <2>1, <3>1, StartSlots, InitializeTwoBlocks
  <2> QED
    BY <2>1, <2>2 DEF LeavesFilledBlocks, IsFilled
<1>4. CASE AcquireNext
  <2> DEFINE h == InitializeBlock(hdr, pkt.mcnt + Nm, pkt.sid)
             s == NoneStored(stored, pkt.mcnt + Nm)
  <2>1. /\ pc = "acquire" /\ sem[Ahead] = "free"
        /\ hdr' = DecrementMissed(h, pkt)
        /\ data' = CopyPayload(data, pkt) /\ stored' = NoteStored(s, pkt)
    BY <1>4 DEF AcquireNext, NewBlockReady, IsFree
  <2>2. sem[CurBlock] = "free"
    BY <2>1 DEF IInv, OwnsWindow, Holds, IsFree
  <2>3. /\ pkt.mcnt \in Nat /\ pkt.sid \in Nat /\ pkt.mcnt + Nm \in Nat
        /\ block_for_mcnt(pkt.mcnt) = CurBlock
        /\ block_for_mcnt(pkt.mcnt + Nm) = Ahead
        /\ pkt \in Packet
    BY <2>1, AcquireNextSlots DEF IInv, TypeOK, Packet
  <2>4. /\ h \in [InBlocks -> Header] /\ s \in [InBlocks -> SUBSET Nat]
        /\ \A c \in InBlocks : c # Ahead => h[c] = hdr[c] /\ s[c] = stored[c]
    BY <1>1, <2>3, InitializeBlockIs, NoneStoredIs
  <2> HIDE DEF h, s
  <2>5. \A c \in InBlocks : c # CurBlock =>
            hdr'[c] = h[c] /\ data'[c] = data[c] /\ stored'[c] = s[c]
    BY <1>1, <2>1, <2>3, <2>4, DecrementMissedIs, CopyPayloadIs, NoteStoredIs
  <2> QED
    BY <2>1, <2>2, <2>4, <2>5 DEF LeavesFilledBlocks, IsFilled
<1>5. CASE SkipFrame \/ UpdateStatus \/ WaitFails \/ Stop \/ Exited \/ Return
  BY <1>5 DEF SkipFrame, UpdateStatus, WaitFails, Stop, Exited, Return, vars, LeavesFilledBlocks
<1>6. CASE \E b \in InBlocks : Drain(b)
  BY <1>6 DEF Drain, LeavesFilledBlocks
<1> QED
  BY <1>2, <1>3, <1>4, <1>5, <1>6 DEF AnyNext, ThreadStep

LEMMA StepFreezes == IInv /\ [Next]_vars => [LeavesFilledBlocks]_vars
  BY AnyStepFreezes, NextIsAnyNext DEF LeavesFilledBlocks, vars

(***************************************************************************)
(* The thread never touches a block that the consumer may be reading.      *)
(***************************************************************************)
THEOREM FilledIsFrozen == Spec => FilledBlockFrozen
<1> QED
  BY Invariance, StepFreezes, PTL DEF Spec, FilledBlockFrozen

(***************************************************************************)
(* Every resynchronisation lands on the nearest block start that keeps the *)
(* ring slot: less than a block behind its packet, less than a ring ahead. *)
(***************************************************************************)
THEOREM ResyncLandsNear == Spec => ResyncIsNearest
<1>1. IInv /\ [Next]_vars => [\A p \in Packets : Resync(p) => LandsNear(p)]_vars
  <2> SUFFICES ASSUME IInv, NEW p \in Packets, Resync(p) PROVE LandsNear(p)
    OBVIOUS
  <2> DEFINE start == ResetMcnt(p.mcnt, binfo.block_i)
  <2>1. /\ start - p.mcnt \in 1 - Nm .. Nm * (N_INPUT_BLOCKS - 1)
        /\ block_for_mcnt(start) = binfo.block_i
    BY PacketIsTyped, ResyncSlots DEF CurBlock
  <2>2. binfo'.mcnt_start = start /\ binfo'.block_i = block_for_mcnt(start)
    BY DEF Resync
  <2> QED
    BY <2>1, <2>2 DEF LandsNear
<1> QED
  BY <1>1, Invariance, PTL DEF Spec, ResyncIsNearest

(***************************************************************************)
(* A filled block never shows the time stamp of an earlier use of its      *)
(* slot.                                                                   *)
(***************************************************************************)
THEOREM StampsAreFresh == Spec => []StampIsOfThisFill
<1>1. IInv => StampIsOfThisFill
  BY DEF IInv
<1> QED
  BY <1>1, Invariance, PTL
-----------------------------------------------------------------------------
(***************************************************************************)
(* What the status buffer says depends on the source ids: a completing     *)
(* packet with a bad one loses the return value of process_packet.  The    *)
(* theorems below are about a network that carries only ids of the         *)
(* receiver's beams.                                                       *)
(***************************************************************************)
GoodIds == \A sid \in Sids : sid < N_SOURCE_NODES

\* What the status buffer and the value on its way to it say of the block
\* filled last.
StatusFollows ==
    /\ pc = "start" => last_filled = -1
    /\ pc \in {"status", "acquire"} => ~BadSid(pkt)
    /\ pc \in {"acquire", "return"} => /\ netmcnt \in Nat /\ netmcnt + Nm = binfo.mcnt_start
                                       /\ block_for_mcnt(netmcnt) = last_filled
                                       /\ status.NETBKOUT = last_filled
    /\ pc = "recv" /\ last_filled # -1 => /\ status.NETBKOUT = last_filled
                                          /\ status.NETMCNT # NoMcnt
                                          /\ block_for_mcnt(status.NETMCNT) = last_filled

LEMMA GoodPacket == ASSUME GoodIds, NEW p \in Packets PROVE ~BadSid(p)
<1>1. p.sid \in Sids /\ p.sid \in Nat /\ N_SOURCE_NODES \in Nat
  BY PktsockConstants DEF Packets
<1>2. p.sid < N_SOURCE_NODES
  BY <1>1 DEF GoodIds
<1> QED
  BY <1>1, <1>2, SMT DEF BadSid

LEMMA InitStatus == Init => StatusFollows
  BY DEF Init, StatusFollows

LEMMA ReceiveStatus ==
    ASSUME GoodIds, IInv, StatusFollows, NEW p \in Packets, Receive(p)
    PROVE  StatusFollows'
<1>1. pc = "recv" /\ ~BadSid(p)
  BY GoodPacket DEF Receive
<1>2. CASE MarkFilled(p)
  <2>1. pc' = "status" /\ pkt' = p
    BY <1>2 DEF MarkFilled
  <2> QED
    BY <1>1, <2>1 DEF StatusFollows, BadSid
<1>3. CASE SetFilledFails(p)
  <2>1. pc' = "exited"
    BY <1>3 DEF SetFilledFails
  <2> QED
    BY <2>1 DEF StatusFollows
<1>4. CASE StorePacket(p) \/ IgnoreLate(p) \/ CountOutOfSeq(p) \/ Resync(p)
  <2>1. UNCHANGED <<last_filled, pc, status>>
    BY <1>4 DEF StorePacket, IgnoreLate, CountOutOfSeq, Resync, vars
  <2> QED
    BY <1>1, <2>1 DEF StatusFollows
<1> QED
  BY <1>2, <1>3, <1>4 DEF Receive

LEMMA StepStatus ==
    ASSUME GoodIds, IInv, StatusFollows, [Next]_vars
    PROVE  StatusFollows'
<1>1. CASE \E p \in Packets : Receive(p)
  BY <1>1, ReceiveStatus
<1>2. CASE Start
  <2>1. last_filled = -1 /\ last_filled' = last_filled /\ pc' = "recv"
    BY <1>2 DEF Start, StatusFollows
  <2> QED
    BY <2>1 DEF StatusFollows
<1>3. CASE UpdateStatus
  <2>1. /\ pc = "status" /\ pc' = "acquire" /\ netmcnt' = binfo.mcnt_start
        /\ UNCHANGED <<last_filled, pkt>> /\ binfo' = Advance
    BY <1>3 DEF UpdateStatus, FilledMcnt
  <2>2. /\ block_for_mcnt(binfo.mcnt_start) = last_filled /\ binfo.mcnt_start \in Nat
        /\ last_filled \in InBlocks
    BY <2>1, WindowSlots DEF IInv, FillOrder, CurBlock
  <2>3. status'.NETBKOUT = last_filled
    BY <1>3, <2>2 DEF UpdateStatus, IInv, TypeOK
  <2>4. binfo'.mcnt_start = binfo.mcnt_start + Nm
    BY <2>1 DEF Advance, IInv, TypeOK
  <2> QED
    BY <2>1, <2>2, <2>3, <2>4 DEF StatusFollows, BadSid
<1>4. CASE AcquireNext
  <2>1. /\ pc = "acquire" /\ pc' = "return" /\ netmcnt' = netmcnt
        /\ UNCHANGED <<last_filled, status>> /\ binfo'.mcnt_start = binfo.mcnt_start
    BY <1>4, AcquireNextInfo DEF AcquireNext, StatusFollows
  <2> QED
    BY <2>1 DEF StatusFollows
<1>5. CASE Return
  <2>1. /\ pc = "return" /\ pc' = "recv" /\ netmcnt \in Nat
        /\ UNCHANGED last_filled
    BY <1>5 DEF Return, StatusFollows
  <2>2. netmcnt # NoMcnt
    BY <2>1, SMT DEF NoMcnt
  <2>3. status'.NETMCNT = netmcnt /\ status'.NETBKOUT = status.NETBKOUT
    BY <1>5, <2>2 DEF Return, IInv, TypeOK
  <2> QED
    BY <2>1, <2>2, <2>3 DEF StatusFollows
<1>6. CASE WaitFails \/ Stop
  <2>1. pc' = "exited"
    BY <1>6 DEF WaitFails, Stop
  <2> QED
    BY <2>1 DEF StatusFollows
<1>7. CASE SkipFrame \/ Exited \/ UNCHANGED vars \/ \E b \in InBlocks : Drain(b)
  <2>1. UNCHANGED <<binfo, last_filled, pc, pkt, netmcnt, status>>
    BY <1>7 DEF SkipFrame, Exited, Drain, vars
  <2> QED
    BY <2>1 DEF StatusFollows, BadSid
<1> QED
  BY <1>1, <1>2, <1>3, <1>4, <1>5, <1>6, <1>7 DEF Next, ThreadStep

(***************************************************************************)
(* With good source ids NETBKOUT and NETMCNT name one block, the one       *)
(* filled last, whenever the thread waits for a packet.                    *)
(***************************************************************************)
THEOREM StatusIsOneBlock ==
    ASSUME GoodIds
    PROVE  Spec => []StatusNamesOneBlock
<1>1. Init => IInv /\ StatusFollows
  BY InitIInv, InitStatus
<1>2. (IInv /\ StatusFollows) /\ [Next]_vars => (IInv /\ StatusFollows)'
  BY GoodIds, StepIInv, StepStatus
<1>3. StatusFollows => StatusNamesOneBlock
  BY DEF StatusFollows, StatusNamesOneBlock
<1> QED
  BY <1>1, <1>2, <1>3, PTL DEF Spec
-----------------------------------------------------------------------------
(***************************************************************************)
(* The counts.  They are exact when no packet is repeated; a repeated one  *)
(* is counted again.                                                       *)
(***************************************************************************)
\* The blocks that the thread holds, under their headers.
InHands(b) ==
    \/ pc \in {"recv", "status", "return"} /\ b \in {CurBlock, Ahead}
    \/ pc = "acquire" /\ b = CurBlock

MissedIsExact(b)  == hdr[b].missed_pkts = Nm - Cardinality(stored[b])
CounterIsExact(b) == binfo.counter[b] = Cardinality(stored[b])

(***************************************************************************)
(* The counts of the blocks in the thread's hands and of the filled ones   *)
(* are exact, and the packet the thread has put aside while it waits for a *)
(* block is not among the stored ones.                                     *)
(***************************************************************************)
GapsCounted ==
    /\ \A b \in InBlocks : IsFilled(sem, b) \/ InHands(b) => MissedIsExact(b)
    /\ \A b \in InBlocks : InHands(b) => CounterIsExact(b)
    /\ pc \in {"status", "acquire"} => pkt.mcnt \notin stored[block_for_mcnt(pkt.mcnt)]
    /\ pc = "start" => \A b \in InBlocks : binfo.counter[b] = 0

\* A block has Nm packets, and what it stores is finite and at most those.
LEMMA BlockHasNm ==
    ASSUME NEW m \in Nat
    PROVE  IsFiniteSet(BlockMcnts(m)) /\ Cardinality(BlockMcnts(m)) = Nm
<1>1. m \in Int /\ m + Nm - 1 \in Int
  BY Constants, SMT
<1> DEFINE last == m + Nm - 1
<1> HIDE DEF last
<1>2. /\ IsFiniteSet(m .. last)
      /\ Cardinality(m .. last) = IF m > last THEN 0 ELSE last - m + 1
  BY <1>1, FS_Interval DEF last
<1> USE DEF last
<1> QED
  BY <1>2, Constants, SMT DEF BlockMcnts

LEMMA BlockIsFinite ==
    ASSUME NEW m \in Nat, NEW s, s \subseteq BlockMcnts(m)
    PROVE  IsFiniteSet(s) /\ Cardinality(s) \in 0 .. Nm
<1>1. IsFiniteSet(s) /\ Cardinality(s) <= Nm
  BY BlockHasNm, FS_Subset
<1>2. Cardinality(s) \in Nat
  BY <1>1, FS_CardinalityType
<1> QED
  BY <1>1, <1>2, Constants, SMT

\* One packet more is one gap less, and the unsigned decrement does not wrap.
LEMMA CountUp ==
    ASSUME NEW m \in Nat, NEW s, s \subseteq BlockMcnts(m),
           NEW e \in BlockMcnts(m), e \notin s
    PROVE  /\ Cardinality(s \cup {e}) = Cardinality(s) + 1
           /\ ((Nm - Cardinality(s)) + (U64 - 1)) % U64 = Nm - Cardinality(s \cup {e})
<1> DEFINE k == Cardinality(s)
           n == Cardinality(s \cup {e})
<1>1. IsFiniteSet(s) /\ k \in 0 .. Nm
  BY BlockIsFinite
<1>2. s \cup {e} \subseteq BlockMcnts(m)
  OBVIOUS
<1>3. n \in 0 .. Nm
  BY <1>2, BlockIsFinite
<1>4. n = k + 1
  BY <1>1, FS_AddElement
<1> HIDE DEF k, n
<1>5. ((Nm - k) + (U64 - 1)) % U64 = Nm - n
  BY <1>1, <1>3, <1>4, Constants, PktsockConstants, SMT
<1> QED
  BY <1>4, <1>5 DEF k, n

LEMMA NothingStored ==
    Cardinality({}) = 0 /\ Nm = Nm - Cardinality({})
BY FS_EmptySet, Constants, SMT

LEMMA InitCounts == Init => GapsCounted
  BY DEF Init, GapsCounted, InHands, IsFilled, DatabufCreate, InBlocks

\* p has not been stored yet.
IsNew(p) == p.mcnt \notin stored[block_for_mcnt(p.mcnt)]

\* Storing packet e in block b, whose count was exact.
LEMMA StoringCounts ==
    ASSUME NEW m \in Nat, NEW s, s \subseteq BlockMcnts(m),
           NEW e \in BlockMcnts(m), e \notin s,
           NEW missed, missed = Nm - Cardinality(s),
           NEW c, c = Cardinality(s)
    PROVE  /\ (missed + (U64 - 1)) % U64 = Nm - Cardinality(s \cup {e})
           /\ c + 1 = Cardinality(s \cup {e})
  BY CountUp

LEMMA StorePacketCounts ==
    ASSUME IInv, GapsCounted, NEW p \in Packet, ~BadSid(p), IsNew(p),
           pc = "recv", StorePacket(p)
    PROVE  GapsCounted'
<1> DEFINE b == block_for_mcnt(p.mcnt)
<1>1. p.mcnt \in Nat
  BY DEF Packet
<1>2. /\ sem \in [InBlocks -> BlockState] /\ hdr \in [InBlocks -> Header]
      /\ stored \in [InBlocks -> SUBSET Nat] /\ binfo \in BlockInfo
  BY DEF IInv, TypeOK, BlockInfo
<1>3. InWindow(Dist(p))
  BY DEF StorePacket
<1>4. b \in {CurBlock, Ahead} /\ b \in InBlocks /\ p.mcnt \in BlockMcnts(hdr[b].mcnt)
  <2>1. Holds(CurBlock, binfo.mcnt_start) /\ Holds(Ahead, binfo.mcnt_start + Nm)
    BY DEF IInv, OwnsWindow
  <2> QED
    BY <1>1, <1>3, <2>1, PacketSlot, SlotIsBlock DEF IInv, Holds
<1>5. stored[b] \subseteq BlockMcnts(hdr[b].mcnt) /\ hdr[b].mcnt \in Nat /\ p.mcnt \notin stored[b]
  BY <1>2, <1>4 DEF IInv, StoredUnderHeader, IsNew, Header
<1>6. MissedIsExact(b) /\ CounterIsExact(b)
  BY <1>4 DEF GapsCounted, InHands
<1>7. /\ hdr'[b].missed_pkts = (hdr[b].missed_pkts + (U64 - 1)) % U64
      /\ \A c \in InBlocks : c # b => hdr'[c] = hdr[c]
  BY <1>1, <1>2, DecrementMissedIs DEF StorePacket
<1>8. /\ stored'[b] = stored[b] \cup {p.mcnt}
      /\ \A c \in InBlocks : c # b => stored'[c] = stored[c]
  BY <1>1, <1>2, NoteStoredIs DEF StorePacket
<1>9. /\ binfo'.counter[b] = binfo.counter[b] + 1 /\ binfo'.block_i = binfo.block_i
      /\ \A c \in InBlocks : c # b => binfo'.counter[c] = binfo.counter[c]
  BY <1>1, <1>2, CountPacketIs DEF StorePacket
<1>10. UNCHANGED <<sem, pc>>
  BY DEF StorePacket
<1> HIDE DEF b
<1>11. MissedIsExact(b)' /\ CounterIsExact(b)'
  <2>1. /\ hdr'[b].missed_pkts = Nm - Cardinality(stored[b] \cup {p.mcnt})
        /\ binfo'.counter[b] = Cardinality(stored[b] \cup {p.mcnt})
    BY <1>4, <1>5, <1>6, <1>7, <1>9, StoringCounts DEF MissedIsExact, CounterIsExact
  <2> QED
    BY <1>8, <2>1 DEF MissedIsExact, CounterIsExact, b
<1>12. \A c \in InBlocks : c # b => /\ MissedIsExact(c) => MissedIsExact(c)'
                                    /\ CounterIsExact(c) => CounterIsExact(c)'
  BY <1>7, <1>8, <1>9 DEF MissedIsExact, CounterIsExact
<1>13. \A c \in InBlocks : InHands(c)' = InHands(c) /\ IsFilled(sem, c)' = IsFilled(sem, c)
  BY <1>9, <1>10 DEF InHands, CurBlock, Ahead, IsFilled
<1>14. pc' = "recv"
  BY <1>10
<1> QED
  BY <1>11, <1>12, <1>13, <1>14 DEF GapsCounted

\* Writing the headers of two blocks starts their counts, as Start and Resync do.
LEMMA NewHeadersCount ==
    ASSUME IInv, GapsCounted, pc' = "recv", sem' = sem,
           NEW b1 \in InBlocks, NEW b2 \in InBlocks,
           CurBlock' = b1, Ahead' = b2,
           hdr'[b1].missed_pkts = Nm, hdr'[b2].missed_pkts = Nm,
           stored'[b1] = {}, stored'[b2] = {},
           binfo'.counter[b1] = 0, binfo'.counter[b2] = 0,
           \A c \in InBlocks \ {b1, b2} : hdr'[c] = hdr[c] /\ stored'[c] = stored[c]
    PROVE  GapsCounted'
<1>1. MissedIsExact(b1)' /\ CounterIsExact(b1)' /\ MissedIsExact(b2)' /\ CounterIsExact(b2)'
  BY NothingStored DEF MissedIsExact, CounterIsExact
<1>2. \A c \in InBlocks \ {b1, b2} : MissedIsExact(c) => MissedIsExact(c)'
  BY DEF MissedIsExact
<1>3. \A c \in InBlocks : InHands(c)' => c \in {b1, b2}
  BY DEF InHands
<1>4. \A c \in InBlocks : IsFilled(sem, c)' = IsFilled(sem, c)
  BY DEF IsFilled
<1> QED
  BY <1>1, <1>2, <1>3, <1>4 DEF GapsCounted

LEMMA ResyncCounts ==
    ASSUME IInv, GapsCounted, NEW p \in Packet, pc = "recv", Resync(p)
    PROVE  GapsCounted'
<1> DEFINE start == ResetMcnt(p.mcnt, binfo.block_i)
<1>1. /\ start \in Nat /\ start % Nm = 0
      /\ block_for_mcnt(start) = CurBlock /\ block_for_mcnt(start + Nm) = Ahead
  BY ResyncSlots
<1>2. CurBlock \in InBlocks /\ Ahead \in InBlocks /\ Ahead # CurBlock
  BY WindowSlots DEF IInv
<1>3. /\ p.sid \in Nat /\ hdr \in [InBlocks -> Header]
      /\ stored \in [InBlocks -> SUBSET Nat] /\ binfo \in BlockInfo
  BY DEF IInv, TypeOK, BlockInfo, Packet
<1>4. /\ hdr' = InitializeBlock(InitializeBlock(hdr, start, p.sid), start + Nm, p.sid)
      /\ stored' = NoneStored(NoneStored(stored, start), start + Nm)
      /\ UNCHANGED <<sem, pc>>
  BY DEF Resync
<1>5. /\ binfo'.block_i = CurBlock
      /\ binfo'.counter = [binfo.counter EXCEPT ![CurBlock] = 0, ![Ahead] = 0]
  BY <1>1 DEF Resync, CurBlock, Ahead
<1> HIDE DEF start
<1>6. /\ hdr'[CurBlock].missed_pkts = Nm /\ hdr'[Ahead].missed_pkts = Nm
      /\ stored'[CurBlock] = {} /\ stored'[Ahead] = {}
      /\ \A c \in InBlocks \ {CurBlock, Ahead} : hdr'[c] = hdr[c] /\ stored'[c] = stored[c]
  BY <1>1, <1>3, <1>4, InitializeTwoBlocks
<1>7. binfo'.counter[CurBlock] = 0 /\ binfo'.counter[Ahead] = 0
  BY <1>2, <1>3, <1>5 DEF BlockInfo
<1>8. CurBlock' = CurBlock /\ Ahead' = Ahead
  BY <1>5 DEF CurBlock, Ahead
<1> HIDE DEF CurBlock, Ahead
<1> QED
  BY <1>2, <1>4, <1>6, <1>7, <1>8, NewHeadersCount

LEMMA StartCounts == ASSUME IInv, GapsCounted, Start PROVE GapsCounted'
<1>1. 0 + Nm = Nm
  BY Constants, SMT
<1>2. /\ hdr \in [InBlocks -> Header] /\ stored \in [InBlocks -> SUBSET Nat]
      /\ \A b \in InBlocks : stored[b] = {} /\ binfo.counter[b] = 0
      /\ binfo.block_i = 0
  BY DEF IInv, TypeOK, NothingMovedAtStart, GapsCounted, Start
<1>3. hdr' = InitializeBlock(InitializeBlock(hdr, 0, 0), 0 + Nm, 0)
  BY <1>1 DEF Start
<1>4. /\ hdr'[0].missed_pkts = Nm /\ hdr'[1].missed_pkts = Nm
      /\ \A c \in InBlocks \ {0, 1} : hdr'[c] = hdr[c]
  <2> DEFINE s2 == NoneStored(NoneStored(stored, 0), 0 + Nm)
  <2>1. s2 = NoneStored(NoneStored(stored, 0), 0 + Nm)
    OBVIOUS
  <2> HIDE DEF s2
  <2> QED
    BY <1>1, <1>2, <1>3, <2>1, StartSlots, InitializeTwoBlocks
<1>5. pc' = "recv" /\ UNCHANGED <<sem, stored, binfo>>
  BY DEF Start
<1>6. CurBlock' = 0 /\ Ahead' = 1
  <2>1. NextBlock(0, N_INPUT_BLOCKS) = 1
    BY Constants, SMT DEF NextBlock
  <2> QED
    BY <1>2, <1>5, <2>1 DEF CurBlock, Ahead
<1> QED
  BY <1>2, <1>4, <1>5, <1>6, StartSlots, NewHeadersCount

LEMMA CompleteCounts ==
    ASSUME IInv, GapsCounted, NEW p \in Packet, IsNew(p),
           pc = "recv", MarkFilled(p) \/ SetFilledFails(p)
    PROVE  GapsCounted'
<1>1. /\ CurBlock \in InBlocks /\ Ahead \in InBlocks
      /\ block_for_mcnt(binfo.mcnt_start) = CurBlock
      /\ hdr \in [InBlocks -> Header] /\ sem \in [InBlocks -> BlockState]
  BY WindowSlots DEF IInv, TypeOK
<1>2. /\ hdr' = [hdr EXCEPT ![CurBlock].time = binfo.mcnt_start]
      /\ UNCHANGED <<stored, binfo>> /\ InWindow(Dist(p))
  BY DEF MarkFilled, SetFilledFails, StampBlock, Completes
<1>3. \A c \in InBlocks : hdr'[c].missed_pkts = hdr[c].missed_pkts
  BY <1>1, <1>2 DEF Header
<1>4. \A c \in InBlocks : /\ MissedIsExact(c) => MissedIsExact(c)'
                          /\ CounterIsExact(c) => CounterIsExact(c)'
  BY <1>2, <1>3 DEF MissedIsExact, CounterIsExact
<1>5. CurBlock' = CurBlock /\ Ahead' = Ahead
  BY <1>2 DEF CurBlock, Ahead
<1>6. InHands(CurBlock) /\ InHands(Ahead)
  BY DEF InHands
<1>7. CASE MarkFilled(p)
  <2>1. /\ pc' = "status" /\ pkt' = p
        /\ sem' = [sem EXCEPT ![CurBlock] = "filled"]
    BY <1>1, <1>7 DEF MarkFilled, SetFilled
  <2>2. \A c \in InBlocks : IsFilled(sem, c)' => IsFilled(sem, c) \/ c = CurBlock
    BY <1>1, <2>1 DEF IsFilled
  <2>3. \A c \in InBlocks : InHands(c)' => c \in {CurBlock, Ahead}
    BY <1>5, <2>1 DEF InHands
  <2>4. pkt'.mcnt \notin stored'[block_for_mcnt(pkt'.mcnt)]
    BY <1>2, <2>1 DEF IsNew
  <2> QED
    BY <1>1, <1>4, <1>6, <2>1, <2>2, <2>3, <2>4 DEF GapsCounted
<1>8. CASE SetFilledFails(p)
  <2>1. pc' = "exited" /\ sem' = sem
    BY <1>8 DEF SetFilledFails
  <2>2. \A c \in InBlocks : ~InHands(c)' /\ IsFilled(sem, c)' = IsFilled(sem, c)
    BY <2>1 DEF InHands, IsFilled
  <2> QED
    BY <1>4, <2>1, <2>2 DEF GapsCounted
<1> QED
  BY <1>7, <1>8

LEMMA AcquireNextCounts ==
    ASSUME IInv, ~BadSid(pkt), GapsCounted, AcquireNext
    PROVE  GapsCounted'
<1> DEFINE h == InitializeBlock(hdr, pkt.mcnt + Nm, pkt.sid)
           s == NoneStored(stored, pkt.mcnt + Nm)
<1>1. CurBlock \in InBlocks /\ Ahead \in InBlocks /\ Ahead # CurBlock
  BY WindowSlots DEF IInv
<1>2. pc = "acquire" /\ pc' = "return" /\ sem' = sem /\ IsFree(sem, Ahead)
  BY DEF AcquireNext, NewBlockReady
<1>3. /\ pkt.mcnt \in Nat /\ pkt.sid \in Nat /\ pkt.mcnt + Nm \in Nat
      /\ block_for_mcnt(pkt.mcnt) = CurBlock
      /\ block_for_mcnt(pkt.mcnt + Nm) = Ahead
  BY <1>2, AcquireNextSlots
<1>4. /\ pkt \in Packet /\ hdr \in [InBlocks -> Header]
      /\ stored \in [InBlocks -> SUBSET Nat]
  BY DEF IInv, TypeOK, Packet
<1>5. /\ h \in [InBlocks -> Header] /\ h[Ahead].missed_pkts = Nm
      /\ \A c \in InBlocks : c # Ahead => h[c] = hdr[c]
  BY <1>3, <1>4, InitializeBlockIs
<1>6. /\ s \in [InBlocks -> SUBSET Nat] /\ s[Ahead] = {}
      /\ \A c \in InBlocks : c # Ahead => s[c] = stored[c]
  BY <1>3, <1>4, NoneStoredIs
<1>7. hdr' = DecrementMissed(h, pkt) /\ stored' = NoteStored(s, pkt)
  BY DEF AcquireNext
<1> HIDE DEF h, s
<1>8. /\ hdr'[CurBlock].missed_pkts = (h[CurBlock].missed_pkts + (U64 - 1)) % U64
      /\ \A c \in InBlocks : c # CurBlock => hdr'[c] = h[c]
  BY <1>3, <1>4, <1>5, <1>7, DecrementMissedIs
<1>9. /\ stored'[CurBlock] = s[CurBlock] \cup {pkt.mcnt}
      /\ \A c \in InBlocks : c # CurBlock => stored'[c] = s[c]
  BY <1>3, <1>4, <1>6, <1>7, NoteStoredIs
<1>10. /\ binfo'.counter[CurBlock] = binfo.counter[CurBlock] + 1
       /\ binfo'.counter[Ahead] = 0
       /\ CurBlock' = CurBlock /\ Ahead' = Ahead
  BY AcquireNextInfo DEF CurBlock, Ahead
<1>11. /\ binfo.mcnt_start \in Nat /\ hdr[CurBlock].mcnt = binfo.mcnt_start
       /\ pkt.mcnt \in BlockMcnts(binfo.mcnt_start)
       /\ stored[CurBlock] \subseteq BlockMcnts(binfo.mcnt_start)
       /\ pkt.mcnt \notin stored[CurBlock]
  <2>1. hdr[CurBlock].mcnt = binfo.mcnt_start
    BY <1>2 DEF IInv, OwnsWindow, Holds
  <2> QED
    BY <1>1, <1>2, <1>3, <2>1, WindowSlots DEF IInv, StoredUnderHeader, PacketInNextBlock, GapsCounted
<1>12. MissedIsExact(CurBlock) /\ CounterIsExact(CurBlock)
  BY <1>1, <1>2 DEF GapsCounted, InHands
<1>13. MissedIsExact(CurBlock)' /\ CounterIsExact(CurBlock)'
  <2> DEFINE cur == CurBlock
  <2>1. /\ hdr'[cur].missed_pkts = Nm - Cardinality(stored[cur] \cup {pkt.mcnt})
        /\ binfo'.counter[cur] = Cardinality(stored[cur] \cup {pkt.mcnt})
    BY <1>1, <1>5, <1>8, <1>10, <1>11, <1>12, StoringCounts DEF MissedIsExact, CounterIsExact
  <2>2. stored'[cur] = stored[cur] \cup {pkt.mcnt}
    BY <1>1, <1>6, <1>9
  <2>3. CurBlock' = cur
    BY <1>10
  <2> QED
    BY <2>1, <2>2, <2>3 DEF MissedIsExact, CounterIsExact
<1>14. MissedIsExact(Ahead)' /\ CounterIsExact(Ahead)'
  BY <1>1, <1>5, <1>6, <1>8, <1>9, <1>10, NothingStored DEF MissedIsExact, CounterIsExact
<1>15. \A c \in InBlocks \ {CurBlock, Ahead} : MissedIsExact(c) => MissedIsExact(c)'
  BY <1>5, <1>6, <1>8, <1>9 DEF MissedIsExact
<1>16. \A c \in InBlocks : /\ InHands(c)' => c \in {CurBlock, Ahead}
                           /\ IsFilled(sem, c)' = IsFilled(sem, c)
  BY <1>2, <1>10 DEF InHands, IsFilled
<1> QED
  BY <1>2, <1>10, <1>13, <1>14, <1>15, <1>16 DEF GapsCounted, MissedIsExact, CounterIsExact

LEMMA OtherStepsCount ==
    ASSUME IInv, GapsCounted,
           \/ UpdateStatus \/ Return \/ WaitFails \/ Stop
           \/ SkipFrame \/ Exited \/ UNCHANGED vars
           \/ \E b \in InBlocks : Drain(b)
           \/ \E p \in Packet : pc = "recv" /\ (IgnoreLate(p) \/ CountOutOfSeq(p))
    PROVE  GapsCounted'
<1>1. UNCHANGED <<hdr, stored>> /\ binfo'.counter = binfo.counter
  BY DEF UpdateStatus, Return, WaitFails, Stop, SkipFrame, Exited, Drain, IgnoreLate,
         CountOutOfSeq, vars, Advance, IInv, TypeOK
<1>2. \A c \in InBlocks : /\ MissedIsExact(c) => MissedIsExact(c)'
                          /\ CounterIsExact(c) => CounterIsExact(c)'
  BY <1>1 DEF MissedIsExact, CounterIsExact
<1>3. \A c \in InBlocks : IsFilled(sem, c)' => IsFilled(sem, c)
  <2>1. ASSUME NEW b \in InBlocks, Drain(b)
        PROVE  \A c \in InBlocks : IsFilled(sem, c)' => IsFilled(sem, c)
    BY <2>1 DEF Drain, SetFree, IsFilled, IInv, TypeOK
  <2> QED
    BY <2>1 DEF UpdateStatus, Return, WaitFails, Stop, SkipFrame, Exited, IgnoreLate,
                CountOutOfSeq, vars, IsFilled
<1>4. \A c \in InBlocks : InHands(c)' => InHands(c)
  <2>1. CASE UpdateStatus
    <3>1. pc = "status" /\ pc' = "acquire" /\ binfo'.block_i = Ahead
      BY <2>1 DEF UpdateStatus, Advance, IInv, TypeOK
    <3> QED
      BY <3>1 DEF InHands, CurBlock
  <2>2. CASE WaitFails \/ Stop
    BY <2>2 DEF WaitFails, Stop, InHands
  <2>3. CASE Return
    <3>1. pc = "return" /\ pc' = "recv" /\ binfo' = binfo
      BY <2>3 DEF Return
    <3> QED
      BY <3>1 DEF InHands, CurBlock, Ahead
  <2>4. CASE \/ SkipFrame \/ Exited \/ UNCHANGED vars
             \/ \E b \in InBlocks : Drain(b)
             \/ \E p \in Packet : pc = "recv" /\ (IgnoreLate(p) \/ CountOutOfSeq(p))
    <3>1. pc' = pc /\ binfo'.block_i = binfo.block_i
      BY <2>4 DEF SkipFrame, Exited, Drain, IgnoreLate, CountOutOfSeq, vars, IInv, TypeOK
    <3> QED
      BY <3>1 DEF InHands, CurBlock, Ahead
  <2> QED
    BY <2>1, <2>2, <2>3, <2>4
<1>5. pc' \in {"status", "acquire"} =>
          pc \in {"status", "acquire"} /\ pkt' = pkt
  BY DEF UpdateStatus, Return, WaitFails, Stop, SkipFrame, Exited, Drain, IgnoreLate,
         CountOutOfSeq, vars
<1>6. pc' = "start" => pc = "start"
  BY DEF UpdateStatus, Return, WaitFails, Stop, SkipFrame, Exited, Drain, IgnoreLate,
         CountOutOfSeq, vars
<1> QED
  BY <1>1, <1>2, <1>3, <1>4, <1>5, <1>6 DEF GapsCounted

LEMMA ReceiveCounts ==
    ASSUME IInv, GapsCounted, NEW p \in Packet, ~BadSid(p), Receive(p),
           InWindow(Dist(p)) => IsNew(p)
    PROVE  GapsCounted'
<1>1. CASE StorePacket(p)
  BY <1>1, StorePacketCounts DEF Receive, StorePacket
<1>2. CASE MarkFilled(p) \/ SetFilledFails(p)
  BY <1>2, CompleteCounts DEF Receive, MarkFilled, SetFilledFails, Completes
<1> QED
  BY <1>1, <1>2, ResyncCounts, OtherStepsCount DEF Receive

LEMMA StepCounts ==
    ASSUME GoodIds, ~Duplicates, IInv, StatusFollows, GapsCounted, [Next]_vars
    PROVE  GapsCounted'
<1>1. ASSUME NEW p \in Packets, Receive(p) PROVE GapsCounted'
  <2>1. InWindow(Dist(p)) => IsNew(p)
    BY <1>1 DEF Receive, NotRepeated, IsNew
  <2> QED
    BY <1>1, <2>1, PacketIsTyped, GoodPacket, ReceiveCounts
<1>2. CASE AcquireNext
  <2>1. ~BadSid(pkt)
    BY <1>2 DEF AcquireNext, StatusFollows
  <2> QED
    BY <1>2, <2>1, AcquireNextCounts
<1> QED
  BY <1>1, <1>2, StartCounts, OtherStepsCount DEF Next, ThreadStep

(***************************************************************************)
(* On a network that neither repeats packets nor carries ids of no beam,   *)
(* missed_pkts of every block passed on is the number of packets it lacks. *)
(***************************************************************************)
THEOREM MissedPacketsAreExact ==
    ASSUME GoodIds, ~Duplicates
    PROVE  Spec => []MissedCountsTheGaps
<1>1. Init => IInv /\ StatusFollows /\ GapsCounted
  BY InitIInv, InitStatus, InitCounts
<1>2. (IInv /\ StatusFollows /\ GapsCounted) /\ [Next]_vars
          => (IInv /\ StatusFollows /\ GapsCounted)'
  BY GoodIds, ~Duplicates, StepIInv, StepStatus, StepCounts
<1>3. GapsCounted => MissedCountsTheGaps
  BY DEF GapsCounted, InHands, MissedIsExact, MissedCountsTheGaps
<1> QED
  BY <1>1, <1>2, <1>3, PTL DEF Spec
-----------------------------------------------------------------------------
\* The whole beams among the packets that a block lacks, and the rest: of one
\* beam there are k packets in it.
LEMMA WholeBeams ==
    ASSUME NEW k \in 0 .. Nm, NEW x, x = (Nm * N_BEAMS - k) % U32
    PROVE  /\ k = 0 => x \div Nm = N_BEAMS /\ x % Nm = 0
           /\ k # 0 => x \div Nm = N_BEAMS - 1 /\ x % Nm = Nm - k
<1> DEFINE all  == Nm * N_BEAMS
           rest == Nm * (N_BEAMS - 1)
<1>1. N_BEAMS \in Nat /\ N_BEAMS - 1 \in Nat /\ (N_BEAMS - 1) + 1 = N_BEAMS
  BY PktsockAssumption, SMT
<1>2. rest \in Nat /\ all = rest + Nm
  <2>1. Nm * ((N_BEAMS - 1) + 1) = rest + Nm * 1
    BY <1>1, Constants, Distribute
  <2> QED
    BY <1>1, <2>1, Constants, ProductIsNat, SMT
<1>3. /\ all \div Nm = N_BEAMS /\ all % Nm = 0
      /\ \A r \in 0 .. Nm - 1 : (rest + r) \div Nm = N_BEAMS - 1 /\ (rest + r) % Nm = r
  BY <1>1, Constants, ModOfMultiple, DivModUnique
<1>4. U32 \in Nat /\ U32 > all /\ x = (all - k) % U32
  BY PktsockAssumption
<1> HIDE DEF all, rest
<1>5. x = all - k
  BY <1>2, <1>4, Constants, SMT
<1>6. CASE k = 0
  <2>1. x = all
    BY <1>2, <1>5, <1>6, Constants, SMT
  <2> QED
    BY <1>3, <1>6, <2>1
<1>7. CASE k # 0
  <2>1. Nm - k \in 0 .. Nm - 1 /\ x = rest + (Nm - k)
    BY <1>2, <1>5, <1>7, Constants, SMT
  <2> QED
    BY <1>3, <1>7, <2>1
<1> QED
  BY <1>6, <1>7

LEMMA ReportOfStep ==
    ASSUME IInv, GapsCounted, UpdateStatus
    PROVE  Reported(Cardinality(stored[CurBlock]))
<1> DEFINE own == Cardinality(stored[CurBlock])
           x   == (Nm * N_BEAMS - own) % U32
<1>1. CurBlock \in InBlocks /\ pc = "status"
  BY WindowSlots DEF IInv, UpdateStatus
<1>2. own = binfo.counter[CurBlock]
  BY <1>1 DEF GapsCounted, InHands, CounterIsExact
<1>3. own \in 0 .. Nm
  <2>1. /\ stored[CurBlock] \subseteq BlockMcnts(hdr[CurBlock].mcnt)
        /\ hdr[CurBlock].mcnt \in Nat
    BY <1>1 DEF IInv, StoredUnderHeader, TypeOK, Header
  <2> QED
    BY <2>1, BlockIsFinite
<1>4. BlockMissed = x
  BY <1>2 DEF BlockMissed, N_PACKETS_PER_BLOCK
<1>5. /\ status'.MISSEDBM = x \div Nm
      /\ status'.MISSEDPK = (status.MISSEDPK + (x % Nm)) % U32
      /\ status.MISSEDPK \in 0 .. U32 - 1
  BY <1>4 DEF UpdateStatus, IInv, TypeOK
<1> HIDE DEF own
<1>6. /\ own = 0 => x \div Nm = N_BEAMS /\ x % Nm = 0
      /\ own # 0 => x \div Nm = N_BEAMS - 1 /\ x % Nm = Nm - own
  BY <1>3, WholeBeams
<1> HIDE DEF x
<1>7. (status.MISSEDPK + 0) % U32 = status.MISSEDPK
  BY <1>5, PktsockConstants, SMT
<1>8. Reported(own)
  BY <1>5, <1>6, <1>7 DEF Reported
<1> QED
  BY <1>8 DEF own

(***************************************************************************)
(* On such a network MISSEDBM and MISSEDPK tell, for every number of       *)
(* beams, which beams are not in a block and which packets of its own beam *)
(* were dropped.                                                           *)
(***************************************************************************)
THEOREM BeamsAndGapsReported ==
    ASSUME GoodIds, ~Duplicates
    PROVE  Spec => ReportsBeamsAndGaps
<1>1. Init => IInv /\ StatusFollows /\ GapsCounted
  BY InitIInv, InitStatus, InitCounts
<1>2. (IInv /\ StatusFollows /\ GapsCounted) /\ [Next]_vars
          => (IInv /\ StatusFollows /\ GapsCounted)'
  BY GoodIds, ~Duplicates, StepIInv, StepStatus, StepCounts
<1>3. (IInv /\ GapsCounted) /\ [Next]_vars
          => [UpdateStatus => Reported(Cardinality(stored[CurBlock]))]_vars
  BY ReportOfStep
<1> QED
  BY <1>1, <1>2, <1>3, PTL DEF Spec, ReportsBeamsAndGaps
-----------------------------------------------------------------------------
(***************************************************************************)
(* The thread and a stream in order, of which nothing is lost.  What was   *)
(* shown above of a network of any packets holds of the stream's.          *)
(***************************************************************************)
StreamOK ==
    /\ at \in Nat /\ from \in Nat /\ from <= at
    /\ restarts \in 0 .. Restarts
    /\ pc = "start" => at = from

LEMMA StreamConstants ==
    /\ MAX_OUT_OF_SEQ \in Nat /\ Source \in Nat
    /\ Starts \subseteq Nat /\ Length \in Nat /\ Restarts \in Nat
  BY PktsockConstants, StreamAssumption, SMT DEF MAX_OUT_OF_SEQ

LEMMA NextPacketIs ==
    ASSUME at \in Nat
    PROVE  NextPacket \in Packet /\ NextPacket.mcnt = at /\ NextPacket.sid = Source
  BY StreamConstants DEF NextPacket, Packet

LEMMA InitStream == StreamInit => IInv /\ StreamOK
<1>1. StreamInit => IInv
  BY InitIInv DEF StreamInit
<1>2. StreamInit => StreamOK
  BY StreamConstants, SMT DEF StreamInit, StreamOK
<1> QED
  BY <1>1, <1>2

LEMMA StreamIsAnyNext ==
    ASSUME StreamOK, [StreamNext]_streamVars
    PROVE  [AnyNext]_vars
  BY NextPacketIs DEF StreamOK, StreamNext, Deliver, Restart, AnyNext, streamVars

LEMMA StepStreamOK ==
    ASSUME StreamOK, [StreamNext]_streamVars
    PROVE  StreamOK'
<1>1. CASE Deliver
  <2>1. at' = at + 1 /\ UNCHANGED <<from, restarts>> /\ pc = "recv"
    BY <1>1 DEF Deliver, Receive
  <2>2. pc' # "start"
    BY <1>1, <2>1 DEF Deliver, Receive, StorePacket, MarkFilled, SetFilledFails, IgnoreLate,
                      CountOutOfSeq, Resync, vars
  <2> QED
    BY <2>1, <2>2, SMT DEF StreamOK
<1>2. CASE Restart
  BY <1>2, StreamConstants, SMT DEF Restart, StreamOK
<1>3. CASE /\ ThreadStep \/ \E b \in InBlocks : Drain(b)
           /\ UNCHANGED <<from, at, restarts>>
  <2>1. pc' = "start" => pc = "start"
    BY <1>3 DEF ThreadStep, Start, SkipFrame, UpdateStatus, AcquireNext, Return, WaitFails,
                Stop, Exited, Drain, vars
  <2> QED
    BY <1>3, <2>1 DEF StreamOK
<1>4. CASE UNCHANGED streamVars
  BY <1>4 DEF streamVars, vars, StreamOK
<1> QED
  BY <1>1, <1>2, <1>3, <1>4 DEF StreamNext

LEMMA StepStreamIInv ==
    ASSUME IInv, StreamOK, [StreamNext]_streamVars
    PROVE  IInv' /\ StreamOK'
  BY StreamIsAnyNext, AnyStepIInv, StepStreamOK
-----------------------------------------------------------------------------
\* A packet completes the block before the one in whose second half it is.
Half == 3 * (Nm \div 2)

\* How far a resynchronisation may land ahead.
Far == Nm * (N_INPUT_BLOCKS - 1)

LEMMA HalfIs ==
    /\ Half \in Nat /\ Nm <= Half /\ Half + 1 <= 2 * Nm
    /\ Far \in Nat
    /\ LATE_PKT_MCNT_THRESHOLD = 2 * Far + 2 * Nm
<1>1. Half \in Nat /\ Nm <= Half /\ Half + 1 <= 2 * Nm
  BY Constants, SMT DEF Half
<1>2. N_INPUT_BLOCKS - 1 \in Nat
  BY Constants, SMT
<1>3. Far \in Nat
  BY <1>2, Constants, ProductIsNat DEF Far
<1>4. Nm * N_INPUT_BLOCKS = Far + Nm
  BY <1>2, Constants, SMT DEF Far
<1>5. (2 * Nm) * N_INPUT_BLOCKS = 2 * (Nm * N_INPUT_BLOCKS)
  BY Constants, SMT
<1>6. 2 * (Far + Nm) = 2 * Far + 2 * Nm
  BY <1>3, Constants, SMT
<1> QED
  BY <1>1, <1>3, <1>4, <1>5, <1>6 DEF LATE_PKT_MCNT_THRESHOLD

\* The start of the block that the window is about to have as its current one.
Base == IF pc = "status" THEN binfo.mcnt_start + Nm ELSE binfo.mcnt_start

\* The thread is still working on the packet that completed a block.
Completing == pc \in {"status", "acquire"}

(***************************************************************************)
(* The next packet is out of sequence, and so were all the others of this  *)
(* stretch, so that each of them has been counted.                         *)
(***************************************************************************)
Adrift ==
    /\ IsOutOfSeq(at - Base)
    /\ at - from <= binfo.out_of_seq_cnt
    /\ at - from <= MAX_OUT_OF_SEQ
    /\ Completing => at = from

(***************************************************************************)
(* The next packet is late or in the window, and it is not beyond the      *)
(* first packet that can complete a block, unless it is the first of the   *)
(* stretch.                                                                *)
(***************************************************************************)
Synced ==
    /\ at > Base - LATE_PKT_MCNT_THRESHOLD
    /\ at <= Base + Half \/ (at = from /\ at < Base + 2 * Nm)
    /\ Completing => at <= Base + Nm

Tracks == pc = "exited" \/ Adrift \/ Synced

LEMMA InitTracks == StreamInit => Tracks
<1> SUFFICES ASSUME StreamInit PROVE Tracks
  OBVIOUS
<1>1. at \in Nat /\ at = from /\ Base = 0 /\ ~Completing /\ binfo.out_of_seq_cnt = 0
  BY StreamConstants DEF StreamInit, Init, Base, Completing
<1>2. /\ LATE_PKT_MCNT_THRESHOLD \in Nat /\ LATE_PKT_MCNT_THRESHOLD > 0
      /\ MAX_OUT_OF_SEQ \in Nat
  BY HalfIs, StreamConstants, Constants, SMT
<1>3. CASE at < 2 * Nm
  BY <1>1, <1>2, <1>3, Constants, SMT DEF Tracks, Synced
<1>4. CASE at >= 2 * Nm
  <2>1. IsOutOfSeq(at - Base)
    BY <1>1, <1>4, Constants, SMT DEF IsOutOfSeq, InWindow, IsLate
  <2> QED
    BY <1>1, <1>2, <2>1, SMT DEF Tracks, Adrift
<1> QED
  BY <1>1, <1>3, <1>4, Constants, SMT

\* What a packet of a stream can be to a thread that waits for it.
LEMMA StreamNumbers ==
    ASSUME IInv, StreamOK
    PROVE  /\ at \in Nat /\ from \in Nat /\ from <= at
           /\ binfo.mcnt_start \in Nat /\ Base \in Nat
           /\ binfo.out_of_seq_cnt \in Nat /\ MAX_OUT_OF_SEQ \in Nat
           /\ Half \in Nat /\ Nm \in Nat /\ Nm > 1 /\ Nm <= Half /\ Half + 1 <= 2 * Nm
           /\ Far \in Nat /\ LATE_PKT_MCNT_THRESHOLD = 2 * Far + 2 * Nm
           /\ LATE_PKT_MCNT_THRESHOLD \in Nat /\ LATE_PKT_MCNT_THRESHOLD > 0
<1>1. /\ Half \in Nat /\ Nm \in Nat /\ Nm > 1 /\ Nm <= Half /\ Half + 1 <= 2 * Nm
      /\ Far \in Nat /\ LATE_PKT_MCNT_THRESHOLD = 2 * Far + 2 * Nm
      /\ MAX_OUT_OF_SEQ \in Nat
  BY HalfIs, Constants, StreamConstants
<1>2. LATE_PKT_MCNT_THRESHOLD \in Nat /\ LATE_PKT_MCNT_THRESHOLD > 0
  BY <1>1, SMT
<1>3. /\ at \in Nat /\ from \in Nat /\ from <= at
      /\ binfo.mcnt_start \in Nat /\ binfo.out_of_seq_cnt \in Nat
  BY DEF IInv, TypeOK, StreamOK
<1>4. Base \in Nat
  BY <1>1, <1>3, SMT DEF Base
<1> QED
  BY <1>1, <1>2, <1>3, <1>4

\* A packet out of sequence is counted, or sets off the resynchronisation.
LEMMA AdriftGoesOn ==
    ASSUME IInv, StreamOK, Adrift, Deliver
    PROVE  /\ CountOutOfSeq(NextPacket) \/ Resync(NextPacket)
           /\ Adrift' \/ Synced'
           /\ at <= from + MAX_OUT_OF_SEQ
<1> DEFINE p == NextPacket
           cnt == binfo.out_of_seq_cnt
<1>1. /\ pc = "recv" /\ Receive(p) /\ at' = at + 1 /\ from' = from
      /\ Base = binfo.mcnt_start
  BY DEF Deliver, Receive, Base
<1>2. p \in Packet /\ p.mcnt = at /\ Dist(p) = at - Base
  BY <1>1, NextPacketIs DEF StreamOK, Dist
<1>3. IsOutOfSeq(Dist(p))
  BY <1>2 DEF Adrift
<1> HIDE DEF p
<1>4. CountOutOfSeq(p) \/ Resync(p)
  BY <1>1, <1>3 DEF Receive, StorePacket, MarkFilled, SetFilledFails, Completes, IgnoreLate,
                    IsOutOfSeq
<1>5. /\ at - from <= cnt /\ at - from <= MAX_OUT_OF_SEQ
      /\ ~InWindow(at - Base) /\ ~IsLate(at - Base)
  BY DEF Adrift, IsOutOfSeq
<1>6. ASSUME CountOutOfSeq(p) PROVE Adrift' \/ Synced'
  <2>1. /\ cnt + 1 <= MAX_OUT_OF_SEQ /\ pc' = "recv"
        /\ binfo' = [binfo EXCEPT !.out_of_seq_cnt = cnt + 1]
    BY <1>1, <1>6 DEF CountOutOfSeq
  <2>2. binfo'.out_of_seq_cnt = cnt + 1 /\ Base' = Base
    BY <1>1, <2>1 DEF IInv, TypeOK, Base
  <2>3. ~Completing'
    BY <2>1 DEF Completing
  <2> HIDE DEF cnt
  <2>4. CASE at - Base >= 2 * Nm
    <3>1. IsOutOfSeq(at' - Base)
      BY <1>1, <2>4, StreamNumbers, SMT DEF IsOutOfSeq, InWindow, IsLate
    <3>2. at' - from <= cnt + 1 /\ at' - from <= MAX_OUT_OF_SEQ
      BY <1>1, <1>5, <2>1, StreamNumbers, SMT DEF cnt
    <3> QED
      BY <1>1, <2>2, <2>3, <3>1, <3>2 DEF Adrift, MAX_OUT_OF_SEQ
  <2>5. CASE at - Base < 0
    <3>1. at - Base <= -LATE_PKT_MCNT_THRESHOLD
      BY <1>5, <2>5, StreamNumbers, SMT DEF IsLate
    <3>2. at' - from <= cnt + 1 /\ at' - from <= MAX_OUT_OF_SEQ
      BY <1>1, <1>5, <2>1, StreamNumbers, SMT DEF cnt
    <3>3. CASE at' - Base <= -LATE_PKT_MCNT_THRESHOLD
      <4>1. IsOutOfSeq(at' - Base)
        BY <1>1, <3>3, StreamNumbers, SMT DEF IsOutOfSeq, InWindow, IsLate
      <4> QED
        BY <1>1, <2>2, <2>3, <3>2, <4>1 DEF Adrift, MAX_OUT_OF_SEQ
    <3>4. CASE at' - Base > -LATE_PKT_MCNT_THRESHOLD
      <4>1. at' > Base - LATE_PKT_MCNT_THRESHOLD /\ at' <= Base + Half
        BY <1>1, <2>5, <3>4, StreamNumbers, SMT
      <4> QED
        BY <2>2, <2>3, <4>1 DEF Synced, LATE_PKT_MCNT_THRESHOLD, Half
    <3> QED
      BY <1>1, <3>3, <3>4, StreamNumbers, SMT
  <2>6. at - Base >= 2 * Nm \/ at - Base < 0
    BY <1>5, StreamNumbers, SMT DEF InWindow
  <2> QED
    BY <2>4, <2>5, <2>6
<1>7. ASSUME Resync(p) PROVE Synced'
  <2> DEFINE start == ResetMcnt(p.mcnt, binfo.block_i)
  <2>1. start \in Nat /\ start - at \in 1 - Nm .. Far
    BY <1>2, ResyncSlots DEF Far
  <2>2. binfo'.mcnt_start = start /\ pc' = "recv"
    BY <1>1, <1>7 DEF Resync
  <2>3. Base' = start /\ ~Completing'
    BY <2>2 DEF Base, Completing
  <2> HIDE DEF start
  <2>4. at' > start - LATE_PKT_MCNT_THRESHOLD /\ at' <= start + Half
    BY <1>1, <2>1, StreamNumbers, SMT
  <2> QED
    BY <2>3, <2>4 DEF Synced, LATE_PKT_MCNT_THRESHOLD, Half
<1>8. at <= from + MAX_OUT_OF_SEQ
  BY <1>5, StreamNumbers, SMT
<1> QED
  BY <1>4, <1>6, <1>7, <1>8 DEF p

\* A packet late or in the window is not out of sequence, nor is the next.
LEMMA SyncedGoesOn ==
    ASSUME IInv, StreamOK, Synced, Deliver
    PROVE  /\ ~CountOutOfSeq(NextPacket) /\ ~Resync(NextPacket)
           /\ pc' = "exited" \/ Synced'
<1> DEFINE p == NextPacket
<1>1. /\ pc = "recv" /\ Receive(p) /\ at' = at + 1 /\ from' = from
      /\ Base = binfo.mcnt_start
  BY DEF Deliver, Receive, Base
<1>2. p \in Packet /\ p.mcnt = at /\ Dist(p) = at - Base
  BY <1>1, NextPacketIs DEF StreamOK, Dist
<1>3. /\ at > Base - LATE_PKT_MCNT_THRESHOLD
      /\ at <= Base + Half \/ at < Base + 2 * Nm
  BY DEF Synced
<1> HIDE DEF p
<1>4. ~IsOutOfSeq(Dist(p))
  BY <1>2, <1>3, StreamNumbers, SMT DEF IsOutOfSeq, InWindow, IsLate
<1>5. ~CountOutOfSeq(p) /\ ~Resync(p)
  BY <1>4 DEF CountOutOfSeq, Resync
<1>6. CASE StorePacket(p) \/ IgnoreLate(p)
  <2>1. binfo'.mcnt_start = binfo.mcnt_start /\ pc' = "recv"
    <3>1. CASE StorePacket(p)
      BY <1>1, <1>2, <3>1, CountPacketIs DEF StorePacket, IInv, TypeOK, BlockInfo
    <3>2. CASE IgnoreLate(p)
      BY <1>1, <3>2 DEF IgnoreLate, vars
    <3> QED
      BY <1>6, <3>1, <3>2
  <2>2. Base' = Base /\ ~Completing'
    BY <1>1, <2>1 DEF Base, Completing
  <2>3. at - Base < Half
    <3>1. CASE StorePacket(p)
      BY <1>2, <3>1, StreamNumbers, SMT DEF StorePacket, Completes, Half
    <3>2. CASE IgnoreLate(p)
      BY <1>2, <3>2, StreamNumbers, SMT DEF IgnoreLate, IsLate
    <3> QED
      BY <1>6, <3>1, <3>2
  <2>4. at' > Base - LATE_PKT_MCNT_THRESHOLD /\ at' <= Base + Half
    BY <1>1, <1>3, <2>3, StreamNumbers, SMT
  <2> QED
    BY <1>5, <2>2, <2>4 DEF Synced, LATE_PKT_MCNT_THRESHOLD, Half, p
<1>7. CASE MarkFilled(p)
  <2>1. binfo' = binfo /\ pc' = "status"
    BY <1>7 DEF MarkFilled
  <2>2. Base' = Base + Nm
    BY <1>1, <2>1 DEF Base
  <2>3. Nm <= at - Base /\ at - Base < 2 * Nm
    <3>1. at - Base \in Int
      BY StreamNumbers, SMT
    <3> QED
      BY <1>2, <1>7, <3>1, CompletesInNext DEF MarkFilled
  <2>4. /\ at' > (Base + Nm) - LATE_PKT_MCNT_THRESHOLD
        /\ at' <= (Base + Nm) + Half /\ at' <= (Base + Nm) + Nm
    BY <1>1, <2>3, StreamNumbers, SMT
  <2>5. Synced'
    BY <2>2, <2>4 DEF Synced, LATE_PKT_MCNT_THRESHOLD, Half
  <2> QED
    BY <1>5, <2>5 DEF p
<1>8. CASE SetFilledFails(p)
  BY <1>5, <1>8 DEF SetFilledFails, p
<1> QED
  BY <1>1, <1>5, <1>6, <1>7, <1>8 DEF Receive

\* A stretch that begins again at zero is behind the window, near or far.
LEMMA RestartTracks ==
    ASSUME IInv, StreamOK, Restart
    PROVE  Tracks'
<1>1. /\ at' = 0 /\ from' = 0 /\ UNCHANGED vars
  BY DEF Restart
<1>2. Base' = Base /\ binfo' = binfo
  BY <1>1 DEF vars, Base
<1>3. CASE 0 - Base > -LATE_PKT_MCNT_THRESHOLD
  <2>1. 0 > Base - LATE_PKT_MCNT_THRESHOLD /\ 0 <= Base + Half /\ 0 <= Base + Nm
    BY <1>3, StreamNumbers, SMT
  <2> QED
    BY <1>1, <1>2, <2>1 DEF Tracks, Synced, LATE_PKT_MCNT_THRESHOLD, Half
<1>4. CASE 0 - Base <= -LATE_PKT_MCNT_THRESHOLD
  <2>1. IsOutOfSeq(0 - Base)
    BY <1>4, StreamNumbers, SMT DEF IsOutOfSeq, InWindow, IsLate
  <2>2. 0 - 0 <= binfo.out_of_seq_cnt /\ 0 - 0 <= MAX_OUT_OF_SEQ
    BY StreamNumbers, SMT
  <2> QED
    BY <1>1, <1>2, <2>1, <2>2 DEF Tracks, Adrift, MAX_OUT_OF_SEQ
<1> QED
  BY <1>3, <1>4, StreamNumbers, SMT

\* The other steps of the thread leave the window to the stream.
LEMMA TracksKept ==
    ASSUME Tracks, UNCHANGED <<at, from>>, Base' = Base,
           \/ binfo'.out_of_seq_cnt = binfo.out_of_seq_cnt
           \/ Completing /\ binfo'.out_of_seq_cnt = 0,
           Completing' => Completing, pc # "exited",
           IInv, StreamOK
    PROVE  Tracks'
<1>1. CASE Synced
  BY <1>1 DEF Tracks, Synced, LATE_PKT_MCNT_THRESHOLD, Half
<1>2. CASE Adrift
  <2>1. at - from <= binfo'.out_of_seq_cnt
    <3>1. CASE Completing /\ binfo'.out_of_seq_cnt = 0
      BY <1>2, <3>1, StreamNumbers, SMT DEF Adrift
    <3> QED
      BY <1>2, <3>1 DEF Adrift
  <2> QED
    BY <1>2, <2>1 DEF Tracks, Adrift, MAX_OUT_OF_SEQ
<1> QED
  BY <1>1, <1>2 DEF Tracks

LEMMA StepTracks ==
    ASSUME IInv, StreamOK, Tracks, [StreamNext]_streamVars
    PROVE  Tracks'
<1>1. CASE Deliver
  <2>1. pc = "recv"
    BY <1>1 DEF Deliver, Receive
  <2> QED
    BY <1>1, <2>1, AdriftGoesOn, SyncedGoesOn DEF Tracks
<1>2. CASE Restart
  BY <1>2, RestartTracks
<1>3. CASE UpdateStatus /\ UNCHANGED <<from, at, restarts>>
  <2>1. /\ pc = "status" /\ pc' = "acquire"
        /\ binfo'.mcnt_start = binfo.mcnt_start + Nm
        /\ binfo'.out_of_seq_cnt = binfo.out_of_seq_cnt
    BY <1>3 DEF UpdateStatus, Advance, IInv, TypeOK
  <2>2. Base' = Base /\ Completing
    BY <2>1 DEF Base, Completing
  <2> QED
    BY <1>3, <2>1, <2>2, TracksKept
<1>4. CASE AcquireNext /\ UNCHANGED <<from, at, restarts>>
  <2>1. /\ pc = "acquire" /\ pc' = "return"
        /\ binfo'.mcnt_start = binfo.mcnt_start
    BY <1>4, AcquireNextInfo DEF AcquireNext
  <2>2. binfo'.out_of_seq_cnt = 0
    BY <1>4 DEF AcquireNext, CountPacket, CountersReset, IInv, TypeOK
  <2>3. Base' = Base /\ Completing /\ ~Completing'
    BY <2>1 DEF Base, Completing
  <2> QED
    BY <1>4, <2>1, <2>2, <2>3, TracksKept
<1>5. CASE WaitFails \/ Stop \/ Exited
  BY <1>5 DEF WaitFails, Stop, Exited, vars, Tracks
<1>6. CASE /\ \/ Start \/ SkipFrame \/ Return
              \/ UNCHANGED streamVars
              \/ \E b \in InBlocks : Drain(b)
           /\ UNCHANGED <<from, at, restarts>>
  <2>1. /\ UNCHANGED binfo
        /\ \/ pc' = pc
           \/ pc \in {"start", "return"} /\ pc' = "recv"
    BY <1>6 DEF Start, SkipFrame, Return, Drain, vars, streamVars
  <2>2. Base' = Base /\ (Completing' => Completing)
    BY <2>1 DEF Base, Completing
  <2>3. CASE pc = "exited"
    BY <2>1, <2>3 DEF Tracks
  <2> QED
    BY <1>6, <2>1, <2>2, <2>3, TracksKept
<1>7. UNCHANGED streamVars => UNCHANGED <<from, at, restarts>>
  BY DEF streamVars
<1> QED
  BY <1>1, <1>2, <1>3, <1>4, <1>5, <1>6, <1>7 DEF StreamNext, ThreadStep

LEMMA StreamInvariance == StreamSpec => [](IInv /\ StreamOK /\ Tracks)
<1>1. StreamInit => IInv /\ StreamOK /\ Tracks
  BY InitStream, InitTracks
<1>2. (IInv /\ StreamOK /\ Tracks) /\ [StreamNext]_streamVars => (IInv /\ StreamOK /\ Tracks)'
  BY StepStreamIInv, StepTracks
<1> QED
  BY <1>1, <1>2, PTL DEF StreamSpec

(***************************************************************************)
(* Wherever the stream starts and restarts, it sets off a                  *)
(* resynchronisation among the first packets of a stretch only, and so at  *)
(* most one.                                                               *)
(***************************************************************************)
THEOREM ResyncsOnlyEarly == StreamSpec => ResyncOnce
<1>1. (IInv /\ StreamOK /\ Tracks) /\ [StreamNext]_streamVars
          => [Resync(NextPacket) => at <= from + MAX_OUT_OF_SEQ]_streamVars
  <2> SUFFICES ASSUME IInv, StreamOK, Tracks, StreamNext, Resync(NextPacket)
               PROVE  at <= from + MAX_OUT_OF_SEQ
    OBVIOUS
  <2>1. binfo'.out_of_seq_cnt = binfo.out_of_seq_cnt + 1 /\ binfo.out_of_seq_cnt \in Nat
    BY DEF Resync, IInv, TypeOK
  <2>2. binfo'.out_of_seq_cnt \notin {binfo.out_of_seq_cnt, 0}
    BY <2>1, SMT
  <2>3. Deliver
    <3>1. CASE AcquireNext
      BY <2>2, <3>1 DEF AcquireNext, CountPacket, CountersReset, IInv, TypeOK
    <3>2. CASE UpdateStatus
      BY <2>2, <3>2 DEF UpdateStatus, Advance, IInv, TypeOK
    <3>3. ASSUME binfo' = binfo PROVE FALSE
      BY <2>2, <3>3
    <3> QED
      BY <3>1, <3>2, <3>3 DEF StreamNext, Restart, ThreadStep, Start, SkipFrame, Return,
                              WaitFails, Stop, Exited, Drain, vars
  <2>4. pc = "recv"
    BY <2>3 DEF Deliver, Receive
  <2> QED
    BY <2>3, <2>4, AdriftGoesOn, SyncedGoesOn DEF Tracks
<1> QED
  BY <1>1, StreamInvariance, PTL DEF StreamSpec, ResyncOnce
-----------------------------------------------------------------------------
(***************************************************************************)
(* The first stretch of the stream: what was stored, what is counted, and  *)
(* what is whole.                                                          *)
(***************************************************************************)
FirstStretch == restarts = Restarts

GoodSource == Source < N_SOURCE_NODES

\* Only packets of the stretch are stored or at hand.
Came ==
    /\ \A b \in InBlocks : \A x \in stored[b] : x < at
    /\ Completing => pkt.mcnt < at /\ pkt.sid = Source

\* The blocks after the first ones, which the stream reaches in sync.
Settled(b) == hdr[b].mcnt > from + MAX_OUT_OF_SEQ

\* The blocks that the thread is writing, under the headers of the window.
Writing(b) ==
    \/ pc \in {"recv", "return"} /\ b \in {CurBlock, Ahead}
    \/ pc = "status" /\ b = Ahead
    \/ pc = "acquire" /\ b = CurBlock

\* The packet that completed a block waits for its own.
PutAside(x) == Completing /\ x = pkt.mcnt

FilledWhole(b) == IsFilled(sem, b) => \A x \in BlockMcnts(hdr[b].mcnt) : x \in stored[b]

\* Nothing that came for a block is missing in it.
WholeSoFar(b) ==
    Writing(b) =>
        \A x \in BlockMcnts(hdr[b].mcnt) : x < at => x \in stored[b] \/ PutAside(x)

Whole == \A b \in InBlocks : Settled(b) => FilledWhole(b) /\ WholeSoFar(b)

Complete == FirstStretch => Came /\ GapsCounted /\ Whole

LEMMA InitComplete == StreamInit => Complete
<1> SUFFICES ASSUME StreamInit PROVE Complete
  OBVIOUS
<1>1. Came /\ GapsCounted
  BY InitCounts DEF StreamInit, Init, Came, Completing
<1>2. \A b \in InBlocks : ~IsFilled(sem, b) /\ ~Writing(b)
  BY DEF StreamInit, Init, DatabufCreate, InBlocks, IsFilled, Writing
<1> QED
  BY <1>1, <1>2 DEF Complete, Whole, FilledWhole, WholeSoFar

\* What AcquireNext does to the two blocks, with a good source id.
LEMMA AcquireNextWrites ==
    ASSUME IInv, ~BadSid(pkt), AcquireNext
    PROVE  /\ hdr'[CurBlock].mcnt = hdr[CurBlock].mcnt
           /\ hdr'[Ahead].mcnt = binfo.mcnt_start + Nm
           /\ stored'[CurBlock] = stored[CurBlock] \cup {pkt.mcnt}
           /\ stored'[Ahead] = {}
           /\ \A c \in InBlocks \ {CurBlock, Ahead} : stored'[c] = stored[c]
<1> DEFINE h == InitializeBlock(hdr, pkt.mcnt + Nm, pkt.sid)
           s == NoneStored(stored, pkt.mcnt + Nm)
<1>1. CurBlock \in InBlocks /\ Ahead \in InBlocks /\ Ahead # CurBlock
  BY WindowSlots DEF IInv
<1>2. /\ pkt.mcnt \in Nat /\ pkt.sid \in Nat /\ pkt.mcnt + Nm \in Nat
      /\ block_for_mcnt(pkt.mcnt) = CurBlock
      /\ block_for_mcnt(pkt.mcnt + Nm) = Ahead
  BY AcquireNextSlots DEF AcquireNext
<1>3. /\ pkt \in Packet /\ hdr \in [InBlocks -> Header]
      /\ stored \in [InBlocks -> SUBSET Nat]
  BY DEF IInv, TypeOK, Packet
<1>4. /\ h \in [InBlocks -> Header] /\ h[Ahead].mcnt = binfo.mcnt_start + Nm
      /\ \A c \in InBlocks : c # Ahead => h[c] = hdr[c]
  BY <1>2, <1>3, InitializeBlockIs, AcquireNextSlots DEF AcquireNext
<1>5. /\ s \in [InBlocks -> SUBSET Nat] /\ s[Ahead] = {}
      /\ \A c \in InBlocks : c # Ahead => s[c] = stored[c]
  BY <1>2, <1>3, NoneStoredIs
<1>6. hdr' = DecrementMissed(h, pkt) /\ stored' = NoteStored(s, pkt)
  BY DEF AcquireNext
<1> HIDE DEF h, s
<1>7. \A c \in InBlocks : hdr'[c].mcnt = h[c].mcnt
  BY <1>3, <1>4, <1>6, DecrementMissedIs
<1>8. /\ stored'[CurBlock] = s[CurBlock] \cup {pkt.mcnt}
      /\ \A c \in InBlocks : c # CurBlock => stored'[c] = s[c]
  <2>1. /\ block_for_mcnt(pkt.mcnt) = CurBlock /\ s \in [InBlocks -> SUBSET Nat]
        /\ pkt \in Packet /\ stored' = NoteStored(s, pkt)
    BY <1>2, <1>3, <1>5, <1>6
  <2> QED
    BY <2>1, NoteStoredIs
<1> QED
  BY <1>1, <1>4, <1>5, <1>7, <1>8

LEMMA SourceIsGood ==
    ASSUME GoodSource, at \in Nat
    PROVE  ~BadSid(NextPacket)
<1>1. NextPacket.sid = Source /\ Source \in Nat /\ N_SOURCE_NODES \in Nat
  BY NextPacketIs, StreamConstants, PktsockConstants
<1> QED
  BY <1>1, SMT DEF GoodSource, BadSid

\* The packet at hand is the source's, too.
LEMMA AtHandIsGood ==
    ASSUME GoodSource, Came, Completing
    PROVE  ~BadSid(pkt)
<1>1. pkt.sid = Source /\ Source \in Nat /\ N_SOURCE_NODES \in Nat
  BY StreamConstants, PktsockConstants DEF Came
<1> QED
  BY <1>1, SMT DEF GoodSource, BadSid

\* Each packet is counted once: the stretch does not repeat one.
LEMMA StreamCounts ==
    ASSUME GoodSource, IInv, at \in Nat, Came, GapsCounted, StreamNext
    PROVE  GapsCounted'
<1>1. CASE Deliver
  <2> DEFINE p == NextPacket
  <2>1. p \in Packet /\ p.mcnt = at /\ at \in Nat /\ ~BadSid(p) /\ Receive(p)
    BY <1>1, NextPacketIs, SourceIsGood DEF Deliver
  <2> HIDE DEF p
  <2>2. IsNew(p)
    <3>1. block_for_mcnt(at) \in InBlocks
      BY <2>1, SlotIsBlock
    <3>2. ~(at < at)
      BY <2>1, SMT
    <3> QED
      BY <2>1, <3>1, <3>2 DEF IsNew, Came
  <2> QED
    BY <2>1, <2>2, ReceiveCounts
<1>2. CASE AcquireNext
  <2>1. Completing
    BY <1>2 DEF AcquireNext, Completing
  <2> QED
    BY <1>2, <2>1, AtHandIsGood, AcquireNextCounts
<1>3. CASE Restart
  BY <1>3, OtherStepsCount DEF Restart
<1> QED
  BY <1>1, <1>2, <1>3, StartCounts, OtherStepsCount DEF StreamNext, ThreadStep

LEMMA DeliverCame ==
    ASSUME IInv, at \in Nat, Came, Deliver
    PROVE  Came'
<1> DEFINE p == NextPacket
<1>1. /\ p \in Packet /\ p.mcnt = at /\ p.sid = Source /\ pc = "recv" /\ Receive(p)
      /\ at' = at + 1 /\ at \in Nat
  BY NextPacketIs DEF Deliver, Receive
<1> HIDE DEF p
<1>2. stored \in [InBlocks -> SUBSET Nat]
  BY DEF IInv, TypeOK
<1>3. ASSUME NEW b \in InBlocks, NEW x \in stored'[b] PROVE x \in stored[b] \cup {at}
  <2>1. CASE StorePacket(p)
    BY <1>1, <1>2, <1>3, <2>1, NoteStoredIs DEF StorePacket
  <2>2. CASE Resync(p)
    <3> DEFINE start == ResetMcnt(p.mcnt, binfo.block_i)
               s1 == NoneStored(stored, start)
    <3>1. start \in Nat /\ start + Nm \in Nat
      <4>1. start \in Nat
        BY <1>1, ResyncSlots
      <4> QED
        BY <4>1, Constants, SMT
    <3>2. stored' = NoneStored(s1, start + Nm)
      BY <2>2 DEF Resync
    <3>3. s1 \in [InBlocks -> SUBSET Nat] /\ s1[b] \subseteq stored[b]
      BY <1>2, <3>1, NoneStoredIs
    <3> HIDE DEF start, s1
    <3>4. stored'[b] \subseteq s1[b]
      BY <3>1, <3>2, <3>3, NoneStoredIs
    <3> QED
      BY <1>3, <3>3, <3>4
  <2>3. CASE MarkFilled(p) \/ SetFilledFails(p) \/ IgnoreLate(p) \/ CountOutOfSeq(p)
    BY <1>3, <2>3 DEF MarkFilled, SetFilledFails, IgnoreLate, CountOutOfSeq, vars
  <2> QED
    BY <1>1, <2>1, <2>2, <2>3 DEF Receive
<1>4. ASSUME NEW b \in InBlocks, NEW x \in stored'[b] PROVE x < at'
  <2>1. stored[b] \subseteq Nat
    BY <1>2
  <2>2. x \in Nat /\ (x < at \/ x = at)
    BY <1>1, <1>3, <1>4, <2>1 DEF Came
  <2> QED
    BY <1>1, <2>2, SMT
<1>5. Completing' => pkt'.mcnt < at' /\ pkt'.sid = Source
  <2>1. CASE MarkFilled(p)
    <3>1. pkt' = p
      BY <2>1 DEF MarkFilled
    <3> QED
      BY <1>1, <3>1, SMT
  <2>2. CASE ~MarkFilled(p)
    <3>1. pc' \in {"recv", "exited"}
      BY <1>1, <2>2 DEF Receive, StorePacket, SetFilledFails, IgnoreLate, CountOutOfSeq, Resync,
                        vars
    <3> QED
      BY <3>1 DEF Completing
  <2> QED
    BY <2>1, <2>2
<1> QED
  BY <1>4, <1>5 DEF Came

\* A step that does not restart the stream.
StreamStep ==
    \/ Deliver
    \/ /\ ThreadStep \/ \E b \in InBlocks : Drain(b)
       /\ UNCHANGED <<from, at, restarts>>

LEMMA StepCame ==
    ASSUME GoodSource, IInv, at \in Nat, Came, StreamStep
    PROVE  Came'
<1>1. CASE AcquireNext /\ UNCHANGED <<from, at, restarts>>
  <2>1. Completing /\ pc' = "return"
    BY <1>1 DEF AcquireNext, Completing
  <2>2. ~BadSid(pkt)
    BY <2>1, AtHandIsGood
  <2>3. ASSUME NEW b \in InBlocks, NEW x \in stored'[b] PROVE x \in stored[b] \/ x = pkt.mcnt
    BY <1>1, <2>2, <2>3, AcquireNextWrites
  <2>4. ~Completing'
    BY <2>1 DEF Completing
  <2> QED
    BY <1>1, <2>1, <2>3, <2>4 DEF Came
<1>2. CASE Deliver
  BY <1>2, DeliverCame
<1>3. CASE /\ ThreadStep \/ \E b \in InBlocks : Drain(b)
           /\ UNCHANGED <<from, at, restarts>>
           /\ ~AcquireNext
  <2>1. UNCHANGED stored
    BY <1>3 DEF ThreadStep, Start, SkipFrame, UpdateStatus, Return, WaitFails, Stop, Exited,
                Drain, vars
  <2>2. pc' \in {"status", "acquire"} => pc \in {"status", "acquire"} /\ pkt' = pkt
    BY <1>3 DEF ThreadStep, Start, SkipFrame, UpdateStatus, Return, WaitFails, Stop, Exited,
                Drain, vars
  <2> QED
    BY <1>3, <2>1, <2>2 DEF Came, Completing
<1> QED
  BY <1>1, <1>2, <1>3 DEF StreamStep, ThreadStep

\* The stream has not reached the blocks after the first ones.
LEMMA NotReached ==
    ASSUME NEW m \in Nat, NEW start \in Nat, NEW max \in Nat, NEW n \in Nat,
           n <= start + max + 1, m > start + max, NEW x \in BlockMcnts(m)
    PROVE  ~(x < n)
  BY Constants, SMT DEF BlockMcnts

LEMMA EarlyIsWhole ==
    ASSUME IInv', StreamOK', at' <= from' + MAX_OUT_OF_SEQ + 1,
           NEW b \in InBlocks, Settled(b)'
    PROVE  WholeSoFar(b)'
<1>1. hdr'[b].mcnt \in Nat /\ from' \in Nat /\ at' \in Nat /\ MAX_OUT_OF_SEQ \in Nat
  BY StreamConstants DEF IInv, TypeOK, Header, StreamOK
<1>2. hdr'[b].mcnt > from' + MAX_OUT_OF_SEQ
  BY DEF Settled, MAX_OUT_OF_SEQ
<1>3. \A x \in BlockMcnts(hdr'[b].mcnt) : ~(x < at')
  BY <1>1, <1>2, NotReached
<1> QED
  BY <1>3 DEF WholeSoFar

\* A block that was filled before the step keeps its header and its packets.
LEMMA FilledStaysWhole ==
    ASSUME IInv, Whole, [AnyNext]_vars, from' = from,
           NEW b \in InBlocks, Settled(b)', IsFilled(sem, b)
    PROVE  FilledWhole(b)'
<1>1. hdr'[b] = hdr[b] /\ stored'[b] = stored[b]
  BY AnyStepFreezes DEF LeavesFilledBlocks, vars
<1>2. Settled(b)
  BY <1>1 DEF Settled, MAX_OUT_OF_SEQ
<1> QED
  BY <1>1, <1>2 DEF Whole, FilledWhole

\* Steps that write nothing, and start to write no block.
LEMMA WholeKept ==
    ASSUME Whole, UNCHANGED <<hdr, stored, from, at>>,
           \A b \in InBlocks : IsFilled(sem, b)' => IsFilled(sem, b),
           \A b \in InBlocks : Writing(b)' => Writing(b),
           \/ pc' \notin {"status", "acquire"} /\ pc \notin {"status", "acquire"}
           \/ pc' = "exited"
           \/ pc' \in {"status", "acquire"} /\ pkt' = pkt
    PROVE  Whole'
<1> SUFFICES ASSUME NEW b \in InBlocks, Settled(b)'
             PROVE  FilledWhole(b)' /\ WholeSoFar(b)'
  BY DEF Whole
<1>1. FilledWhole(b) /\ WholeSoFar(b)
  BY DEF Whole, Settled, MAX_OUT_OF_SEQ
<1>2. FilledWhole(b)'
  BY <1>1 DEF FilledWhole
<1>3. WholeSoFar(b)'
  <2>1. ASSUME pc' # "exited", NEW x, PutAside(x) PROVE PutAside(x)'
    BY <2>1 DEF PutAside, Completing
  <2>2. pc' = "exited" => ~Writing(b)'
    BY DEF Writing
  <2> QED
    BY <1>1, <2>1, <2>2 DEF WholeSoFar
<1> QED
  BY <1>2, <1>3

\* The window while the thread waits for a packet.
LEMMA WindowIs ==
    ASSUME IInv, pc = "recv", NEW b \in {CurBlock, Ahead}
    PROVE  /\ b \in InBlocks /\ IsFree(sem, b) /\ Writing(b)
           /\ hdr[b].mcnt \in Nat /\ hdr[b].mcnt % Nm = 0
           /\ binfo.mcnt_start \in Nat /\ binfo.mcnt_start <= hdr[b].mcnt
           /\ block_for_mcnt(hdr[b].mcnt) = b
<1>1. /\ binfo.mcnt_start \in Nat /\ binfo.mcnt_start % Nm = 0
      /\ (binfo.mcnt_start + Nm) % Nm = 0
      /\ CurBlock \in InBlocks /\ Ahead \in InBlocks
      /\ block_for_mcnt(binfo.mcnt_start) = CurBlock
      /\ block_for_mcnt(binfo.mcnt_start + Nm) = Ahead
  BY WindowSlots DEF IInv
<1>2. Holds(CurBlock, binfo.mcnt_start) /\ Holds(Ahead, binfo.mcnt_start + Nm)
  BY DEF IInv, OwnsWindow
<1>3. /\ binfo.mcnt_start <= binfo.mcnt_start /\ binfo.mcnt_start <= binfo.mcnt_start + Nm
      /\ binfo.mcnt_start + Nm \in Nat
  BY <1>1, Constants, SMT
<1> QED
  BY <1>1, <1>2, <1>3 DEF Holds, Writing

\* The packet is stored in the block whose header covers it.
LEMMA StorePacketWhole ==
    ASSUME IInv, StreamOK, Whole, GoodSource, Deliver, StorePacket(NextPacket),
           NEW b \in InBlocks, Settled(b)'
    PROVE  WholeSoFar(b)'
<1> DEFINE p == NextPacket
<1>1. /\ p \in Packet /\ p.mcnt = at /\ ~BadSid(p) /\ pc = "recv"
      /\ at' = at + 1 /\ at \in Nat /\ from' = from /\ StorePacket(p)
  BY NextPacketIs, SourceIsGood DEF Deliver, Receive, StreamOK
<1> HIDE DEF p
<1>2. /\ hdr \in [InBlocks -> Header] /\ stored \in [InBlocks -> SUBSET Nat]
      /\ binfo \in BlockInfo
  BY DEF IInv, TypeOK, BlockInfo
<1>3. hdr'[b].mcnt = hdr[b].mcnt
  BY <1>1, <1>2, DecrementMissedIs DEF StorePacket
<1>4. /\ stored[b] \subseteq stored'[b]
      /\ block_for_mcnt(p.mcnt) = b => p.mcnt \in stored'[b]
  <2>1. stored' = NoteStored(stored, p)
    BY <1>1 DEF StorePacket
  <2>2. /\ stored'[block_for_mcnt(p.mcnt)] = stored[block_for_mcnt(p.mcnt)] \cup {p.mcnt}
        /\ \A c \in InBlocks : c # block_for_mcnt(p.mcnt) => stored'[c] = stored[c]
    BY <1>1, <1>2, <2>1, NoteStoredIs
  <2> QED
    BY <2>2
<1>5. CurBlock' = CurBlock /\ Ahead' = Ahead /\ pc' = "recv"
  BY <1>1, <1>2, CountPacketIs DEF StorePacket, CurBlock, Ahead
<1> SUFFICES ASSUME Writing(b)', NEW x \in BlockMcnts(hdr[b].mcnt), x < at'
             PROVE  x \in stored'[b]
  BY <1>3 DEF WholeSoFar
<1>6. b \in {CurBlock, Ahead}
  BY <1>5 DEF Writing
<1>7. /\ hdr[b].mcnt \in Nat /\ hdr[b].mcnt % Nm = 0 /\ Writing(b)
      /\ block_for_mcnt(hdr[b].mcnt) = b
  BY <1>1, <1>6, WindowIs
<1>8. x \in Nat
  BY <1>7, Constants, SMT DEF BlockMcnts
<1>9. CASE x < at
  <2>1. Settled(b)
    BY <1>1, <1>3 DEF Settled, MAX_OUT_OF_SEQ
  <2>2. WholeSoFar(b) /\ ~PutAside(x)
    BY <1>1, <2>1 DEF Whole, PutAside, Completing
  <2> QED
    BY <1>4, <1>7, <1>9, <2>2 DEF WholeSoFar
<1>10. CASE x = at
  <2>1. block_for_mcnt(p.mcnt) = b
    BY <1>1, <1>7, <1>8, <1>10, BlockMcntsSlot
  <2> QED
    BY <1>1, <1>4, <1>10, <2>1
<1>11. x < at \/ x = at
  BY <1>1, <1>8, SMT
<1> QED
  BY <1>9, <1>10, <1>11

\* A late packet belongs to no block of the window.
LEMMA IgnoreLateWhole ==
    ASSUME IInv, StreamOK, Whole, Deliver, IgnoreLate(NextPacket),
           NEW b \in InBlocks, Settled(b)'
    PROVE  WholeSoFar(b)'
<1>1. /\ pc = "recv" /\ at' = at + 1 /\ at \in Nat /\ from' = from
      /\ UNCHANGED vars /\ at - binfo.mcnt_start < 0
  BY NextPacketIs DEF Deliver, Receive, StreamOK, IgnoreLate, IsLate, Dist
<1>2. UNCHANGED <<hdr, stored, binfo, pc>>
  BY <1>1 DEF vars
<1> SUFFICES ASSUME Writing(b)', NEW x \in BlockMcnts(hdr[b].mcnt), x < at'
             PROVE  x \in stored[b]
  BY <1>2 DEF WholeSoFar
<1>3. b \in {CurBlock, Ahead}
  BY <1>1, <1>2 DEF Writing, CurBlock, Ahead
<1>4. hdr[b].mcnt \in Nat /\ binfo.mcnt_start \in Nat /\ binfo.mcnt_start <= hdr[b].mcnt
  BY <1>1, <1>3, WindowIs
<1>5. x \in Nat /\ hdr[b].mcnt <= x
  BY <1>4, Constants, SMT DEF BlockMcnts
<1> QED
  BY <1>1, <1>4, <1>5, SMT

\* The block completed is whole, and the packet that completed it is put aside.
LEMMA CompleteWhole ==
    ASSUME IInv, StreamOK, Whole, Deliver,
           MarkFilled(NextPacket) \/ SetFilledFails(NextPacket),
           NEW b \in InBlocks, Settled(b)'
    PROVE  FilledWhole(b)' /\ WholeSoFar(b)'
<1> DEFINE p == NextPacket
<1>1. /\ p \in Packet /\ p.mcnt = at /\ pc = "recv"
      /\ at' = at + 1 /\ at \in Nat /\ from' = from
      /\ MarkFilled(p) \/ SetFilledFails(p)
  BY NextPacketIs DEF Deliver, Receive, StreamOK
<1> HIDE DEF p
<1>2. /\ UNCHANGED <<stored, binfo>>
      /\ hdr' = StampBlock
      /\ \/ sem' = SetFilled(sem, CurBlock) /\ pc' = "status" /\ pkt' = p
         \/ sem' = sem /\ pc' = "exited"
  BY <1>1, WindowSlots DEF MarkFilled, SetFilledFails, IInv
<1>3. hdr'[b].mcnt = hdr[b].mcnt
  <2>1. hdr \in [InBlocks -> Header] /\ hdr' = [hdr EXCEPT ![CurBlock].time = binfo.mcnt_start]
    BY <1>2 DEF StampBlock, IInv, TypeOK
  <2> QED
    BY <2>1 DEF Header
<1>4. FilledWhole(b) /\ WholeSoFar(b) /\ \A x : ~PutAside(x)
  BY <1>1, <1>3 DEF Settled, MAX_OUT_OF_SEQ, Whole, PutAside, Completing
<1>5. FilledWhole(b)'
  <2> SUFFICES ASSUME IsFilled(sem', b), NEW x \in BlockMcnts(hdr[b].mcnt)
               PROVE  x \in stored[b]
    BY <1>2, <1>3 DEF FilledWhole
  <2>1. CASE IsFilled(sem, b)
    BY <1>4, <2>1 DEF FilledWhole
  <2>2. CASE ~IsFilled(sem, b)
    <3>1. sem \in [InBlocks -> BlockState]
      BY DEF IInv, TypeOK
    <3>2. b = CurBlock
      BY <1>2, <2>2, <3>1 DEF IsFilled, SetFilled
    <3>3. hdr[b].mcnt = binfo.mcnt_start /\ binfo.mcnt_start \in Nat
      BY <1>1, <3>2 DEF IInv, OwnsWindow, Holds, TypeOK
    <3>4. Nm <= at - binfo.mcnt_start
      <4>1. at - binfo.mcnt_start \in Int
        BY <1>1, <3>3, SMT
      <4>2. Completes(at - binfo.mcnt_start)
        BY <1>1 DEF MarkFilled, SetFilledFails, Dist
      <4> QED
        BY <4>1, <4>2, CompletesInNext
    <3>5. x < at
      BY <1>1, <3>3, <3>4, Constants, SMT DEF BlockMcnts
    <3>6. Writing(b)
      BY <1>1, <3>2 DEF Writing
    <3> QED
      BY <1>4, <3>5, <3>6 DEF WholeSoFar
  <2> QED
    BY <2>1, <2>2
<1>6. WholeSoFar(b)'
  <2> SUFFICES ASSUME Writing(b)', NEW x \in BlockMcnts(hdr[b].mcnt), x < at'
               PROVE  x \in stored[b] \/ PutAside(x)'
    BY <1>2, <1>3 DEF WholeSoFar
  <2>1. b = Ahead /\ pc' = "status" /\ pkt' = p
    BY <1>2 DEF Writing, Ahead
  <2>2. hdr[b].mcnt \in Nat /\ Writing(b)
    BY <1>1, <2>1, WindowIs
  <2>3. x \in Nat
    BY <2>2, Constants, SMT DEF BlockMcnts
  <2>4. CASE x < at
    BY <1>4, <2>2, <2>4 DEF WholeSoFar
  <2>5. CASE x = at
    BY <1>1, <2>1, <2>5 DEF PutAside, Completing
  <2>6. x < at \/ x = at
    BY <1>1, <2>3, SMT
  <2> QED
    BY <2>4, <2>5, <2>6
<1> QED
  BY <1>5, <1>6

LEMMA DeliverWhole ==
    ASSUME IInv, IInv', StreamOK, StreamOK', Tracks, Whole, GoodSource, Deliver
    PROVE  Whole'
<1> SUFFICES ASSUME NEW b \in InBlocks, Settled(b)'
             PROVE  FilledWhole(b)' /\ WholeSoFar(b)'
  BY DEF Whole
<1> DEFINE p == NextPacket
<1>1. /\ pc = "recv" /\ Receive(p) /\ from' = from /\ at' = at + 1
      /\ AnyNext
  BY NextPacketIs DEF Deliver, Receive, AnyNext, StreamOK
<1>2. CASE MarkFilled(p) \/ SetFilledFails(p)
  BY <1>2, CompleteWhole
<1>3. CASE StorePacket(p) \/ IgnoreLate(p) \/ CountOutOfSeq(p) \/ Resync(p)
  <2>1. FilledWhole(b)'
    <3>1. sem' = sem
      BY <1>3 DEF StorePacket, IgnoreLate, CountOutOfSeq, Resync, vars
    <3>2. CASE IsFilled(sem, b)
      BY <1>1, <3>2, FilledStaysWhole
    <3> QED
      BY <3>1, <3>2 DEF FilledWhole
  <2>2. ASSUME CountOutOfSeq(p) \/ Resync(p) PROVE WholeSoFar(b)'
    <3>1. at <= from + MAX_OUT_OF_SEQ
      BY <1>1, <2>2, AdriftGoesOn, SyncedGoesOn DEF Tracks
    <3>2. at' <= from' + MAX_OUT_OF_SEQ + 1
      BY <1>1, <3>1, StreamNumbers, SMT
    <3> QED
      BY <3>2, EarlyIsWhole
  <2> QED
    BY <1>3, <2>1, <2>2, StorePacketWhole, IgnoreLateWhole
<1> QED
  BY <1>1, <1>2, <1>3 DEF Receive

\* The packet put aside goes into the block it belongs to, and no packet of
\* the new block has come yet.
LEMMA AcquireNextWhole ==
    ASSUME IInv, StreamOK, Tracks, Came, Whole, GoodSource,
           AcquireNext, UNCHANGED <<from, at>>
    PROVE  Whole'
<1> SUFFICES ASSUME NEW b \in InBlocks, Settled(b)'
             PROVE  FilledWhole(b)' /\ WholeSoFar(b)'
  BY DEF Whole
<1>1. pc = "acquire" /\ pc' = "return" /\ UNCHANGED <<sem, pkt>> /\ Completing /\ Base = binfo.mcnt_start
  BY DEF AcquireNext, Completing, Base
<1>2. ~BadSid(pkt) /\ AnyNext
  BY <1>1, AtHandIsGood DEF AnyNext, ThreadStep
<1>3. FilledWhole(b)'
  <2>1. CASE IsFilled(sem, b)
    BY <1>2, <2>1, FilledStaysWhole
  <2> QED
    BY <1>1, <2>1 DEF FilledWhole
<1>4. WholeSoFar(b)'
  <2>1. CurBlock' = CurBlock /\ Ahead' = Ahead
    BY AcquireNextInfo DEF CurBlock, Ahead
  <2>2. CASE b = Ahead
    <3>1. hdr'[b].mcnt = binfo.mcnt_start + Nm
      BY <1>2, <2>2, AcquireNextWrites
    <3>2. at <= binfo.mcnt_start + Nm
      <4>1. CASE Synced
        BY <1>1, <4>1 DEF Synced
      <4>2. CASE Adrift
        <5>1. at = from
          BY <1>1, <4>2 DEF Adrift
        <5>2. binfo.mcnt_start + Nm > from + MAX_OUT_OF_SEQ
          BY <3>1 DEF Settled, MAX_OUT_OF_SEQ
        <5> QED
          BY <5>1, <5>2, StreamNumbers, SMT
      <4> QED
        BY <1>1, <4>1, <4>2 DEF Tracks
    <3>3. ASSUME NEW x \in BlockMcnts(hdr'[b].mcnt) PROVE ~(x < at')
      <4>1. x \in binfo.mcnt_start + Nm .. (binfo.mcnt_start + Nm) + Nm - 1
        BY <3>1, <3>3 DEF BlockMcnts
      <4> QED
        BY <3>2, <4>1, StreamNumbers, SMT
    <3> QED
      BY <3>3 DEF WholeSoFar
  <2>3. CASE b = CurBlock
    <3>1. hdr'[b].mcnt = hdr[b].mcnt /\ stored'[b] = stored[b] \cup {pkt.mcnt}
      BY <1>2, <2>3, AcquireNextWrites
    <3>2. WholeSoFar(b) /\ Writing(b)
      BY <1>1, <2>3, <3>1 DEF Whole, Settled, MAX_OUT_OF_SEQ, Writing
    <3> QED
      BY <3>1, <3>2 DEF WholeSoFar, PutAside
  <2>4. CASE b \notin {CurBlock, Ahead}
    BY <1>1, <2>1, <2>4 DEF WholeSoFar, Writing
  <2> QED
    BY <2>2, <2>3, <2>4
<1> QED
  BY <1>3, <1>4

LEMMA StepWhole ==
    ASSUME IInv, IInv', StreamOK, StreamOK', Tracks, Came, Whole, GoodSource,
           StreamNext, ~Restart
    PROVE  Whole'
<1>1. CASE Deliver
  BY <1>1, DeliverWhole
<1>2. CASE AcquireNext /\ UNCHANGED <<from, at, restarts>>
  BY <1>2, AcquireNextWhole
<1>3. CASE Start /\ UNCHANGED <<from, at, restarts>>
  <2> SUFFICES ASSUME NEW b \in InBlocks, Settled(b)'
               PROVE  FilledWhole(b)' /\ WholeSoFar(b)'
    BY DEF Whole
  <2>1. pc = "start" /\ sem' = sem
    BY <1>3 DEF Start
  <2>2. FilledWhole(b)'
    <3>1. AnyNext
      BY <1>3 DEF AnyNext, ThreadStep
    <3>2. CASE IsFilled(sem, b)
      BY <1>3, <3>1, <3>2, FilledStaysWhole
    <3> QED
      BY <2>1, <3>2 DEF FilledWhole
  <2>3. at' <= from' + MAX_OUT_OF_SEQ + 1
    <3>1. at = from
      BY <2>1 DEF StreamOK
    <3> QED
      BY <1>3, <3>1, StreamNumbers, SMT
  <2> QED
    BY <2>2, <2>3, EarlyIsWhole
<1>4. CASE UpdateStatus /\ UNCHANGED <<from, at, restarts>>
  <2>1. /\ pc = "status" /\ pc' = "acquire" /\ pkt' = pkt /\ UNCHANGED <<sem, hdr, stored>>
        /\ CurBlock' = Ahead
    BY <1>4 DEF UpdateStatus, Advance, IInv, TypeOK, CurBlock
  <2>2. \A b \in InBlocks : /\ Writing(b)' => Writing(b)
                            /\ IsFilled(sem, b)' => IsFilled(sem, b)
    BY <2>1 DEF Writing, IsFilled
  <2> QED
    BY <1>4, <2>1, <2>2, WholeKept
<1>5. CASE /\ \/ SkipFrame \/ Return \/ WaitFails \/ Stop \/ Exited
              \/ \E b \in InBlocks : Drain(b)
           /\ UNCHANGED <<from, at, restarts>>
  <2>1. /\ UNCHANGED <<hdr, stored, binfo>>
        /\ \/ UNCHANGED <<pc, pkt>>
           \/ pc = "return" /\ pc' = "recv"
           \/ pc' = "exited"
    BY <1>5 DEF SkipFrame, Return, WaitFails, Stop, Exited, Drain, vars
  <2>2. \A b \in InBlocks : Writing(b)' => Writing(b)
    BY <2>1 DEF Writing, CurBlock, Ahead
  <2>3. \A c \in InBlocks : IsFilled(sem, c)' => IsFilled(sem, c)
    <3>1. ASSUME NEW b \in InBlocks, Drain(b)
          PROVE  \A c \in InBlocks : IsFilled(sem, c)' => IsFilled(sem, c)
      BY <3>1 DEF Drain, SetFree, IsFilled, IInv, TypeOK
    <3> QED
      BY <1>5, <3>1 DEF SkipFrame, Return, WaitFails, Stop, Exited, vars, IsFilled
  <2> QED
    BY <1>5, <2>1, <2>2, <2>3, WholeKept
<1> QED
  BY <1>1, <1>2, <1>3, <1>4, <1>5 DEF StreamNext, ThreadStep

LEMMA StepComplete ==
    ASSUME GoodSource, IInv, IInv', StreamOK, StreamOK', Tracks, Complete,
           [StreamNext]_streamVars
    PROVE  Complete'
<1> SUFFICES ASSUME FirstStretch' PROVE (Came /\ GapsCounted /\ Whole)'
  BY DEF Complete
<1>1. restarts \in 0 .. Restarts /\ Restarts \in Nat
  BY StreamConstants DEF StreamOK
<1>2. ~Restart
  BY <1>1, SMT DEF Restart, FirstStretch
<1>3. FirstStretch
  BY <1>2 DEF FirstStretch, StreamNext, Deliver, streamVars
<1>4. Came /\ GapsCounted /\ Whole
  BY <1>3 DEF Complete
<1>5. CASE StreamNext
  BY <1>2, <1>4, <1>5, StepCame, StreamCounts, StepWhole DEF StreamOK, StreamNext, StreamStep
<1>6. CASE UNCHANGED streamVars
  <2>1. UNCHANGED <<vars, from, at>>
    BY <1>6 DEF streamVars
  <2>2. Came'
    BY <1>4, <2>1 DEF Came, Completing, vars
  <2>3. GapsCounted'
    BY <1>4, <2>1, OtherStepsCount
  <2>4. Whole'
    BY <1>4, <2>1 DEF vars, Whole, Settled, FilledWhole, WholeSoFar, Writing, PutAside,
                      Completing, IsFilled, CurBlock, Ahead, MAX_OUT_OF_SEQ
  <2> QED
    BY <2>2, <2>3, <2>4
<1> QED
  BY <1>5, <1>6

(***************************************************************************)
(* Of a loss-free stream with a good source id, every block after the      *)
(* first ones is passed on whole, and says so, wherever the stream starts. *)
(***************************************************************************)
THEOREM BlocksAreWhole == ASSUME GoodSource PROVE StreamSpec => []WholeAfterSync
<1>1. StreamInit => Complete
  BY InitComplete
<1>2. (IInv /\ IInv' /\ StreamOK /\ StreamOK' /\ Tracks /\ Complete) /\ [StreamNext]_streamVars
          => Complete'
  <2> SUFFICES ASSUME IInv, IInv', StreamOK, StreamOK', Tracks, Complete,
                      [StreamNext]_streamVars
               PROVE  Complete'
    OBVIOUS
  <2> QED
    BY GoodSource, StepComplete
<1>3. IInv /\ Complete => WholeAfterSync
  <2> SUFFICES ASSUME IInv, Came, GapsCounted, Whole,
                      NEW b \in InBlocks, IsFilled(sem, b), Settled(b)
               PROVE  hdr[b].missed_pkts = 0 /\ data[b] = BlockMcnts(hdr[b].mcnt)
    BY DEF WholeAfterSync, Complete, FirstStretch, Settled
  <2>1. stored[b] = BlockMcnts(hdr[b].mcnt) /\ stored[b] \subseteq data[b]
    BY DEF Whole, FilledWhole, IInv, StoredUnderHeader
  <2>2. hdr[b].mcnt \in Nat
    BY DEF IInv, TypeOK, Header
  <2>3. hdr[b].missed_pkts = Nm - Cardinality(stored[b])
    BY DEF GapsCounted, MissedIsExact
  <2>4. hdr[b].missed_pkts = Nm - Nm
    BY <2>1, <2>2, <2>3, BlockHasNm
  <2>5. data[b] \subseteq BlockMcnts(hdr[b].mcnt)
    <3> SUFFICES ASSUME NEW x \in data[b] PROVE x \in BlockMcnts(hdr[b].mcnt)
      OBVIOUS
    <3>1. x \in Nat
      BY DEF IInv, TypeOK
    <3>2. PICK y \in BlockMcnts(hdr[b].mcnt) : y % Nm = x % Nm
      BY <2>2, <3>1, EveryPlace
    <3> QED
      BY <2>1, <3>2 DEF IInv, OnePerPlace
  <2> QED
    BY <2>1, <2>4, <2>5, Constants, SMT
<1> QED
  BY <1>1, <1>2, <1>3, StreamInvariance, PTL DEF StreamSpec
-----------------------------------------------------------------------------
(***************************************************************************)
(* The frames the thread receives its packets in (FrameRing), for every    *)
(* number of frames and every network.                                     *)
(***************************************************************************)
\* One step round a ring of n.
LEMMA StepRound ==
    ASSUME NEW n \in Nat, n >= 1, NEW f \in 0 .. n - 1
    PROVE  /\ (f + 1) % n \in 0 .. n - 1
           /\ (f + 1) % n = IF f = n - 1 THEN 0 ELSE f + 1
  BY SMT

\* From slot a of a ring of n forward to slot b.
LEMMA RoundAhead ==
    ASSUME NEW n \in Nat, n >= 1, NEW a \in 0 .. n - 1, NEW b \in 0 .. n - 1
    PROVE  (b - a) % n = IF a <= b THEN b - a ELSE b - a + n
  BY SMT

\* ... and k slots on.
LEMMA SlotsOn ==
    ASSUME NEW n \in Nat, n >= 1, NEW a \in 0 .. n - 1, NEW k \in 0 .. n - 1
    PROVE  (a + k) % n = IF a + k < n THEN a + k ELSE a + k - n
  BY SMT

LEMMA NextFrame ==
    ASSUME NEW f \in Frames
    PROVE  /\ (f + 1) % NFRAMES \in Frames
           /\ (f + 1) % NFRAMES = IF f = NFRAMES - 1 THEN 0 ELSE f + 1
  BY StepRound, FrameRingAssumption, Zenon DEF Frames
-----------------------------------------------------------------------------
\* Every variable keeps its type.
FrameTypeOK ==
    /\ frame \in [Frames -> {"kernel"} \cup Kinds]
    /\ head \in Frames /\ next_idx \in Frames /\ p_frame \in Frames
    /\ frame_pc \in {"drop", "recv", "process", "release"}
    /\ bad \in 0 .. MaxBad

(***************************************************************************)
(* In the ring fr the frames that are taken are those from slot o round to *)
(* slot h; with h = o either all of them or none.                          *)
(***************************************************************************)
Queued(fr, h, o) ==
    IF h = o
    THEN (\A f \in Frames : fr[f] = "kernel") \/ (\A f \in Frames : fr[f] # "kernel")
    ELSE \A f \in Frames :
            fr[f] # "kernel" <=> IF o < h THEN o <= f /\ f < h ELSE o <= f \/ f < h

(***************************************************************************)
(* The frame in hand is the one before the next, and taken, and as long as *)
(* no packet of a wrong size came, the taken frames are queued.            *)
(***************************************************************************)
FrameInv ==
    /\ FrameTypeOK
    /\ frame_pc \in {"process", "release"} => next_idx = (p_frame + 1) % NFRAMES
    /\ bad = 0 =>
        /\ \A f \in Frames : frame[f] # "invalid"
        /\ frame_pc \in {"process", "release"} => frame[p_frame] # "kernel"
        /\ Queued(frame, head, Oldest)

LEMMA OldestIsFrame == ASSUME FrameTypeOK PROVE Oldest \in Frames
  BY DEF FrameTypeOK, Oldest

\* The kernel fills the free frame at the end of the queue.
LEMMA FillQueued ==
    ASSUME NEW fr \in [Frames -> {"kernel"} \cup Kinds], NEW h \in Frames, NEW o \in Frames,
           Queued(fr, h, o), fr[h] = "kernel"
    PROVE  Queued([fr EXCEPT ![h] = "valid"], (h + 1) % NFRAMES, o)
<1> DEFINE fr2 == [fr EXCEPT ![h] = "valid"]
           h2 == (h + 1) % NFRAMES
<1>1. h2 \in Frames /\ h2 = IF h = NFRAMES - 1 THEN 0 ELSE h + 1
  BY NextFrame
<1>2. fr2[h] = "valid" /\ \A f \in Frames : f # h => fr2[f] = fr[f]
  BY DEF Kinds
<1> HIDE DEF fr2, h2
<1>3. \A f \in Frames : f \in Int /\ 0 <= f /\ f < NFRAMES
  BY FrameRingAssumption, SMT DEF Frames
<1>4. CASE h = o
  <2>1. \A f \in Frames : fr[f] = "kernel"
    BY <1>4 DEF Queued
  <2>2. \A f \in Frames : fr2[f] # "kernel" <=> f = h
    BY <1>2, <2>1
  <2> QED
    BY <1>1, <1>3, <1>4, <2>2, FrameRingAssumption, SMT DEF Queued
<1>5. CASE h # o
  <2>1. \A f \in Frames : fr2[f] # "kernel" <=>
            f = h \/ IF o < h THEN o <= f /\ f < h ELSE o <= f \/ f < h
    BY <1>2, <1>5 DEF Queued
  <2> QED
    BY <1>1, <1>3, <1>5, <2>1, FrameRingAssumption, SMT DEF Queued
<1> QED
  BY <1>4, <1>5 DEF fr2, h2

\* The thread releases the frame at the head of the queue.
LEMMA ReleaseQueued ==
    ASSUME NEW fr \in [Frames -> {"kernel"} \cup Kinds], NEW h \in Frames, NEW o \in Frames,
           Queued(fr, h, o), fr[o] # "kernel"
    PROVE  Queued([fr EXCEPT ![o] = "kernel"], h, (o + 1) % NFRAMES)
<1> DEFINE fr2 == [fr EXCEPT ![o] = "kernel"]
           o2 == (o + 1) % NFRAMES
<1>1. o2 \in Frames /\ o2 = IF o = NFRAMES - 1 THEN 0 ELSE o + 1
  BY NextFrame
<1>2. fr2[o] = "kernel" /\ \A f \in Frames : f # o => fr2[f] = fr[f]
  OBVIOUS
<1> HIDE DEF fr2, o2
<1>3. \A f \in Frames : f \in Int /\ 0 <= f /\ f < NFRAMES
  BY FrameRingAssumption, SMT DEF Frames
<1>4. CASE h = o
  <2>1. \A f \in Frames : fr[f] # "kernel"
    BY <1>4 DEF Queued
  <2>2. \A f \in Frames : fr2[f] # "kernel" <=> f # o
    BY <1>2, <2>1
  <2> QED
    BY <1>1, <1>3, <1>4, <2>2, FrameRingAssumption, SMT DEF Queued
<1>5. CASE h # o
  <2>1. \A f \in Frames : fr2[f] # "kernel" <=>
            f # o /\ IF o < h THEN o <= f /\ f < h ELSE o <= f \/ f < h
    BY <1>2, <1>5 DEF Queued
  <2> QED
    BY <1>1, <1>3, <1>5, <2>1, FrameRingAssumption, SMT DEF Queued
<1> QED
  BY <1>4, <1>5 DEF fr2, o2
-----------------------------------------------------------------------------
LEMMA InitFrameInv == FrameInit => FrameInv
<1> SUFFICES ASSUME FrameInit PROVE FrameInv
  OBVIOUS
<1>1. 0 \in Frames
  BY FrameRingAssumption, SMT DEF Frames
<1>2. FrameTypeOK
  BY <1>1, FrameRingAssumption, SMT DEF FrameInit, FrameTypeOK
<1> QED
  BY <1>2 DEF FrameInit, FrameInv, Queued, Oldest

LEMMA ArriveFrameInv == ASSUME FrameInv, NEW kind \in Kinds, Arrive(kind) PROVE FrameInv'
<1>1. UNCHANGED <<next_idx, frame_pc, p_frame>> /\ Oldest' = Oldest
  BY DEF Arrive, Oldest
<1>2. FrameTypeOK
  BY DEF FrameInv
<1>3. bad' \in 0 .. MaxBad /\ (bad' = 0 => bad = 0 /\ kind = "valid")
  BY <1>2, FrameRingAssumption, SMT DEF Arrive, FrameTypeOK, Kinds
<1>4. CASE frame[head] = "kernel" /\ frame' = [frame EXCEPT ![head] = kind]
           /\ head' = (head + 1) % NFRAMES
  <2>1. FrameTypeOK'
    BY <1>1, <1>2, <1>3, <1>4, NextFrame DEF FrameTypeOK
  <2>2. ASSUME bad' = 0
        PROVE  /\ \A f \in Frames : frame'[f] # "invalid"
               /\ frame_pc \in {"process", "release"} => frame'[p_frame] # "kernel"
    BY <1>2, <1>3, <1>4, <2>2 DEF FrameInv, FrameTypeOK
  <2>3. ASSUME bad' = 0 PROVE Queued(frame', head', Oldest)
    <3>1. Queued(frame, head, Oldest)
      BY <1>3, <2>3 DEF FrameInv
    <3> QED
      BY <1>2, <1>3, <1>4, <2>3, <3>1, OldestIsFrame, FillQueued DEF FrameTypeOK
  <2> QED
    BY <1>1, <2>1, <2>2, <2>3 DEF FrameInv
<1>5. CASE UNCHANGED <<frame, head>>
  BY <1>1, <1>2, <1>3, <1>5 DEF FrameInv, FrameTypeOK
<1> QED
  BY <1>4, <1>5 DEF Arrive

LEMMA DropOldFrameInv == ASSUME FrameInv, DropOld PROVE FrameInv'
<1>1. FrameTypeOK /\ frame_pc = "drop" /\ Oldest = next_idx /\ UNCHANGED <<head, p_frame, bad>>
  BY DEF DropOld, FrameInv, Oldest
<1>2. CASE frame[next_idx] # "kernel" /\ ReleaseFrame(next_idx)
           /\ next_idx' = (next_idx + 1) % NFRAMES /\ UNCHANGED frame_pc
  <2>1. FrameTypeOK'
    BY <1>1, <1>2, NextFrame DEF FrameTypeOK, ReleaseFrame
  <2>2. bad = 0 => \A f \in Frames : frame'[f] # "invalid"
    BY <1>1, <1>2 DEF FrameInv, FrameTypeOK, ReleaseFrame
  <2>3. bad = 0 => Queued(frame', head, next_idx')
    BY <1>1, <1>2, ReleaseQueued DEF FrameInv, FrameTypeOK, ReleaseFrame
  <2>4. Oldest' = next_idx'
    BY <1>1, <1>2 DEF Oldest
  <2> QED
    BY <1>1, <1>2, <2>1, <2>2, <2>3, <2>4 DEF FrameInv
<1>3. CASE frame_pc' = "recv" /\ UNCHANGED <<frame, next_idx>>
  BY <1>1, <1>3 DEF FrameInv, FrameTypeOK, Oldest
<1> QED
  BY <1>1, <1>2, <1>3 DEF DropOld

LEMMA ReceiveFrameInv == ASSUME FrameInv, ReceiveFrame PROVE FrameInv'
<1>1. /\ FrameTypeOK /\ frame_pc = "recv" /\ frame[next_idx] # "kernel"
      /\ UNCHANGED <<frame, head, bad>> /\ p_frame' = next_idx
      /\ next_idx' = (next_idx + 1) % NFRAMES
      /\ frame_pc' = IF frame[next_idx] = "invalid" THEN "recv" ELSE "process"
  BY DEF ReceiveFrame, FrameInv
<1>2. FrameTypeOK'
  BY <1>1, NextFrame DEF FrameTypeOK
<1>3. ASSUME bad = 0 PROVE frame_pc' = "process" /\ Oldest' = Oldest
  BY <1>1, <1>3 DEF FrameInv, FrameTypeOK, Oldest
<1> QED
  BY <1>1, <1>2, <1>3 DEF FrameInv

LEMMA ReleaseFrameInv == ASSUME FrameInv, Release PROVE FrameInv'
<1>1. /\ FrameTypeOK /\ frame_pc = "release" /\ frame_pc' = "recv"
      /\ Oldest = p_frame /\ next_idx = (p_frame + 1) % NFRAMES /\ Oldest' = next_idx
      /\ frame' = [frame EXCEPT ![p_frame] = "kernel"]
      /\ UNCHANGED <<head, next_idx, p_frame, bad>>
  BY DEF Release, ReleaseFrame, FrameInv, Oldest
<1>2. FrameTypeOK' /\ (bad = 0 => \A f \in Frames : frame'[f] # "invalid")
  BY <1>1 DEF FrameInv, FrameTypeOK
<1>3. bad = 0 => Queued(frame', head, next_idx)
  BY <1>1, ReleaseQueued DEF FrameInv, FrameTypeOK
<1> QED
  BY <1>1, <1>2, <1>3 DEF FrameInv

LEMMA StepFrameInv == FrameInv /\ [FrameNext]_frameVars => FrameInv'
<1> SUFFICES ASSUME FrameInv, [FrameNext]_frameVars PROVE FrameInv'
  OBVIOUS
<1>1. CASE ProcessPacket
  BY <1>1 DEF ProcessPacket, FrameInv, FrameTypeOK, Oldest
<1>2. CASE UNCHANGED frameVars
  BY <1>2 DEF frameVars, FrameInv, FrameTypeOK, Oldest
<1> QED
  BY <1>1, <1>2, ArriveFrameInv, DropOldFrameInv, ReceiveFrameInv, ReleaseFrameInv
     DEF FrameNext, RunStep

\* The queue as an interval of frames, and as the frames ahead of the oldest.
LEMMA QueuedFrames ==
    ASSUME FrameTypeOK, Queued(frame, head, Oldest)
    PROVE  TakenFramesAreQueued
<1> DEFINE taken == {f \in Frames : frame[f] # "kernel"}
           ahead == (head - Oldest) % NFRAMES
<1>1. head \in Frames /\ Oldest \in Frames
  BY OldestIsFrame DEF FrameTypeOK
<1>2. ahead = IF Oldest <= head THEN head - Oldest ELSE head - Oldest + NFRAMES
  BY <1>1, RoundAhead, FrameRingAssumption, Zenon DEF Frames
<1> HIDE DEF ahead
<1>3. CASE head = Oldest
  <2>1. ahead = 0 /\ 0 .. ahead - 1 = {}
    BY <1>1, <1>2, <1>3, SMT DEF Frames
  <2>2. taken = Frames \/ taken = {}
    BY <1>3 DEF Queued
  <2> QED
    BY <2>1, <2>2 DEF TakenFramesAreQueued, ahead
<1>4. CASE head # Oldest
  <2>1. ahead \in 1 .. NFRAMES - 1
    BY <1>1, <1>2, <1>4, FrameRingAssumption, SMT DEF Frames
  <2>2. ASSUME NEW k \in 0 .. ahead - 1
        PROVE  (Oldest + k) % NFRAMES \in taken
    <3>1. k \in 0 .. NFRAMES - 1
      BY <2>1, <2>2, FrameRingAssumption, SMT
    <3>2. (Oldest + k) % NFRAMES = IF Oldest + k < NFRAMES THEN Oldest + k ELSE Oldest + k - NFRAMES
      BY <1>1, <3>1, SlotsOn, FrameRingAssumption, Zenon DEF Frames
    <3> DEFINE g == (Oldest + k) % NFRAMES
    <3> HIDE DEF g
    <3>3. g \in Frames /\ IF Oldest < head THEN Oldest <= g /\ g < head ELSE Oldest <= g \/ g < head
      BY <1>1, <1>2, <1>4, <2>1, <3>1, <3>2, FrameRingAssumption, SMT DEF Frames, g
    <3>4. frame[g] # "kernel"
      BY <1>4, <3>3 DEF Queued
    <3> QED
      BY <3>3, <3>4 DEF g
  <2>3. ASSUME NEW f \in taken
        PROVE  \E k \in 0 .. ahead - 1 : f = (Oldest + k) % NFRAMES
    <3>1. f \in Frames /\ IF Oldest < head THEN Oldest <= f /\ f < head ELSE Oldest <= f \/ f < head
      BY <1>4 DEF Queued
    <3> DEFINE k == IF Oldest <= f THEN f - Oldest ELSE f - Oldest + NFRAMES
    <3>2. k \in 0 .. ahead - 1 /\ k \in 0 .. NFRAMES - 1
          /\ f = IF Oldest + k < NFRAMES THEN Oldest + k ELSE Oldest + k - NFRAMES
      BY <1>1, <1>2, <1>4, <2>1, <3>1, FrameRingAssumption, SMT DEF Frames
    <3> HIDE DEF k
    <3>3. f = (Oldest + k) % NFRAMES
      BY <1>1, <3>2, SlotsOn, FrameRingAssumption, Zenon DEF Frames
    <3> QED
      BY <3>2, <3>3
  <2>4. taken = {(Oldest + k) % NFRAMES : k \in 0 .. ahead - 1}
    BY <2>2, <2>3, Zenon
  <2>5. ahead # 0
    BY <2>1, SMT
  <2> QED
    BY <2>4, <2>5 DEF TakenFramesAreQueued, ahead
<1> QED
  BY <1>3, <1>4

(***************************************************************************)
(* As long as no wrongly sized packet has come, the frames that are not    *)
(* with the kernel are the queue of the packets received and not released: *)
(* the kernel drops a packet only when all frames wait, and the thread     *)
(* never receives a frame twice.                                           *)
(***************************************************************************)
THEOREM FramesAreQueued == FrameSpec => [](bad = 0 => TakenFramesAreQueued)
<1>1. FrameInv => (bad = 0 => TakenFramesAreQueued)
  BY QueuedFrames DEF FrameInv
<1> QED
  BY <1>1, InitFrameInv, StepFrameInv, PTL DEF FrameSpec

\* ... and on a network that has none, always.
COROLLARY FramesAreQueuedAlways == ASSUME MaxBad = 0 PROVE FrameSpec => []TakenFramesAreQueued
<1>1. FrameInv => TakenFramesAreQueued
  BY QueuedFrames, SMT DEF FrameInv, FrameTypeOK
<1> QED
  BY <1>1, InitFrameInv, StepFrameInv, PTL DEF FrameSpec
=============================================================================
