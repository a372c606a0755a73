-------------------------- MODULE McntArithProofs --------------------------
(***************************************************************************)
(* What the packet-counter arithmetic computes, for every block length and *)
(* every ring size.                                                        *)
(***************************************************************************)
EXTENDS McntArith, TLAPS

\* Division with remainder, as the solver knows it.
LEMMA DivMod ==
    ASSUME NEW m \in Nat, NEW n \in Nat, n > 0
    PROVE  /\ m \div n \in Nat
           /\ m % n \in 0 .. n - 1
           /\ m = n * (m \div n) + (m % n)
  BY SMT

\* A quotient and a remainder are determined by their value.
LEMMA DivModUnique ==
    ASSUME NEW n \in Nat, n > 0, NEW q \in Nat, NEW r \in 0 .. n - 1
    PROVE  (n * q + r) \div n = q /\ (n * q + r) % n = r
  BY SMT

LEMMA ModOfMultiple ==
    ASSUME NEW n \in Nat, n > 0, NEW q \in Nat
    PROVE  (n * q) \div n = q /\ (n * q) % n = 0
  BY SMT

LEMMA Distribute ==
    ASSUME NEW n \in Nat, NEW q \in Nat, NEW k \in Nat
    PROVE  n * (q + k) = n * q + n * k
  BY SMT

LEMMA ProductIsNat == ASSUME NEW n \in Nat, NEW q \in Nat PROVE n * q \in Nat
  BY SMT

\* The constants are positive.
LEMMA Constants ==
    /\ Nm \in Nat /\ Nm > 0 /\ Nm > 1
    /\ N_INPUT_BLOCKS \in Nat /\ N_INPUT_BLOCKS > 0 /\ N_INPUT_BLOCKS > 1
  BY NmAssumption, RingAssumption

\* A slot is a slot of the ring.
LEMMA SlotInRing ==
    ASSUME NEW m \in Nat
    PROVE  block_for_mcnt(m) \in 0 .. N_INPUT_BLOCKS - 1
  BY Constants, DivMod, SMT DEF block_for_mcnt

\* Rounding down gives the start of the block that holds the counter.
LEMMA RoundDownIsStart ==
    ASSUME NEW m \in Nat
    PROVE  /\ RoundDown(m) \in Nat
           /\ RoundDown(m) % Nm = 0
           /\ RoundDown(m) <= m /\ m < RoundDown(m) + Nm
           /\ RoundDown(m) = Nm * (m \div Nm)
<1>1. m \div Nm \in Nat /\ m % Nm \in 0 .. Nm - 1 /\ m = Nm * (m \div Nm) + (m % Nm)
  BY Constants, DivMod
<1>2. RoundDown(m) = Nm * (m \div Nm)
  BY <1>1, Constants, SMT DEF RoundDown
<1>3. (Nm * (m \div Nm)) % Nm = 0
  BY <1>1, Constants, ModOfMultiple
<1> QED
  BY <1>1, <1>2, <1>3, Constants, SMT

\* The counters of a block share its start and its slot.
LEMMA SameBlock ==
    ASSUME NEW s \in Nat, s % Nm = 0, NEW m \in Nat, s <= m, m < s + Nm
    PROVE  RoundDown(m) = s /\ block_for_mcnt(m) = block_for_mcnt(s)
<1> DEFINE q == s \div Nm
<1>1. q \in Nat /\ s = Nm * q
  BY Constants, DivMod, SMT
<1> HIDE DEF q
<1>2. m - s \in 0 .. Nm - 1 /\ m = Nm * q + (m - s)
  BY <1>1, Constants, SMT
<1>3. (Nm * q + (m - s)) \div Nm = q /\ (Nm * q + (m - s)) % Nm = m - s
  BY <1>1, <1>2, Constants, DivModUnique
<1>4. m \div Nm = q /\ m % Nm = m - s
  BY <1>2, <1>3
<1>5. RoundDown(m) = s
  BY <1>4, SMT DEF RoundDown
<1>6. block_for_mcnt(m) = block_for_mcnt(s)
  BY <1>4 DEF block_for_mcnt, q
<1> QED
  BY <1>5, <1>6

\* k blocks on, the start is a start again and the slot is k further.
LEMMA BlocksOn ==
    ASSUME NEW m \in Nat, NEW k \in Nat
    PROVE  /\ m + Nm * k \in Nat
           /\ (m + Nm * k) \div Nm = (m \div Nm) + k
           /\ (m + Nm * k) % Nm = m % Nm
<1>1. m \div Nm \in Nat /\ m % Nm \in 0 .. Nm - 1 /\ m = Nm * (m \div Nm) + (m % Nm)
  BY Constants, DivMod
<1>2. m + Nm * k = Nm * ((m \div Nm) + k) + (m % Nm)
  BY <1>1, Constants, SMT
<1>3. (m \div Nm) + k \in Nat
  BY <1>1, SMT
<1>4. /\ (Nm * ((m \div Nm) + k) + (m % Nm)) \div Nm = (m \div Nm) + k
      /\ (Nm * ((m \div Nm) + k) + (m % Nm)) % Nm = m % Nm
  BY <1>1, <1>3, Constants, DivModUnique
<1>5. m + Nm * k \in Nat
  BY Constants, SMT
<1> QED
  BY <1>2, <1>4, <1>5

\* Adding before or after taking the remainder is the same.
LEMMA ModPlus ==
    ASSUME NEW q \in Nat, NEW k \in Nat, NEW n \in Nat, n > 0
    PROVE  (q + k) % n = ((q % n) + k) % n
<1>1. q \div n \in Nat /\ q % n \in 0 .. n - 1 /\ q = n * (q \div n) + (q % n)
  BY DivMod
<1> DEFINE t == (q % n) + k
<1>2. t \in Nat
  BY <1>1, SMT
<1>3. t \div n \in Nat /\ t % n \in 0 .. n - 1 /\ t = n * (t \div n) + (t % n)
  BY <1>2, DivMod
<1>4. q + k = n * ((q \div n) + (t \div n)) + (t % n)
  <2>1. q + k = n * (q \div n) + t
    BY <1>1, SMT
  <2> HIDE DEF t
  <2>2. n * ((q \div n) + (t \div n)) = n * (q \div n) + n * (t \div n)
    BY <1>1, <1>3, Distribute
  <2> QED
    BY <1>1, <1>3, <2>1, <2>2, SMT
<1>5. (q \div n) + (t \div n) \in Nat
  BY <1>1, <1>3, SMT
<1> HIDE DEF t
<1>6. (n * ((q \div n) + (t \div n)) + (t % n)) % n = t % n
  BY <1>3, <1>5, DivModUnique
<1> QED
  BY <1>4, <1>6 DEF t

\* The next block lives in the next slot.
LEMMA NextSlot ==
    ASSUME NEW m \in Nat
    PROVE  /\ block_for_mcnt(m + Nm) = (block_for_mcnt(m) + 1) % N_INPUT_BLOCKS
           /\ (m + Nm) % Nm = m % Nm
<1>1. /\ (m + Nm * 1) \div Nm = (m \div Nm) + 1
      /\ (m + Nm * 1) % Nm = m % Nm
  BY BlocksOn
<1>2. m + Nm * 1 = m + Nm
  BY Constants, SMT
<1> DEFINE q == m \div Nm
<1>3. q \in Nat
  BY Constants, DivMod
<1> HIDE DEF q
<1>4. 1 \in Nat
  OBVIOUS
<1>5. (q + 1) % N_INPUT_BLOCKS = ((q % N_INPUT_BLOCKS) + 1) % N_INPUT_BLOCKS
  BY <1>3, <1>4, Constants, ModPlus, Zenon
<1> QED
  BY <1>1, <1>2, <1>5 DEF block_for_mcnt, q

\* A packet that completes the current block belongs to the next one.
LEMMA CompletesInNext ==
    ASSUME NEW d \in Int, Completes(d)
    PROVE  Nm <= d /\ d < 2 * Nm
<1>1. Nm <= 3 * (Nm \div 2)
  BY Constants, SMT
<1> QED
  BY <1>1, Constants, SMT DEF Completes, InWindow

\* A resynchronisation keeps the slot, and is at most a ring away.
LEMMA ResetKeepsSlot ==
    ASSUME NEW m \in Nat, NEW b \in 0 .. N_INPUT_BLOCKS - 1
    PROVE  /\ ResetMcnt(m, b) \in Nat
           /\ ResetMcnt(m, b) % Nm = 0
           /\ block_for_mcnt(ResetMcnt(m, b)) = b
           /\ ResetMcnt(m, b) - m \in 1 - Nm .. Nm * (N_INPUT_BLOCKS - 1)
<1> DEFINE k == SlotsAhead(block_for_mcnt(m), b)
           t == m + Nm * k
<1>1. block_for_mcnt(m) \in 0 .. N_INPUT_BLOCKS - 1
  BY SlotInRing
<1>2. k \in 0 .. N_INPUT_BLOCKS - 1 /\ (block_for_mcnt(m) + k = b \/ block_for_mcnt(m) + k = b + N_INPUT_BLOCKS)
  BY <1>1, Constants, SMT DEF SlotsAhead
<1>3. k \in Nat
  BY <1>2, Constants, SMT
<1> HIDE DEF k
<1>4. t \in Nat /\ t \div Nm = (m \div Nm) + k
  BY <1>3, BlocksOn
<1>5. /\ RoundDown(t) \in Nat /\ RoundDown(t) % Nm = 0
      /\ RoundDown(t) <= t /\ t < RoundDown(t) + Nm
  BY <1>4, RoundDownIsStart
<1>6. block_for_mcnt(t) = b
  <2> DEFINE q == m \div Nm
  <2>1. q \in Nat
    BY Constants, DivMod
  <2>2. block_for_mcnt(t) = (block_for_mcnt(m) + k) % N_INPUT_BLOCKS
    <3> HIDE DEF q
    <3>1. (q + k) % N_INPUT_BLOCKS = ((q % N_INPUT_BLOCKS) + k) % N_INPUT_BLOCKS
      BY <1>3, <2>1, Constants, ModPlus, Zenon
    <3> QED
      BY <1>4, <3>1 DEF block_for_mcnt, q
  <2>3. CASE block_for_mcnt(m) + k = b
    BY <2>2, <2>3, Constants, SMT
  <2>4. CASE block_for_mcnt(m) + k = b + N_INPUT_BLOCKS
    <3>1. (b + N_INPUT_BLOCKS) % N_INPUT_BLOCKS = b
      BY Constants, SMT
    <3> QED
      BY <2>2, <2>4, <3>1
  <2> QED
    BY <1>2, <2>3, <2>4
<1>7. block_for_mcnt(RoundDown(t)) = block_for_mcnt(t)
  BY <1>4, <1>5, SameBlock
<1>8. ResetMcnt(m, b) = RoundDown(t)
  BY DEF ResetMcnt, k
<1>9. 0 <= Nm * k /\ Nm * k <= Nm * (N_INPUT_BLOCKS - 1)
  BY <1>2, Constants, SMT
<1>10. Nm * k \in Int /\ t - m = Nm * k
  BY <1>2, Constants, SMT
<1> HIDE DEF t
<1>11. RoundDown(t) - m \in 1 - Nm .. Nm * (N_INPUT_BLOCKS - 1)
  <2> DEFINE r == RoundDown(t)
             d == Nm * k
             far == Nm * (N_INPUT_BLOCKS - 1)
  <2>1. N_INPUT_BLOCKS - 1 \in Nat /\ Nm \in Nat
    BY Constants, SMT
  <2>2. /\ r \in Nat /\ t \in Nat /\ r <= t /\ t < r + Nm
        /\ d \in Int /\ far \in Int /\ 0 <= d /\ d <= far /\ t - m = d
    BY <1>4, <1>5, <1>9, <1>10, <2>1, ProductIsNat
  <2> HIDE DEF r, d, far
  <2>3. r - m \in 1 - Nm .. far
    BY <2>1, <2>2, SMT
  <2> QED
    BY <2>3 DEF r, far
<1> QED
  BY <1>5, <1>6, <1>7, <1>8, <1>11
=============================================================================
