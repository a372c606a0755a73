-------------------------- MODULE RingQueueProofs --------------------------
(***************************************************************************)
(* A ring whose filled blocks follow each other behaves as a queue when    *)
(* its producer fills the block after the last one and its consumer frees  *)
(* the first one.                                                          *)
(***************************************************************************)
EXTENDS RingQueue, SequenceTheorems, TLAPS

\* The blocks from first on are filled, len of them, and the others free.
Run(sem, first, len, n) ==
    \A j \in 0 .. n - 1 : sem[(first + j) % n] = IF j < len THEN "filled" ELSE "free"

LEMMA ModIs ==
    ASSUME NEW n \in Nat \ {0}, NEW x \in 0 .. 2 * n - 1
    PROVE  x % n = IF x < n THEN x ELSE x - n
  BY SMT

\* Going round the ring from any of its slots meets every slot once.
LEMMA RoundTheRing ==
    ASSUME NEW n \in Nat \ {0}, NEW first \in BlockIds(n)
    PROVE  /\ \A j \in 0 .. n - 1 : (first + j) % n \in BlockIds(n)
           /\ \A i, j \in 0 .. n - 1 : (first + i) % n = (first + j) % n => i = j
           /\ \A b \in BlockIds(n) : \E j \in 0 .. n - 1 : b = (first + j) % n
<1>1. first \in 0 .. n - 1
  BY DEF BlockIds
<1>2. ASSUME NEW j \in 0 .. n - 1
      PROVE  (first + j) % n = IF first + j < n THEN first + j ELSE first + j - n
  BY <1>1, SMT
<1>3. \A j \in 0 .. n - 1 : (first + j) % n \in BlockIds(n)
  BY <1>1, <1>2, SMT DEF BlockIds
<1>4. ASSUME NEW i \in 0 .. n - 1, NEW j \in 0 .. n - 1, (first + i) % n = (first + j) % n
      PROVE  i = j
  <2>1. /\ (first + i) % n = IF first + i < n THEN first + i ELSE first + i - n
        /\ (first + j) % n = IF first + j < n THEN first + j ELSE first + j - n
    BY <1>2
  <2> DEFINE r == (first + i) % n
  <2>2. /\ r = IF first + i < n THEN first + i ELSE first + i - n
        /\ r = IF first + j < n THEN first + j ELSE first + j - n
    BY <1>4, <2>1
  <2> HIDE DEF r
  <2> QED
    BY <1>1, <2>2, SMT
<1>5. ASSUME NEW b \in BlockIds(n) PROVE \E j \in 0 .. n - 1 : b = (first + j) % n
  <2> DEFINE j == IF first <= b THEN b - first ELSE b - first + n
  <2>1. j \in 0 .. n - 1 /\ b = IF first + j < n THEN first + j ELSE first + j - n
    BY <1>1, SMT DEF BlockIds
  <2> HIDE DEF j
  <2>2. b = (first + j) % n
    BY <1>2, <2>1
  <2> QED
    BY <2>1, <2>2
<1> QED
  BY <1>3, <1>4, <1>5

\* The slots seen from the block after the first one.
LEMMA FromNext ==
    ASSUME NEW n \in Nat \ {0}, NEW first \in BlockIds(n)
    PROVE  /\ NextBlock(first, n) \in BlockIds(n)
           /\ \A j \in 0 .. n - 1 : (NextBlock(first, n) + j) % n
                                       = IF j < n - 1 THEN (first + (j + 1)) % n ELSE first
<1>1. first \in 0 .. n - 1
  BY DEF BlockIds
<1>2. NextBlock(first, n) = IF first + 1 < n THEN first + 1 ELSE 0
  <2> DEFINE x == first + 1
  <2>1. x \in 0 .. 2 * n - 1
    BY <1>1, SMT
  <2> HIDE DEF x
  <2>2. x % n = IF x < n THEN x ELSE x - n
    BY <2>1, ModIs
  <2>3. x = first + 1
    BY DEF x
  <2> QED
    BY <1>1, <2>2, <2>3, SMT DEF NextBlock
<1> DEFINE next == NextBlock(first, n)
<1>3. next \in 0 .. n - 1
  BY <1>1, <1>2, SMT
<1> HIDE DEF next
<1>4. ASSUME NEW j \in 0 .. n - 1
      PROVE  (next + j) % n = IF j < n - 1 THEN (first + (j + 1)) % n ELSE first
  <2> DEFINE x == next + j
             y == first + (j + 1)
  <2>1. x \in 0 .. 2 * n - 1 /\ (j < n - 1 => y \in 0 .. 2 * n - 1)
    BY <1>1, <1>3, SMT
  <2>2. /\ x = (IF first + 1 < n THEN first + 1 ELSE 0) + j
        /\ y = first + (j + 1)
    BY <1>2 DEF next
  <2> HIDE DEF x, y
  <2>3. x % n = IF x < n THEN x ELSE x - n
    BY <2>1, ModIs
  <2>4. j < n - 1 => y % n = IF y < n THEN y ELSE y - n
    BY <2>1, ModIs
  <2> DEFINE xn == x % n
             yn == y % n
  <2>5. /\ xn = IF x < n THEN x ELSE x - n
        /\ j < n - 1 => yn = IF y < n THEN y ELSE y - n
    BY <2>3, <2>4
  <2> HIDE DEF xn, yn
  <2>6. xn = IF j < n - 1 THEN yn ELSE first
    BY <1>1, <2>1, <2>2, <2>5, SMT
  <2> QED
    BY <2>6 DEF xn, yn, x, y
<1> QED
  BY <1>3, <1>4 DEF next, BlockIds

\* The block after the last one of a run is followed by the next one.
LEMMA AfterRun ==
    ASSUME NEW n \in Nat \ {0}, NEW first \in BlockIds(n), NEW len \in 0 .. n - 1
    PROVE  NextBlock((first + len) % n, n) = (first + (len + 1)) % n
<1>1. first \in 0 .. n - 1
  BY DEF BlockIds
<1> DEFINE x == (first + len) % n
           y == (first + (len + 1)) % n
<1>2. x = IF first + len < n THEN first + len ELSE first + len - n
  BY <1>1, SMT
<1>3. y = IF first + len + 1 < n THEN first + len + 1 ELSE first + len + 1 - n
  BY <1>1, SMT
<1> HIDE DEF x, y
<1>4. x \in 0 .. n - 1 /\ y = IF x + 1 < n THEN x + 1 ELSE x + 1 - n
  BY <1>1, <1>2, <1>3, SMT
<1>5. (x + 1) % n = IF x + 1 < n THEN x + 1 ELSE x + 1 - n
  BY <1>4, SMT
<1>6. (x + 1) % n = y
  BY <1>4, <1>5, Zenon
<1> QED
  BY <1>6 DEF x, y, NextBlock

\* The first block of a run that is not empty is filled.
LEMMA FirstOfRun ==
    ASSUME NEW n \in Nat \ {0}, NEW first \in BlockIds(n), NEW len \in 0 .. n,
           NEW sem, Run(sem, first, len, n)
    PROVE  /\ (first + n) % n = first
           /\ sem[first] = IF 0 < len THEN "filled" ELSE "free"
<1>1. (first + 0) % n = first /\ 0 \in 0 .. n - 1 /\ (first + n) % n = first
  BY SMT DEF BlockIds
<1>2. sem[(first + 0) % n] = IF 0 < len THEN "filled" ELSE "free"
  BY <1>1 DEF Run
<1> QED
  BY <1>1, <1>2

Rings(n) == [BlockIds(n) -> BlockState]

\* An empty ring.
LEMMA EmptyRun ==
    ASSUME NEW n \in Nat \ {0}, NEW first \in BlockIds(n)
    PROVE  DatabufCreate(n) \in Rings(n) /\ Run(DatabufCreate(n), first, 0, n)
<1>1. \A j \in 0 .. n - 1 : ~(j < 0)
  BY SMT
<1> QED
  BY <1>1, RoundTheRing DEF Run, DatabufCreate, Rings, BlockState

\* The producer fills the block after the last filled one.
LEMMA FillExtendsRun ==
    ASSUME NEW n \in Nat \ {0}, NEW first \in BlockIds(n), NEW len \in 0 .. n,
           NEW sem \in Rings(n), Run(sem, first, len, n),
           NEW b, b = (first + len) % n, sem[b] = "free"
    PROVE  /\ b \in BlockIds(n) /\ len < n
           /\ SetFilled(sem, b) \in Rings(n)
           /\ Run(SetFilled(sem, b), first, len + 1, n)
<1>1. len < n
  <2> SUFFICES ASSUME len = n PROVE FALSE
    BY SMT
  <2>1. (first + n) % n = first /\ (first + 0) % n = first /\ 0 \in 0 .. n - 1 /\ 0 < n
    BY SMT DEF BlockIds
  <2>2. sem[first] = "filled"
    BY <2>1 DEF Run
  <2> QED
    BY <2>1, <2>2
<1>2. len \in 0 .. n - 1
  BY <1>1, SMT
<1>3. b \in BlockIds(n)
  BY <1>2, RoundTheRing
<1>4. SetFilled(sem, b) \in Rings(n)
  BY <1>3 DEF SetFilled, Rings, BlockState
<1>5. ASSUME NEW j \in 0 .. n - 1
      PROVE  SetFilled(sem, b)[(first + j) % n] = IF j < len + 1 THEN "filled" ELSE "free"
  <2>1. (first + j) % n \in BlockIds(n) /\ ((first + j) % n = b => j = len)
    BY <1>2, RoundTheRing
  <2>2. /\ j = len => j < len + 1
        /\ j # len => (j < len + 1 <=> j < len)
    BY <1>2, SMT
  <2>3. sem[(first + j) % n] = IF j < len THEN "filled" ELSE "free"
    BY DEF Run
  <2> QED
    BY <2>1, <2>2, <2>3 DEF SetFilled, Rings
<1> QED
  BY <1>1, <1>3, <1>4, <1>5 DEF Run

\* The consumer frees the first block, if that one is filled.
LEMMA FreeShortensRun ==
    ASSUME NEW n \in Nat \ {0}, NEW first \in BlockIds(n), NEW len \in 0 .. n,
           NEW sem \in Rings(n), Run(sem, first, len, n), sem[first] = "filled"
    PROVE  /\ len > 0 /\ len - 1 \in 0 .. n
           /\ SetFree(sem, first) \in Rings(n)
           /\ Run(SetFree(sem, first), NextBlock(first, n), len - 1, n)
           /\ (NextBlock(first, n) + (len - 1)) % n = (first + len) % n
<1>1. (first + 0) % n = first /\ 0 \in 0 .. n - 1 /\ (first + n) % n = first
  BY SMT DEF BlockIds
<1>2. 0 < len
  <2>1. sem[first] = IF 0 < len THEN "filled" ELSE "free"
    BY <1>1 DEF Run
  <2> QED
    BY <2>1
<1>3. len - 1 \in 0 .. n - 1 /\ len - 1 \in 0 .. n /\ len > 0
  BY <1>2, SMT
<1>4. SetFree(sem, first) \in Rings(n)
  BY DEF SetFree, Rings, BlockState
<1>5. ASSUME NEW j \in 0 .. n - 1
      PROVE  SetFree(sem, first)[(NextBlock(first, n) + j) % n]
                 = IF j < len - 1 THEN "filled" ELSE "free"
  <2>1. CASE j < n - 1
    <3>1. j + 1 \in 0 .. n - 1 /\ j + 1 # 0 /\ (j < len - 1 <=> j + 1 < len)
      BY <2>1, SMT
    <3>2. (first + (j + 1)) % n \in BlockIds(n) \ {first}
      BY <1>1, <3>1, RoundTheRing
    <3>3. sem[(first + (j + 1)) % n] = IF j < len - 1 THEN "filled" ELSE "free"
      BY <3>1 DEF Run
    <3> QED
      BY <2>1, <3>2, <3>3, FromNext DEF SetFree, Rings
  <2>2. CASE ~(j < n - 1)
    <3>1. ~(j < len - 1)
      BY <2>2, SMT
    <3> QED
      BY <2>2, <3>1, FromNext DEF SetFree, Rings
  <2> QED
    BY <2>1, <2>2
<1>6. (NextBlock(first, n) + (len - 1)) % n = (first + len) % n
  <2>1. (NextBlock(first, n) + (len - 1)) % n
            = IF len - 1 < n - 1 THEN (first + ((len - 1) + 1)) % n ELSE first
    BY <1>3, FromNext
  <2>2. (len - 1) + 1 = len /\ (len - 1 < n - 1 \/ len = n)
    BY SMT
  <2> QED
    BY <1>1, <2>1, <2>2
<1> QED
  BY <1>3, <1>4, <1>5, <1>6 DEF Run
-----------------------------------------------------------------------------
Skip(passedOn) == IF passedOn THEN 1 ELSE 0

\* q holds size of the ring's blocks, from the one skip after the first on.
HoldsBlocks(q, S, size, block, first, skip, n) ==
    /\ q \in Seq(S) /\ Len(q) = size
    /\ \A k \in 1 .. size : q[k] = block[(first + (skip + k - 1)) % n]

\* A run read as a queue: its length and its blocks.
LEMMA FilledBlocksAre ==
    ASSUME NEW n \in Nat \ {0}, NEW first \in BlockIds(n), NEW len \in 0 .. n,
           NEW sem, Run(sem, first, len, n),
           NEW S, NEW block \in [BlockIds(n) -> S],
           NEW passedOn, Skip(passedOn) <= len
    PROVE  HoldsBlocks(FilledBlocks(sem, block, first, n, passedOn), S, len - Skip(passedOn),
                 block, first, Skip(passedOn), n)
<1>0. PICK skip \in 0 .. 1 : skip = Skip(passedOn)
  BY SMT DEF Skip
<1>s. skip <= len
  BY <1>0
<1> DEFINE filled == {k \in 1 .. n - skip :
                        \A j \in 1 .. k : IsFilled(sem, (first + skip + j - 1) % n)}
           size == len - skip
           q == FilledBlocks(sem, block, first, n, passedOn)
<1>1. \A j \in Int : first + skip + j - 1 = first + (skip + j - 1)
  BY SMT DEF BlockIds
<1>2. \A j \in 1 .. n - skip : skip + j - 1 \in 0 .. n - 1
  BY SMT
<1>3. ASSUME NEW j \in 1 .. n - skip
      PROVE  IsFilled(sem, (first + skip + j - 1) % n) <=> j <= size
  <2>1. sem[(first + (skip + j - 1)) % n] = IF skip + j - 1 < len THEN "filled" ELSE "free"
    BY <1>2 DEF Run
  <2>2. j \in Int /\ (skip + j - 1 < len <=> j <= size)
    BY SMT
  <2>3. first + skip + j - 1 = first + (skip + j - 1)
    BY <1>1, <2>2
  <2> QED
    BY <2>1, <2>2, <2>3, Zenon DEF IsFilled
<1>4. filled = 1 .. size
  <2>1. ASSUME NEW k \in filled PROVE k \in 1 .. size
    <3>1. k \in 1 .. n - skip /\ k \in 1 .. k
      BY SMT
    <3>2. IsFilled(sem, (first + skip + k - 1) % n)
      BY <3>1
    <3>3. k <= size
      BY <1>3, <3>1, <3>2
    <3> QED
      BY <3>1, <3>3, SMT
  <2>2. ASSUME NEW k \in 1 .. size PROVE k \in filled
    <3>1. k \in 1 .. n - skip /\ \A j \in 1 .. k : j \in 1 .. n - skip /\ j <= size
      BY SMT
    <3> QED
      BY <1>3, <3>1
  <2> QED
    BY <2>1, <2>2
<1>5. size \in Nat /\ size <= n - skip
  BY <1>s, SMT
<1>6. q = [k \in filled |-> block[(first + skip + k - 1) % n]]
  BY <1>0, Zenon DEF FilledBlocks, Skip
<1>7. q = [k \in 1 .. size |-> block[(first + skip + k - 1) % n]]
  BY <1>4, <1>6, Zenon
<1> HIDE DEF filled, q
<1>8. ASSUME NEW k \in 1 .. size
      PROVE  /\ skip + k - 1 \in 0 .. len - 1 /\ skip + k - 1 \in 0 .. n - 1
             /\ q[k] = block[(first + (skip + k - 1)) % n]
             /\ q[k] \in S
  <2>1. skip + k - 1 \in 0 .. len - 1 /\ skip + k - 1 \in 0 .. n - 1 /\ k \in Int
    BY SMT
  <2>2. first + skip + k - 1 = first + (skip + k - 1)
    BY <1>1, <2>1
  <2>3. (first + (skip + k - 1)) % n \in BlockIds(n)
    BY <2>1, RoundTheRing
  <2>4. q[k] = block[(first + (skip + k - 1)) % n]
    BY <1>7, <2>2, Zenon
  <2> QED
    BY <2>1, <2>3, <2>4, Zenon
<1> HIDE DEF size
<1>9. q \in [1 .. size -> S]
  BY <1>7, <1>8, Zenon
<1>10. q \in Seq(S)
  BY <1>5, <1>9, SeqDef, Zenon
<1>11. Len(q) = size
  BY <1>5, <1>9, <1>10, LenProperties, SMT
<1> QED
  BY <1>0, <1>8, <1>10, <1>11, Zenon DEF size, q, HoldsBlocks

LEMMA SkipIs ==
    /\ Skip(TRUE) = 1 /\ Skip(FALSE) = 0
    /\ \A passedOn : Skip(passedOn) \in 0 .. 1
  BY SMT DEF Skip

\* What a queue holds determines it.
LEMMA HoldsOne ==
    ASSUME NEW S, NEW size, NEW block, NEW first, NEW skip, NEW n,
           NEW q, HoldsBlocks(q, S, size, block, first, skip, n),
           NEW q2, HoldsBlocks(q2, S, size, block, first, skip, n)
    PROVE  q2 = q
<1>1. \A k \in 1 .. Len(q2) : q2[k] = q[k]
  BY Zenon DEF HoldsBlocks
<1>2. q \in Seq(S) /\ q2 \in Seq(S) /\ Len(q2) = Len(q)
  BY DEF HoldsBlocks
<1> QED
  BY <1>1, <1>2, SeqEqual

AgreeOnFilled(sem, block, block2, n) ==
    \A b \in BlockIds(n) : IsFilled(sem, b) => block2[b] = block[b]

\* The queue holds nothing of the blocks that are free.
LEMMA HoldsFilledOnly ==
    ASSUME NEW n \in Nat \ {0}, NEW first \in BlockIds(n), NEW len \in 0 .. n,
           NEW sem, Run(sem, first, len, n),
           NEW S, NEW block \in [BlockIds(n) -> S], NEW block2,
           AgreeOnFilled(sem, block, block2, n),
           NEW passedOn, Skip(passedOn) <= len
    PROVE  HoldsBlocks(FilledBlocks(sem, block, first, n, passedOn), S, len - Skip(passedOn),
                 block2, first, Skip(passedOn), n)
<1> DEFINE q  == FilledBlocks(sem, block, first, n, passedOn)
           skip == Skip(passedOn)
<1>1. skip \in 0 .. 1 /\ skip <= len
  BY SkipIs
<1>2. HoldsBlocks(q, S, len - skip, block, first, skip, n)
  BY <1>1, FilledBlocksAre
<1> HIDE DEF q, skip
<1>3. ASSUME NEW k \in 1 .. len - skip
      PROVE  block2[(first + (skip + k - 1)) % n] = block[(first + (skip + k - 1)) % n]
  <2>1. skip + k - 1 \in 0 .. n - 1 /\ skip + k - 1 < len
    BY <1>1, SMT
  <2>2. /\ sem[(first + (skip + k - 1)) % n] = "filled"
        /\ (first + (skip + k - 1)) % n \in BlockIds(n)
    BY <2>1, RoundTheRing, Zenon DEF Run
  <2> QED
    BY <2>2, Zenon DEF AgreeOnFilled, IsFilled
<1>4. HoldsBlocks(q, S, len - skip, block2, first, skip, n)
  BY <1>2, <1>3, Zenon DEF HoldsBlocks
<1> QED
  BY <1>4 DEF q, skip

LEMMA FreeBlocksDoNotCount ==
    ASSUME NEW n \in Nat \ {0}, NEW first \in BlockIds(n), NEW len \in 0 .. n,
           NEW sem, Run(sem, first, len, n),
           NEW S, NEW block \in [BlockIds(n) -> S], NEW block2 \in [BlockIds(n) -> S],
           AgreeOnFilled(sem, block, block2, n),
           NEW passedOn, Skip(passedOn) <= len
    PROVE  FilledBlocks(sem, block2, first, n, passedOn)
               = FilledBlocks(sem, block, first, n, passedOn)
<1>1. HoldsBlocks(FilledBlocks(sem, block, first, n, passedOn), S, len - Skip(passedOn),
            block2, first, Skip(passedOn), n)
  BY HoldsFilledOnly
<1>2. HoldsBlocks(FilledBlocks(sem, block2, first, n, passedOn), S, len - Skip(passedOn),
            block2, first, Skip(passedOn), n)
  BY FilledBlocksAre
<1> QED
  BY <1>1, <1>2, HoldsOne

\* b is the free block that the run reaches next.
IsNext(b, sem, first, len, n) ==
    Run(sem, first, len, n) /\ b = (first + len) % n /\ sem[b] = "free"

Appends(q2, q, e, S) == q \in Seq(S) /\ e \in S /\ q2 = Append(q, e)

\* A block that is filled after the last one goes in at the end.
LEMMA FillAppends ==
    ASSUME NEW n \in Nat \ {0}, NEW first \in BlockIds(n), NEW len \in 0 .. n,
           NEW sem \in Rings(n), NEW b, IsNext(b, sem, first, len, n),
           NEW S, NEW block \in [BlockIds(n) -> S], NEW block2 \in [BlockIds(n) -> S],
           AgreeOnFilled(sem, block, block2, n),
           NEW passedOn, Skip(passedOn) <= len
    PROVE  Appends(FilledBlocks(SetFilled(sem, b), block2, first, n, passedOn),
                   FilledBlocks(sem, block, first, n, passedOn), block2[b], S)
<1>0. Run(sem, first, len, n) /\ b = (first + len) % n /\ sem[b] = "free"
  BY DEF IsNext
<1> DEFINE sem2 == SetFilled(sem, b)
           q  == FilledBlocks(sem, block, first, n, passedOn)
           q2 == FilledBlocks(sem2, block2, first, n, passedOn)
           qb == Append(q, block2[b])
           skip == Skip(passedOn)
           size == len - skip
<1>1. skip \in 0 .. 1 /\ skip <= len
  BY SkipIs
<1>2. b \in BlockIds(n) /\ len < n /\ sem2 \in Rings(n) /\ Run(sem2, first, len + 1, n)
  BY <1>0, FillExtendsRun
<1> HIDE DEF sem2
<1>4. /\ len + 1 \in 0 .. n /\ skip <= len + 1 /\ size \in Nat
      /\ (len + 1) - skip = size + 1 /\ size + skip = len
  BY <1>1, <1>2, SMT
<1>5. HoldsBlocks(q, S, size, block2, first, skip, n)
  BY <1>0, <1>1, HoldsFilledOnly
<1>6. HoldsBlocks(q2, S, size + 1, block2, first, skip, n)
  <2>1. HoldsBlocks(q2, S, (len + 1) - skip, block2, first, skip, n)
    BY <1>2, <1>4, FilledBlocksAre
  <2> QED
    BY <1>4, <2>1
<1> HIDE DEF q, q2, skip, size
<1>7. block2[b] \in S
  BY <1>2
<1>8. HoldsBlocks(qb, S, size + 1, block2, first, skip, n)
  <2>1. q \in Seq(S) /\ Len(q) = size
    BY <1>5 DEF HoldsBlocks
  <2>2. /\ qb \in Seq(S) /\ Len(qb) = Len(q) + 1
        /\ \A k \in 1 .. Len(q) : qb[k] = q[k]
        /\ qb[Len(q) + 1] = block2[b]
    BY <1>7, <2>1, AppendProperties
  <2> HIDE DEF qb
  <2>3. skip + (size + 1) - 1 = len
    BY <1>1, <1>4, SMT
  <2>4. \A k \in 1 .. size + 1 : k \in 1 .. size \/ k = size + 1
    BY <1>4, SMT
  <2>5. ASSUME NEW k \in 1 .. size + 1 PROVE qb[k] = block2[(first + (skip + k - 1)) % n]
    <3>1. CASE k \in 1 .. size
      BY <1>5, <2>1, <2>2, <3>1, Zenon DEF HoldsBlocks
    <3>2. CASE k = size + 1
      BY <1>0, <2>1, <2>2, <2>3, <3>2, Zenon
    <3> QED
      BY <2>4, <3>1, <3>2
  <2> QED
    BY <2>1, <2>2, <2>5, Zenon DEF HoldsBlocks
<1> HIDE DEF qb
<1>9. q2 = qb
  BY <1>6, <1>8, HoldsOne
<1>10. q \in Seq(S)
  BY <1>5 DEF HoldsBlocks
<1> QED
  BY <1>7, <1>9, <1>10 DEF q, q2, qb, sem2, Appends

Takes(q2, q, e, S) == q \in Seq(S) /\ q # << >> /\ Head(q) = e /\ q2 = Tail(q)

\* Passing the first block on takes it out, although its slot is not free yet.
LEMMA PassingOnTakes ==
    ASSUME NEW n \in Nat \ {0}, NEW first \in BlockIds(n), NEW len \in 0 .. n,
           NEW sem, Run(sem, first, len, n), 0 < len,
           NEW S, NEW block \in [BlockIds(n) -> S]
    PROVE  Takes(FilledBlocks(sem, block, first, n, TRUE),
                 FilledBlocks(sem, block, first, n, FALSE), block[first], S)
<1> DEFINE q  == FilledBlocks(sem, block, first, n, FALSE)
           q2 == FilledBlocks(sem, block, first, n, TRUE)
           qt == Tail(q)
<1>1. 0 <= len /\ 1 <= len /\ len - 0 = len
  BY SMT
<1>2. HoldsBlocks(q, S, len, block, first, 0, n)
  <2>1. Skip(FALSE) <= len
    BY <1>1, SkipIs
  <2>2. HoldsBlocks(q, S, len - Skip(FALSE), block, first, Skip(FALSE), n)
    BY <2>1, FilledBlocksAre
  <2> QED
    BY <1>1, <2>2, SkipIs
<1>3. HoldsBlocks(q2, S, len - 1, block, first, 1, n)
  <2>1. Skip(TRUE) <= len
    BY <1>1, SkipIs
  <2>2. HoldsBlocks(q2, S, len - Skip(TRUE), block, first, Skip(TRUE), n)
    BY <2>1, FilledBlocksAre
  <2> QED
    BY <2>2, SkipIs
<1> HIDE DEF q, q2
<1>4. q \in Seq(S) /\ Len(q) = len /\ q # << >>
  BY <1>2, EmptySeq, SMT DEF HoldsBlocks
<1>5. Head(q) = block[first]
  <2>1. 1 \in 1 .. len /\ (first + (0 + 1 - 1)) % n = first
    BY SMT DEF BlockIds
  <2>2. Head(q) = q[1]
    BY <1>4, SMT
  <2> QED
    BY <1>2, <2>1, <2>2, Zenon DEF HoldsBlocks
<1>6. HoldsBlocks(qt, S, len - 1, block, first, 1, n)
  <2>1. /\ qt \in Seq(S) /\ Len(qt) = len - 1
        /\ \A k \in 1 .. len - 1 : qt[k] = q[k + 1]
    BY <1>4, HeadTailProperties
  <2> HIDE DEF qt
  <2>2. \A k \in 1 .. len - 1 : qt[k] = block[(first + (1 + k - 1)) % n]
    <3> SUFFICES ASSUME NEW k \in 1 .. len - 1 PROVE qt[k] = block[(first + (1 + k - 1)) % n]
      OBVIOUS
    <3>1. k + 1 \in 1 .. len /\ 0 + (k + 1) - 1 = 1 + k - 1
      BY SMT
    <3>2. q[k + 1] = block[(first + (0 + (k + 1) - 1)) % n]
      BY <1>2, <3>1, Zenon DEF HoldsBlocks
    <3>3. qt[k] = q[k + 1]
      BY <2>1
    <3> QED
      BY <3>1, <3>2, <3>3, Zenon
  <2> QED
    BY <2>1, <2>2, Zenon DEF HoldsBlocks
<1> HIDE DEF qt
<1>7. q2 = qt
  BY <1>3, <1>6, HoldsOne
<1> QED
  BY <1>4, <1>5, <1>7 DEF q, q2, qt, Takes

AgreeElsewhere(b, block, block2, n) == \A c \in BlockIds(n) \ {b} : block2[c] = block[c]

\* Once the first block has been passed on, what its slot holds does not count.
LEMMA PassedOnDoesNotCount ==
    ASSUME NEW n \in Nat \ {0}, NEW first \in BlockIds(n), NEW len \in 0 .. n,
           NEW sem, Run(sem, first, len, n), 0 < len,
           NEW S, NEW block \in [BlockIds(n) -> S], NEW block2 \in [BlockIds(n) -> S],
           AgreeElsewhere(first, block, block2, n)
    PROVE  FilledBlocks(sem, block2, first, n, TRUE) = FilledBlocks(sem, block, first, n, TRUE)
<1> DEFINE q  == FilledBlocks(sem, block, first, n, TRUE)
           q2 == FilledBlocks(sem, block2, first, n, TRUE)
<1>1. 1 <= len
  BY SMT
<1>2. HoldsBlocks(q, S, len - 1, block, first, 1, n)
  <2>1. Skip(TRUE) <= len
    BY <1>1, SkipIs
  <2>2. HoldsBlocks(q, S, len - Skip(TRUE), block, first, Skip(TRUE), n)
    BY <2>1, FilledBlocksAre
  <2> QED
    BY <2>2, SkipIs
<1>3. HoldsBlocks(q2, S, len - 1, block2, first, 1, n)
  <2>1. Skip(TRUE) <= len
    BY <1>1, SkipIs
  <2>2. HoldsBlocks(q2, S, len - Skip(TRUE), block2, first, Skip(TRUE), n)
    BY <2>1, FilledBlocksAre
  <2> QED
    BY <2>2, SkipIs
<1> HIDE DEF q, q2
<1>4. ASSUME NEW k \in 1 .. len - 1
      PROVE  block2[(first + (1 + k - 1)) % n] = block[(first + (1 + k - 1)) % n]
  <2>1. 1 + k - 1 \in 0 .. n - 1 /\ 1 + k - 1 # 0 /\ 0 \in 0 .. n - 1 /\ (first + 0) % n = first
    BY SMT DEF BlockIds
  <2>2. (first + (1 + k - 1)) % n \in BlockIds(n) \ {first}
    BY <2>1, RoundTheRing
  <2> QED
    BY <2>2 DEF AgreeElsewhere
<1>5. HoldsBlocks(q2, S, len - 1, block, first, 1, n)
  BY <1>3, <1>4, Zenon DEF HoldsBlocks
<1>6. q2 = q
  BY <1>2, <1>5, HoldsOne
<1> QED
  BY <1>6 DEF q, q2

\* Freeing the slot of a block that has been passed on changes nothing.
LEMMA FreeingKeeps ==
    ASSUME NEW n \in Nat \ {0}, NEW first \in BlockIds(n), NEW len \in 0 .. n,
           NEW sem \in Rings(n), Run(sem, first, len, n), sem[first] = "filled",
           NEW S, NEW block \in [BlockIds(n) -> S]
    PROVE  FilledBlocks(SetFree(sem, first), block, NextBlock(first, n), n, FALSE)
               = FilledBlocks(sem, block, first, n, TRUE)
<1> DEFINE sem2 == SetFree(sem, first)
           next == NextBlock(first, n)
           q  == FilledBlocks(sem, block, first, n, TRUE)
           q2 == FilledBlocks(sem2, block, next, n, FALSE)
<1>1. /\ len > 0 /\ len - 1 \in 0 .. n /\ next \in BlockIds(n)
      /\ Run(sem2, next, len - 1, n)
  BY FreeShortensRun, FromNext
<1>2. 0 <= len - 1 /\ 1 <= len /\ (len - 1) - 0 = len - 1
  BY <1>1, SMT
<1> HIDE DEF sem2
<1>3. HoldsBlocks(q, S, len - 1, block, first, 1, n)
  <2>1. Skip(TRUE) <= len
    BY <1>2, SkipIs
  <2>2. HoldsBlocks(q, S, len - Skip(TRUE), block, first, Skip(TRUE), n)
    BY <2>1, FilledBlocksAre
  <2> QED
    BY <2>2, SkipIs
<1>4. ASSUME NEW j \in 0 .. n - 1, j < n - 1
      PROVE  (next + j) % n = (first + (j + 1)) % n
  BY <1>4, FromNext
<1> HIDE DEF next
<1>5. HoldsBlocks(q2, S, len - 1, block, next, 0, n)
  <2>1. Skip(FALSE) <= len - 1
    BY <1>2, SkipIs
  <2>2. HoldsBlocks(q2, S, (len - 1) - Skip(FALSE), block, next, Skip(FALSE), n)
    BY <1>1, <2>1, FilledBlocksAre
  <2> QED
    BY <1>2, <2>2, SkipIs
<1> HIDE DEF q, q2
<1>6. HoldsBlocks(q2, S, len - 1, block, first, 1, n)
  <2>1. ASSUME NEW k \in 1 .. len - 1
        PROVE  (next + (0 + k - 1)) % n = (first + (1 + k - 1)) % n
    <3>1. /\ 0 + k - 1 \in 0 .. n - 1 /\ 0 + k - 1 < n - 1
          /\ (0 + k - 1) + 1 = 1 + k - 1
      BY SMT
    <3> QED
      BY <1>4, <3>1, Zenon
  <2> QED
    BY <1>5, <2>1, Zenon DEF HoldsBlocks
<1>7. q2 = q
  BY <1>3, <1>6, HoldsOne
<1> QED
  BY <1>7 DEF q, q2, sem2, next
-----------------------------------------------------------------------------
(***************************************************************************)
(* Two rings in a row: front is what the second one holds, back what the   *)
(* first one holds.                                                        *)
(***************************************************************************)

\* A block that goes in behind both rings extends what the two hold together.
GoesInBehind(front, back, e, S) ==
    /\ front \o back \in Seq(S)
    /\ Len(front \o back) = Len(front) + Len(back)
    /\ Len(front \o Append(back, e)) = Len(front \o back) + 1
    /\ SubSeq(front \o Append(back, e), 1, Len(front \o back)) = front \o back
    /\ front \o Append(back, e) = Append(front \o back, e)

\* A block that goes into the first ring goes in at the end of both.
LEMMA PutAtBack ==
    ASSUME NEW S, NEW front \in Seq(S), NEW back \in Seq(S), NEW e \in S
    PROVE  GoesInBehind(front, back, e, S)
<1> DEFINE q  == front \o back
           b2 == Append(back, e)
           q2 == front \o b2
           s  == SubSeq(q2, 1, Len(q))
<1>1. Len(front) \in Nat /\ Len(back) \in Nat
  BY LenProperties
<1>2. /\ q \in Seq(S) /\ Len(q) = Len(front) + Len(back)
      /\ \A i \in 1 .. Len(front) + Len(back) :
             q[i] = IF i <= Len(front) THEN front[i] ELSE back[i - Len(front)]
  BY ConcatProperties
<1>3. /\ b2 \in Seq(S) /\ Len(b2) = Len(back) + 1
      /\ \A i \in 1 .. Len(back) : b2[i] = back[i]
  BY AppendProperties
<1> HIDE DEF b2
<1>4. /\ q2 \in Seq(S) /\ Len(q2) = Len(front) + Len(b2)
      /\ \A i \in 1 .. Len(front) + Len(b2) :
             q2[i] = IF i <= Len(front) THEN front[i] ELSE b2[i - Len(front)]
  BY <1>3, ConcatProperties
<1> HIDE DEF q, q2
<1>5. Len(q2) = Len(q) + 1 /\ Len(q) \in Nat
  BY <1>1, <1>2, <1>3, <1>4, SMT
<1>6. /\ s \in Seq(S) /\ Len(s) = Len(q)
      /\ \A i \in 1 .. Len(q) : s[i] = q2[i]
  <2>1. \A i \in 1 .. Len(q) : q2[i] \in S
    <3>1. \A i \in 1 .. Len(q) : i \in 1 .. Len(q2)
      BY <1>5, SMT
    <3> QED
      BY <1>4, <3>1, ElementOfSeq
  <2>2. 1 \in Int /\ Len(q) \in Int
    BY <1>5, SMT
  <2>3. /\ s \in Seq(S) /\ Len(s) = IF 1 <= Len(q) THEN Len(q) - 1 + 1 ELSE 0
        /\ \A i \in 1 .. Len(q) - 1 + 1 : s[i] = q2[1 + i - 1]
    BY <2>1, <2>2, SubSeqProperties
  <2>4. Len(q) - 1 + 1 = Len(q) /\ \A i \in 1 .. Len(q) : 1 + i - 1 = i
    BY <1>5, SMT
  <2>5. Len(s) = Len(q)
    BY <1>5, <2>3, SMT
  <2> QED
    BY <2>3, <2>4, <2>5, Zenon
<1> HIDE DEF s
<1>7. ASSUME NEW i \in 1 .. Len(q) PROVE q2[i] = q[i]
  <2>1. CASE i <= Len(front)
    <3>1. i \in 1 .. Len(front) + Len(back) /\ i \in 1 .. Len(front) + Len(b2)
      BY <1>1, <1>2, <1>3, SMT
    <3> QED
      BY <1>2, <1>4, <2>1, <3>1
  <2>2. CASE ~(i <= Len(front))
    <3>1. /\ i \in 1 .. Len(front) + Len(back) /\ i \in 1 .. Len(front) + Len(b2)
          /\ i - Len(front) \in 1 .. Len(back)
      BY <1>1, <1>2, <1>3, <2>2, SMT
    <3> QED
      BY <1>2, <1>3, <1>4, <2>2, <3>1
  <2> QED
    BY <2>1, <2>2
<1>8. s = q
  BY <1>2, <1>6, <1>7, SeqEqual
<1>9. q2 = Append(q, e)
  <2>1. b2 = back \o <<e>> /\ Append(q, e) = q \o <<e>>
    BY <1>2, AppendIsConcat DEF b2
  <2>2. <<e>> \in Seq(S)
    BY SMT
  <2>3. (front \o back) \o <<e>> = front \o (back \o <<e>>)
    BY <2>2, ConcatAssociative
  <2> QED
    BY <2>1, <2>3 DEF q, q2
<1> QED
  BY <1>2, <1>5, <1>8, <1>9 DEF GoesInBehind, q, q2, s, b2

\* A block that passes from the first ring to the second one stays in place.
LEMMA PassBetween ==
    ASSUME NEW S, NEW front \in Seq(S), NEW back \in Seq(S), back # << >>
    PROVE  Append(front, Head(back)) \o Tail(back) = front \o back
<1>1. Head(back) \in S /\ Tail(back) \in Seq(S)
  BY HeadTailProperties
<1>2. Append(front, Head(back)) = front \o <<Head(back)>>
  BY <1>1, AppendIsConcat
<1>3. <<Head(back)>> \in Seq(S)
  BY <1>1, SMT
<1>4. (front \o <<Head(back)>>) \o Tail(back) = front \o (<<Head(back)>> \o Tail(back))
  BY <1>1, <1>3, ConcatAssociative
<1>5. <<Head(back)>> \o Tail(back) = back
  BY <1>1, SMT
<1> QED
  BY <1>2, <1>4, <1>5

\* The first block of the second ring is the first of both.
LEMMA TakeFromFront ==
    ASSUME NEW S, NEW front \in Seq(S), NEW back \in Seq(S), front # << >>
    PROVE  /\ front \o back \in Seq(S) /\ front \o back # << >>
           /\ Head(front \o back) = Head(front)
           /\ Tail(front) \o back = Tail(front \o back)
  BY SMT
=============================================================================
