--------------------------- MODULE TransferProofs ---------------------------
(***************************************************************************)
(* The safety of the transfer scripts, for every number of nodes, kinds of *)
(* logs and files, and any number of crashes, failed copies and power      *)
(* failures.                                                               *)
(***************************************************************************)
EXTENDS Transfer, FiniteSetTheorems, TLAPS

Content == Nat \cup {Absent}

\* Every variable keeps its type.
TransferTypeOK ==
    /\ made \in [Sources -> 0 .. MaxPerSource]
    /\ local \in [Files -> [Names -> Content]]
    /\ remote \in [Files -> Content]
    /\ pc \in {"down", "compress", "find", "rename", "rsync", "mark", "back"}
    /\ pc \in {"rename", "rsync", "mark", "back"} => todo \in Files

\* A file has a name only once it has been made.
NamedIsMade ==
    \A f \in Files, name \in Names : local[f][name] # Absent => f[2] <= made[f[1]]

\* Only the file in hand may be in transit, and it is from its renaming to
\* the end of its copy; unless another one is, it is there to be renamed.
InHandOnly ==
    /\ \A f, g \in Files : local[f].xfer # Absent /\ local[g].xfer # Absent => f = g
    /\ pc = "rename" => /\ \A f \in Files : local[f].xfer # Absent => f = todo
                        /\ local[todo].xfer # Absent \/ local[todo].plain # Absent
    /\ pc \in {"rsync", "mark", "back"} => local[todo].xfer # Absent

\* A log that is, or will be, in transit, or has arrived, is not the current
\* one any more.
Closed(f) == IsLog(f[1]) => f[2] < made[f[1]]

TransferredIsClosed ==
    /\ \A f \in Files : local[f].xfer # Absent \/ local[f].done # Absent => Closed(f)
    /\ pc = "rename" => Closed(todo)
    /\ \A f \in Files : local[f].raw # Absent => ~IsLog(f[1])

(***************************************************************************)
(* A file that has several names, after a power failure, has the less of   *)
(* it the further the name is on its way: nothing that arrived is replaced *)
(* by less, and with the original still there, nothing whole has left.     *)
(***************************************************************************)
Ordered(names) ==
    /\ names.raw # Absent => names.plain <= 0 /\ names.xfer <= 0 /\ names.done <= 0
    /\ names.plain # Absent => names.xfer <= names.plain /\ names.done <= names.plain
    /\ names.xfer # Absent => names.done <= names.xfer

LessIsAhead == \A f \in Files : Ordered(local[f])

\* The copy is not behind what is marked, nor behind what is to be marked.
CopiedFirst ==
    /\ \A f \in Files : local[f].done <= remote[f]
    /\ pc = "mark" => local[todo].xfer <= remote[todo]

TransferInv ==
    /\ TransferTypeOK /\ NamedIsMade /\ InHandOnly
    /\ TransferredIsClosed /\ LessIsAhead /\ CopiedFirst
-----------------------------------------------------------------------------
LEMMA FileParts ==
    ASSUME NEW f \in Files
    PROVE  f[1] \in Sources /\ f[2] \in 1 .. MaxPerSource /\ f = <<f[1], f[2]>>
  BY DEF Files

\* What mv does to the names of a file.
LEMMA MoveIs ==
    ASSUME local \in [Files -> [Names -> Content]], NEW f \in Files,
           NEW from \in Names, NEW to \in Names, from # to, Move(f, from, to)
    PROVE  /\ local' \in [Files -> [Names -> Content]]
           /\ local'[f][to] = local[f][from] /\ local'[f][from] = Absent
           /\ \A name \in Names \ {from, to} : local'[f][name] = local[f][name]
           /\ \A g \in Files \ {f} : local'[g] = local[g]
<1> DEFINE one == [local EXCEPT ![f][to] = local[f][from]]
<1>1. local[f] \in [Names -> Content] /\ local[f][from] \in Content /\ Absent \in Content
  BY DEF Content
<1>2. /\ one \in [Files -> [Names -> Content]]
      /\ one[f] = [local[f] EXCEPT ![to] = local[f][from]]
      /\ \A g \in Files \ {f} : one[g] = local[g]
  BY <1>1
<1>3. local' = [one EXCEPT ![f][from] = Absent]
  BY DEF Move
<1> HIDE DEF one
<1>4. /\ local' \in [Files -> [Names -> Content]]
      /\ local'[f] = [one[f] EXCEPT ![from] = Absent]
      /\ \A g \in Files \ {f} : local'[g] = one[g]
  BY <1>1, <1>2, <1>3
<1> QED
  BY <1>1, <1>2, <1>4

LEMMA InitTransfer == Init => TransferInv
<1> SUFFICES ASSUME Init PROVE TransferInv
  OBVIOUS
<1>1. Absent \in Content /\ Absent \in Int /\ Absent <= 0 /\ Absent <= Absent
  BY SMT DEF Absent, Content
<1>2. \A f \in Files, name \in Names : local[f][name] = Absent
  BY DEF Init
<1>3. \A f \in Files : remote[f] = Absent /\ local[f].raw = Absent /\ local[f].plain = Absent
                       /\ local[f].xfer = Absent /\ local[f].done = Absent
  BY <1>2 DEF Init, Names
<1>4. TransferTypeOK
  BY <1>1, TransferAssumption, SMT DEF Init, TransferTypeOK
<1> QED
  BY <1>1, <1>2, <1>3, <1>4
     DEF Init, TransferInv, NamedIsMade, InHandOnly, TransferredIsClosed, LessIsAhead, Ordered, CopiedFirst
-----------------------------------------------------------------------------
\* Contents are comparable, and nothing is less than no file.
LEMMA ContentIs ==
    /\ Absent = 0 - 1 /\ Absent \in Content
    /\ \A c \in Content : c \in Int /\ c <= c /\ Absent <= c /\ (c # Absent => 0 <= c)
  BY SMT DEF Absent, Content

\* The names of a file and its copy have contents.
LEMMA ContentsAre ==
    ASSUME TransferTypeOK, NEW f \in Files
    PROVE  /\ local[f].raw \in Content /\ local[f].plain \in Content
           /\ local[f].xfer \in Content /\ local[f].done \in Content /\ remote[f] \in Content
<1>1. local[f] \in [Names -> Content] /\ remote[f] \in Content
  BY DEF TransferTypeOK
<1> QED
  BY <1>1 DEF Names

\* A source makes a file, which has no name yet.
LEMMA ProduceStep == ASSUME TransferInv, NEW s \in Sources, Produce(s) PROVE TransferInv'
<1> DEFINE f0 == <<s, made[s] + 1>>
<1>1. TransferTypeOK
  BY DEF TransferInv
<1>2. made[s] \in 0 .. MaxPerSource /\ made[s] + 1 \in 1 .. MaxPerSource
  BY <1>1, TransferAssumption, SMT DEF Produce, TransferTypeOK
<1>3. f0 \in Files /\ f0[1] = s /\ f0[2] = made[s] + 1
  BY <1>2 DEF Files
<1> HIDE DEF f0
<1>4. \A name \in Names : local[f0][name] = Absent
  BY <1>2, <1>3, SMT DEF TransferInv, NamedIsMade
<1>5. UNCHANGED <<remote, pc, todo>>
  BY DEF Produce
<1>6. /\ made' \in [Sources -> 0 .. MaxPerSource]
      /\ made'[s] = made[s] + 1 /\ \A t \in Sources \ {s} : made'[t] = made[t]
  BY <1>1, <1>2, TransferAssumption, SMT DEF Produce, TransferTypeOK
<1>7. \A f \in Files : made[f[1]] <= made'[f[1]]
  BY <1>1, <1>2, <1>6, FileParts, TransferAssumption, SMT DEF TransferTypeOK
<1>8. local' = [local EXCEPT ![f0] =
                   IF s[1] = Head THEN [local[f0] EXCEPT !.raw = 1]
                   ELSE [local[f0] EXCEPT !.plain = IF IsLog(s) THEN 0 ELSE 1]]
  BY DEF Produce, f0
<1>9. \A g \in Files \ {f0} : local'[g] = local[g]
  BY <1>1, <1>8 DEF TransferTypeOK
<1>10. 0 \in Content /\ 1 \in Content
  BY SMT DEF Content
<1>11. /\ local'[f0] \in [Names -> Content]
       /\ local'[f0].xfer = Absent /\ local'[f0].done = Absent
       /\ \/ local'[f0].plain = Absent /\ ~IsLog(s)
          \/ local'[f0].raw = Absent
  <2>1. local[f0] \in [Names -> Content]
    BY <1>1, <1>3 DEF TransferTypeOK
  <2>2. CASE s[1] = Head
    BY <1>1, <1>3, <1>4, <1>8, <1>10, <2>1, <2>2 DEF TransferTypeOK, Names, IsLog
  <2>3. CASE s[1] # Head
    <3>1. local'[f0] = [local[f0] EXCEPT !.plain = IF IsLog(s) THEN 0 ELSE 1]
      BY <1>1, <1>3, <1>8, <2>3 DEF TransferTypeOK
    <3> QED
      BY <1>4, <1>10, <2>1, <3>1 DEF Names
  <2> QED
    BY <2>2, <2>3
<1>12. local' \in [Files -> [Names -> Content]]
  <2>1. local' \in [Files -> [Names -> Content]] \/ local' = [local EXCEPT ![f0] = local'[f0]]
    BY <1>1, <1>3, <1>8 DEF TransferTypeOK
  <2> QED
    BY <1>1, <1>3, <1>11, <2>1 DEF TransferTypeOK
<1>13. TransferTypeOK'
  BY <1>1, <1>5, <1>6, <1>12 DEF TransferTypeOK
<1>14. NamedIsMade'
  <2> SUFFICES ASSUME NEW f \in Files, NEW name \in Names, local'[f][name] # Absent
               PROVE  f[2] <= made'[f[1]]
    BY DEF NamedIsMade
  <2>1. CASE f = f0
    BY <1>2, <1>3, <1>6, <2>1, SMT
  <2>2. CASE f # f0
    <3>1. f[2] <= made[f[1]]
      BY <1>9, <2>2 DEF TransferInv, NamedIsMade
    <3> QED
      BY <1>1, <1>6, <1>7, <3>1, FileParts, SMT DEF TransferTypeOK
  <2> QED
    BY <2>1, <2>2
<1>15. InHandOnly'
  <2>1. \A f \in Files : local'[f].xfer # Absent => local[f].xfer # Absent
    BY <1>9, <1>11
  <2>2. \A f \in Files : /\ local[f].xfer # Absent => local'[f].xfer # Absent
                         /\ local[f].plain # Absent => local'[f].plain # Absent
    BY <1>4, <1>9 DEF Names
  <2> QED
    BY <1>1, <1>5, <2>1, <2>2 DEF TransferInv, InHandOnly, TransferTypeOK
<1>16. TransferredIsClosed'
  <2>1. \A f \in Files : Closed(f) => Closed(f)'
    BY <1>1, <1>6, <1>7, FileParts, SMT DEF Closed, TransferTypeOK
  <2>2. \A f \in Files : /\ local'[f].xfer # Absent => local[f].xfer # Absent
                         /\ local'[f].done # Absent => local[f].done # Absent
                         /\ local'[f].raw # Absent => local[f].raw # Absent \/ ~IsLog(f[1])
    BY <1>3, <1>9, <1>11
  <2> QED
    BY <1>1, <1>5, <2>1, <2>2 DEF TransferInv, TransferredIsClosed, TransferTypeOK
<1>17. LessIsAhead'
  <2>1. local'[f0].raw \in Content /\ local'[f0].plain \in Content
    BY <1>11 DEF Names
  <2>2. \A f \in Files : f = f0 \/ local'[f] = local[f]
    BY <1>9
  <2> QED
    <3>1. Ordered(local'[f0])
      BY <1>11, <2>1, SMT DEF Ordered, Absent, Content
    <3> QED
      BY <2>2, <3>1 DEF TransferInv, LessIsAhead
<1>18. CopiedFirst'
  <2>1. \A f \in Files : local'[f].done = local[f].done \/ local'[f].done = Absent
    BY <1>9, <1>11
  <2>2. pc = "mark" => todo # f0
    BY <1>4 DEF TransferInv, InHandOnly, Names
  <2>3. \A f \in Files : local'[f].done <= remote[f]
    BY <1>1, <2>1, ContentIs, ContentsAre DEF TransferInv, CopiedFirst
  <2>4. pc = "mark" => local'[todo].xfer <= remote[todo]
    BY <1>1, <1>9, <2>2 DEF TransferInv, CopiedFirst, TransferTypeOK
  <2> QED
    BY <1>5, <2>3, <2>4 DEF CopiedFirst
<1> QED
  BY <1>13, <1>14, <1>15, <1>16, <1>17, <1>18 DEF TransferInv

\* What a renaming leaves as it was.
LEMMA MoveStep ==
    ASSUME TransferInv, NEW f \in Files, NEW from \in Names, NEW to \in Names, from # to,
           local[f][from] # Absent, Move(f, from, to), UNCHANGED <<made, remote>>,
           pc' \in {"down", "compress", "find", "rename", "rsync", "mark", "back"},
           pc' \in {"rename", "rsync", "mark", "back"} => todo' \in Files
    PROVE  /\ TransferTypeOK' /\ NamedIsMade'
           /\ local'[f] \in [Names -> Content]
           /\ local'[f][to] = local[f][from] /\ local'[f][from] = Absent
           /\ \A name \in Names \ {from, to} : local'[f][name] = local[f][name]
           /\ \A g \in Files \ {f} : local'[g] = local[g]
           /\ \A g \in Files : Closed(g)' = Closed(g)
<1>1. TransferTypeOK /\ NamedIsMade
  BY DEF TransferInv
<1>2. /\ local' \in [Files -> [Names -> Content]]
      /\ local'[f][to] = local[f][from] /\ local'[f][from] = Absent
      /\ \A name \in Names \ {from, to} : local'[f][name] = local[f][name]
      /\ \A g \in Files \ {f} : local'[g] = local[g]
  BY <1>1, MoveIs DEF TransferTypeOK
<1>3. TransferTypeOK'
  BY <1>1, <1>2 DEF TransferTypeOK
<1>4. NamedIsMade'
  <2> SUFFICES ASSUME NEW g \in Files, NEW name \in Names, local'[g][name] # Absent
               PROVE  g[2] <= made[g[1]]
    BY DEF NamedIsMade
  <2>1. g = f \/ local[g][name] # Absent
    BY <1>2
  <2> QED
    BY <1>1, <2>1 DEF NamedIsMade
<1> QED
  BY <1>2, <1>3, <1>4 DEF Closed

\* gzip replaces a dump by its compressed form, which does not exist yet.
LEMMA CompressStep == ASSUME TransferInv, Compress PROVE TransferInv'
<1>1. TransferTypeOK
  BY DEF TransferInv
<1>2. CASE UNCHANGED local
  BY <1>1, <1>2 DEF Compress, TransferInv, TransferTypeOK, NamedIsMade, InHandOnly,
                    TransferredIsClosed, Closed, LessIsAhead, CopiedFirst
<1>3. ASSUME NEW f \in ToCompress, Move(f, "raw", "plain"), UNCHANGED pc
      PROVE  TransferInv'
  <2>1. /\ f \in Files /\ "raw" \in Names /\ "plain" \in Names
        /\ local[f].raw # Absent /\ local[f].plain = Absent
    BY DEF ToCompress, Named, Names
  <2>2. UNCHANGED <<made, remote, todo, pc>> /\ pc = "compress"
    BY <1>3 DEF Compress
  <2>3. /\ TransferTypeOK' /\ NamedIsMade'
        /\ local'[f].plain = local[f].raw /\ local'[f].raw = Absent
        /\ local'[f].xfer = local[f].xfer /\ local'[f].done = local[f].done
        /\ \A g \in Files \ {f} : local'[g] = local[g]
        /\ \A g \in Files : Closed(g)' = Closed(g)
    <3>1. pc' = "compress"
      BY <2>2
    <3> QED
      BY <1>3, <2>1, <2>2, <3>1, MoveStep DEF Names
  <2>4. InHandOnly'
    BY <2>2, <2>3 DEF TransferInv, InHandOnly
  <2>5. TransferredIsClosed'
    BY <2>2, <2>3 DEF TransferInv, TransferredIsClosed
  <2>6. LessIsAhead'
    <3>1. Ordered(local'[f])
      BY <1>1, <2>1, <2>3, ContentsAre, SMT DEF TransferInv, LessIsAhead, Ordered, Absent, Content
    <3> QED
      BY <2>3, <3>1 DEF TransferInv, LessIsAhead
  <2>7. CopiedFirst'
    BY <2>2, <2>3 DEF TransferInv, CopiedFirst
  <2> QED
    BY <2>3, <2>4, <2>5, <2>6, <2>7 DEF TransferInv
<1> QED
  BY <1>2, <1>3 DEF Compress

\* Steps that touch no file: the script starts, sleeps or ends, or rsync fails.
LEMMA IdleStep ==
    ASSUME TransferInv, Start \/ Sleep \/ Crash \/ RsyncFails PROVE TransferInv'
<1>1. TransferTypeOK
  BY DEF TransferInv
<1>2. UNCHANGED <<made, local, remote>>
  BY DEF Start, Sleep, Crash, RsyncFails
<1>3. \/ pc' \in {"down", "compress"}
      \/ pc' = "back" /\ pc = "rsync" /\ UNCHANGED todo
  BY DEF Start, Sleep, Crash, RsyncFails
<1>4. TransferTypeOK' /\ InHandOnly' /\ TransferredIsClosed' /\ CopiedFirst'
  BY <1>1, <1>2, <1>3
     DEF TransferInv, TransferTypeOK, InHandOnly, TransferredIsClosed, Closed, CopiedFirst
<1> QED
  BY <1>2, <1>4 DEF TransferInv, NamedIsMade, LessIsAhead

\* A broken transfer is taken up: it is the only file in transit.
LEMMA TakeUpStep == ASSUME TransferInv, TakeUp PROVE TransferInv'
<1>1. TransferTypeOK /\ UNCHANGED <<made, local, remote>> /\ pc' = "rename"
  BY DEF TransferInv, TakeUp
<1>2. todo' \in Files /\ local[todo'].xfer # Absent
  BY DEF TakeUp, FindInterrupted, Named
<1>3. TransferTypeOK' /\ InHandOnly' /\ TransferredIsClosed' /\ CopiedFirst'
  BY <1>1, <1>2
     DEF TransferInv, TransferTypeOK, InHandOnly, TransferredIsClosed, Closed, CopiedFirst
<1> QED
  BY <1>1, <1>3 DEF TransferInv, NamedIsMade, LessIsAhead

\* The oldest of a source's files is not its current log: where there is only
\* one log, the source is no candidate.
LEMMA OldestIsClosed ==
    ASSUME TransferInv, NEW s \in Candidates, NEW n \in Ready(s), \A k \in Ready(s) : n <= k
    PROVE  <<s, n>> \in Files /\ local[<<s, n>>].plain # Absent /\ Closed(<<s, n>>)
<1>1. TransferTypeOK /\ NamedIsMade /\ s \in Sources /\ "plain" \in Names
  BY DEF TransferInv, Candidates, Names
<1>2. n \in 1 .. MaxPerSource /\ <<s, n>> \in Files /\ local[<<s, n>>].plain # Absent
  BY <1>1 DEF Ready, Named
<1>3. ASSUME IsLog(s) PROVE n < made[s]
  <2>1. PICK k \in Ready(s) : k # n
    <3>1. Cardinality(Ready(s)) > 1
      BY <1>3 DEF Candidates, Kept
    <3>2. Cardinality({n}) = 1
      BY FS_Singleton
    <3>3. ~(1 > 1)
      BY SMT
    <3>4. Ready(s) # {n}
      BY <3>1, <3>2, <3>3
    <3> QED
      BY <3>4
  <2>2. k \in 1 .. MaxPerSource /\ <<s, k>> \in Files /\ local[<<s, k>>].plain # Absent
    BY <1>1 DEF Ready, Named
  <2>3. k <= made[s]
    <3>1. <<s, k>>[1] = s /\ <<s, k>>[2] = k
      OBVIOUS
    <3> QED
      BY <1>1, <2>2, <3>1 DEF NamedIsMade
  <2>4. made[s] \in 0 .. MaxPerSource
    BY <1>1 DEF TransferTypeOK
  <2> QED
    BY <1>2, <2>1, <2>2, <2>3, <2>4, TransferAssumption, SMT
<1> QED
  BY <1>2, <1>3 DEF Closed

\* A new file is taken only when no other one is in transit.
LEMMA TakeNewStep == ASSUME TransferInv, TakeNew PROVE TransferInv'
<1>1. TransferTypeOK /\ UNCHANGED <<made, local, remote>> /\ pc' = "rename"
  BY DEF TransferInv, TakeNew
<1>2. todo' \in Files /\ local[todo'].plain # Absent /\ Closed(todo')
  BY OldestIsClosed DEF TakeNew
<1>3. \A f \in Files : local[f].xfer = Absent
  BY DEF TakeNew, FindInterrupted, Named
<1>4. TransferTypeOK' /\ InHandOnly' /\ TransferredIsClosed' /\ CopiedFirst'
  BY <1>1, <1>2, <1>3
     DEF TransferInv, TransferTypeOK, InHandOnly, TransferredIsClosed, Closed, CopiedFirst
<1> QED
  BY <1>1, <1>4 DEF TransferInv, NamedIsMade, LessIsAhead

\* The file in hand gets the transfer suffix, if it has not got it already.
LEMMA RenameStep == ASSUME TransferInv, RenameForTransfer PROVE TransferInv'
<1>1. /\ TransferTypeOK /\ pc = "rename" /\ pc' = "rsync" /\ todo \in Files
      /\ UNCHANGED <<made, remote, todo>>
  BY DEF TransferInv, TransferTypeOK, RenameForTransfer
<1>2. CASE todo \in Named("xfer")
  <2>1. UNCHANGED local /\ local[todo].xfer # Absent
    BY <1>2 DEF RenameForTransfer, Named
  <2>2. TransferTypeOK' /\ InHandOnly' /\ TransferredIsClosed' /\ CopiedFirst'
    BY <1>1, <2>1
       DEF TransferInv, TransferTypeOK, InHandOnly, TransferredIsClosed, Closed, CopiedFirst
  <2> QED
    BY <1>1, <2>1, <2>2 DEF TransferInv, NamedIsMade, LessIsAhead
<1>3. CASE todo \notin Named("xfer")
  <2>1. local[todo].xfer = Absent /\ local[todo].plain # Absent /\ Move(todo, "plain", "xfer")
    BY <1>1, <1>3 DEF RenameForTransfer, Named, TransferInv, InHandOnly
  <2>2. /\ TransferTypeOK' /\ NamedIsMade'
        /\ local'[todo].xfer = local[todo].plain /\ local'[todo].plain = Absent
        /\ local'[todo].raw = local[todo].raw /\ local'[todo].done = local[todo].done
        /\ \A g \in Files \ {todo} : local'[g] = local[g]
        /\ \A g \in Files : Closed(g)' = Closed(g)
    BY <1>1, <2>1, MoveStep DEF Names
  <2>3. InHandOnly'
    <3>1. \A g \in Files : local'[g].xfer # Absent => g = todo
      BY <1>1, <2>2 DEF TransferInv, InHandOnly
    <3> QED
      BY <1>1, <2>1, <2>2, <3>1 DEF InHandOnly
  <2>4. TransferredIsClosed'
    BY <1>1, <2>2 DEF TransferInv, TransferredIsClosed
  <2>5. LessIsAhead'
    <3>1. Ordered(local'[todo])
      BY <1>1, <2>1, <2>2, ContentsAre, SMT
         DEF TransferInv, LessIsAhead, Ordered, Absent, Content
    <3> QED
      BY <2>2, <3>1 DEF TransferInv, LessIsAhead
  <2>6. CopiedFirst'
    BY <1>1, <2>2 DEF TransferInv, CopiedFirst
  <2> QED
    BY <2>2, <2>3, <2>4, <2>5, <2>6 DEF TransferInv
<1> QED
  BY <1>2, <1>3

\* The copy is replaced by the whole file, which is not less than what an
\* earlier copy of it was marked with.
LEMMA RsyncStep == ASSUME TransferInv, Rsync PROVE TransferInv'
<1>1. /\ TransferTypeOK /\ pc = "rsync" /\ pc' = "mark" /\ todo \in Files
      /\ UNCHANGED <<made, local, todo>> /\ local[todo].xfer # Absent
  BY DEF TransferInv, TransferTypeOK, InHandOnly, Rsync
<1>2. local[todo].xfer \in Content /\ local[todo].done <= local[todo].xfer
  BY <1>1, ContentsAre DEF TransferInv, LessIsAhead, Ordered
<1>3. /\ remote' \in [Files -> Content] /\ remote'[todo] = local[todo].xfer
      /\ \A g \in Files \ {todo} : remote'[g] = remote[g]
  BY <1>1, <1>2 DEF Rsync, TransferTypeOK
<1>4. TransferTypeOK' /\ InHandOnly' /\ TransferredIsClosed'
  BY <1>1, <1>3 DEF TransferInv, TransferTypeOK, InHandOnly, TransferredIsClosed, Closed
<1>5. local[todo].xfer <= local[todo].xfer
  BY <1>2, ContentIs
<1>6. CopiedFirst'
  BY <1>1, <1>2, <1>3, <1>5 DEF TransferInv, CopiedFirst
<1> QED
  BY <1>1, <1>4, <1>6 DEF TransferInv, NamedIsMade, LessIsAhead

\* The copied file is marked.
LEMMA MarkStep == ASSUME TransferInv, Mark PROVE TransferInv'
<1>1. /\ TransferTypeOK /\ pc = "mark" /\ pc' = "compress" /\ todo \in Files
      /\ UNCHANGED <<made, remote, todo>> /\ local[todo].xfer # Absent
      /\ Move(todo, "xfer", "done")
  BY DEF TransferInv, TransferTypeOK, InHandOnly, Mark
<1>2. /\ TransferTypeOK' /\ NamedIsMade'
      /\ local'[todo].done = local[todo].xfer /\ local'[todo].xfer = Absent
      /\ local'[todo].raw = local[todo].raw /\ local'[todo].plain = local[todo].plain
      /\ \A g \in Files \ {todo} : local'[g] = local[g]
      /\ \A g \in Files : Closed(g)' = Closed(g)
  BY <1>1, MoveStep DEF Names
<1>3. InHandOnly'
  BY <1>1, <1>2 DEF TransferInv, InHandOnly
<1>4. TransferredIsClosed'
  BY <1>1, <1>2 DEF TransferInv, TransferredIsClosed
<1>5. LessIsAhead'
  <2>1. Ordered(local'[todo])
    BY <1>1, <1>2, ContentsAre, SMT DEF TransferInv, LessIsAhead, Ordered, Absent, Content
  <2> QED
    BY <1>2, <2>1 DEF TransferInv, LessIsAhead
<1>6. CopiedFirst'
  <2>1. local'[todo].done <= remote[todo]
    BY <1>1, <1>2 DEF TransferInv, CopiedFirst
  <2> QED
    BY <1>1, <1>2, <2>1 DEF TransferInv, CopiedFirst
<1> QED
  BY <1>2, <1>3, <1>4, <1>5, <1>6 DEF TransferInv

\* After a failed copy the file gets its old name back, which may by then be
\* the name of a dump compressed anew.
LEMMA BailOutStep == ASSUME TransferInv, BailOut PROVE TransferInv'
<1>1. /\ TransferTypeOK /\ pc = "back" /\ pc' = "down" /\ todo \in Files
      /\ UNCHANGED <<made, remote>> /\ local[todo].xfer # Absent
      /\ Move(todo, "xfer", "plain")
  BY DEF TransferInv, TransferTypeOK, InHandOnly, BailOut
<1>2. /\ TransferTypeOK' /\ NamedIsMade'
      /\ local'[todo].plain = local[todo].xfer /\ local'[todo].xfer = Absent
      /\ local'[todo].raw = local[todo].raw /\ local'[todo].done = local[todo].done
      /\ \A g \in Files \ {todo} : local'[g] = local[g]
      /\ \A g \in Files : Closed(g)' = Closed(g)
  BY <1>1, MoveStep DEF Names
<1>3. InHandOnly'
  BY <1>1, <1>2 DEF TransferInv, InHandOnly
<1>4. TransferredIsClosed'
  BY <1>1, <1>2 DEF TransferInv, TransferredIsClosed
<1>5. LessIsAhead'
  <2>1. Ordered(local'[todo])
    BY <1>1, <1>2, ContentsAre, SMT DEF TransferInv, LessIsAhead, Ordered, Absent, Content
  <2> QED
    BY <1>2, <2>1 DEF TransferInv, LessIsAhead
<1>6. CopiedFirst'
  BY <1>1, <1>2 DEF TransferInv, CopiedFirst
<1> QED
  BY <1>2, <1>3, <1>4, <1>5, <1>6 DEF TransferInv

\* The current log grows: it has its own name only.
LEMMA GrowStep == ASSUME TransferInv, NEW s \in Sources, Grow(s) PROVE TransferInv'
<1> DEFINE f0 == <<s, made[s]>>
<1>1. TransferTypeOK /\ UNCHANGED <<made, remote, pc, todo>> /\ IsLog(s)
  BY DEF TransferInv, Grow
<1>2. f0 \in Files /\ f0[1] = s /\ f0[2] = made[s]
  <2>1. made[s] \in 1 .. MaxPerSource
    BY <1>1, TransferAssumption, SMT DEF Grow, TransferTypeOK
  <2> QED
    BY <2>1 DEF Files
<1>3. PICK name \in Names : /\ local[f0][name] \in 0 .. MaxSize - 1
                            /\ local' = [local EXCEPT ![f0][name] = @ + 1]
  BY DEF Grow
<1> HIDE DEF f0
<1>4. ~Closed(f0)
  <2>1. ~(made[s] < made[s])
    BY <1>1, TransferAssumption, SMT DEF TransferTypeOK
  <2> QED
    BY <1>1, <1>2, <2>1 DEF Closed
<1>5. local[f0].xfer = Absent /\ local[f0].done = Absent /\ local[f0].raw = Absent
  BY <1>1, <1>2, <1>4 DEF TransferInv, TransferredIsClosed
<1>6. local[f0][name] # Absent /\ local[f0][name] + 1 \in Content
  BY <1>3, TransferAssumption, SMT DEF Absent, Content
<1>7. name = "plain"
  BY <1>5, <1>6 DEF Names
<1>8. /\ local' \in [Files -> [Names -> Content]]
      /\ local'[f0] = [local[f0] EXCEPT !.plain = @ + 1]
      /\ \A g \in Files \ {f0} : local'[g] = local[g]
  BY <1>1, <1>2, <1>3, <1>6, <1>7 DEF TransferTypeOK
<1>9. /\ local[f0].plain # Absent /\ local'[f0].plain = local[f0].plain + 1
      /\ local'[f0].xfer = Absent /\ local'[f0].done = Absent /\ local'[f0].raw = Absent
  BY <1>1, <1>2, <1>5, <1>6, <1>7, <1>8 DEF TransferTypeOK, Names
<1>10. TransferTypeOK'
  BY <1>1, <1>8 DEF TransferTypeOK
<1>11. NamedIsMade'
  <2> SUFFICES ASSUME NEW f \in Files, NEW n \in Names, local'[f][n] # Absent
               PROVE  f[2] <= made[f[1]]
    BY <1>1 DEF NamedIsMade
  <2>1. f # f0 => local[f][n] # Absent
    BY <1>8
  <2> QED
    BY <1>2, <1>3, <1>6, <2>1 DEF TransferInv, NamedIsMade
<1>12. \A f \in Files : /\ local'[f].xfer = local[f].xfer /\ local'[f].done = local[f].done
                        /\ local'[f].raw = local[f].raw
                        /\ local[f].plain # Absent => local'[f].plain # Absent
  <2>1. local'[f0].plain # Absent
    BY <1>1, <1>2, <1>3, <1>7, <1>9, SMT DEF Absent
  <2> QED
    BY <1>5, <1>8, <1>9, <2>1
<1>13. InHandOnly'
  BY <1>1, <1>12 DEF TransferInv, InHandOnly, TransferTypeOK
<1>14. TransferredIsClosed'
  BY <1>1, <1>12 DEF TransferInv, TransferredIsClosed, Closed
<1>15. LessIsAhead'
  <2>1. Ordered(local'[f0])
    BY <1>1, <1>2, <1>3, <1>7, <1>9, SMT DEF Ordered, Absent
  <2> QED
    BY <1>8, <2>1 DEF TransferInv, LessIsAhead
<1>16. CopiedFirst'
  BY <1>1, <1>12 DEF TransferInv, CopiedFirst, TransferTypeOK
<1> QED
  BY <1>10, <1>11, <1>13, <1>14, <1>15, <1>16 DEF TransferInv

\* A compression cut short leaves less than the dump, which is still there.
LEMMA PowerFailsStep == ASSUME TransferInv, PowerFails PROVE TransferInv'
<1>1. TransferTypeOK /\ UNCHANGED <<made, remote>> /\ pc' = "down"
  BY DEF TransferInv, PowerFails
<1>2. PICK f \in ToCompress : local' = [local EXCEPT ![f].plain = 0]
  BY DEF PowerFails
<1>3. f \in Files /\ local[f].raw # Absent /\ local[f].plain = Absent
  BY DEF ToCompress, Named
<1>4. 0 \in Content
  BY SMT DEF Content
<1>5. /\ local' \in [Files -> [Names -> Content]]
      /\ local'[f] = [local[f] EXCEPT !.plain = 0]
      /\ \A g \in Files \ {f} : local'[g] = local[g]
  BY <1>1, <1>2, <1>3, <1>4 DEF TransferTypeOK
<1>6. /\ local'[f].plain = 0 /\ local'[f].raw = local[f].raw
      /\ local'[f].xfer = local[f].xfer /\ local'[f].done = local[f].done
  BY <1>1, <1>3, <1>5 DEF TransferTypeOK, Names
<1>7. TransferTypeOK'
  BY <1>1, <1>5 DEF TransferTypeOK
<1>8. NamedIsMade'
  <2> SUFFICES ASSUME NEW g \in Files, NEW name \in Names, local'[g][name] # Absent
               PROVE  g[2] <= made[g[1]]
    BY <1>1 DEF NamedIsMade
  <2>1. g = f \/ local[g][name] # Absent
    BY <1>5
  <2>2. local[f]["raw"] # Absent /\ "raw" \in Names
    BY <1>3 DEF Names
  <2>3. NamedIsMade
    BY DEF TransferInv
  <2>4. CASE local[g][name] # Absent
    BY <2>3, <2>4, Zenon DEF NamedIsMade
  <2>5. CASE g = f
    BY <1>3, <2>2, <2>3, <2>5, Zenon DEF NamedIsMade
  <2> QED
    BY <2>1, <2>4, <2>5
<1>9. InHandOnly'
  <2>1. InHandOnly
    BY DEF TransferInv
  <2>2. \A g \in Files : local'[g].xfer = local[g].xfer
    BY <1>5, <1>6
  <2> QED
    BY <1>1, <2>1, <2>2 DEF InHandOnly
<1>10. TransferredIsClosed'
  <2>1. \A g \in Files : /\ local'[g].raw = local[g].raw /\ local'[g].xfer = local[g].xfer
                         /\ local'[g].done = local[g].done
    BY <1>5, <1>6
  <2> QED
    BY <1>1, <2>1 DEF TransferInv, TransferredIsClosed, Closed
<1>11. LessIsAhead'
  <2>1. Ordered(local'[f])
    BY <1>3, <1>6, SMT DEF TransferInv, LessIsAhead, Ordered, Absent
  <2> QED
    BY <1>5, <2>1 DEF TransferInv, LessIsAhead
<1>12. CopiedFirst'
  BY <1>1, <1>5, <1>6 DEF TransferInv, CopiedFirst
<1> QED
  BY <1>7, <1>8, <1>9, <1>10, <1>11, <1>12 DEF TransferInv

LEMMA StepTransfer == TransferInv /\ [Next]_xferVars => TransferInv'
<1> SUFFICES ASSUME TransferInv, [Next]_xferVars PROVE TransferInv'
  OBVIOUS
<1>1. ASSUME NEW s \in Sources, Produce(s) PROVE TransferInv'
  BY <1>1, ProduceStep
<1>2. ASSUME NEW s \in Sources, Grow(s) PROVE TransferInv'
  BY <1>2, GrowStep
<1>3. CASE Start \/ Sleep \/ Crash \/ RsyncFails
  BY <1>3, IdleStep
<1>4. CASE Compress \/ PowerFails
  BY <1>4, CompressStep, PowerFailsStep
<1>5. CASE TakeUp \/ TakeNew
  BY <1>5, TakeUpStep, TakeNewStep
<1>6. CASE RenameForTransfer \/ Rsync \/ Mark \/ BailOut
  BY <1>6, RenameStep, RsyncStep, MarkStep, BailOutStep
<1>7. CASE UNCHANGED xferVars
  BY <1>7 DEF xferVars, TransferInv, TransferTypeOK, NamedIsMade, InHandOnly,
              TransferredIsClosed, Closed, LessIsAhead, CopiedFirst
<1> QED
  BY <1>1, <1>2, <1>3, <1>4, <1>5, <1>6, <1>7 DEF Next, Script

LEMMA TransferInvariant == Spec => []TransferInv
<1> QED
  BY InitTransfer, StepTransfer, PTL DEF Spec
-----------------------------------------------------------------------------
(***************************************************************************)
(* However often the script is killed or a copy fails, at most one file of *)
(* all nodes has the transfer suffix: the next start finds the broken      *)
(* transfer, and does not begin another one beside it.                     *)
(***************************************************************************)
THEOREM OneFileInTransit == Spec => []OneInTransit
<1>1. TransferInv => OneInTransit
  <2> SUFFICES ASSUME TransferInv PROVE OneInTransit
    OBVIOUS
  <2>1. Cardinality({}) = 0 /\ \A f : Cardinality({f}) = 1
    BY FS_EmptySet, FS_Singleton
  <2>2. Named("xfer") = {} \/ \E f : Named("xfer") = {f}
    BY DEF TransferInv, InHandOnly, Named
  <2>3. 0 <= 1 /\ 1 <= 1
    BY SMT
  <2> QED
    BY <2>1, <2>2, <2>3 DEF OneInTransit
<1> QED
  BY <1>1, TransferInvariant, PTL

(***************************************************************************)
(* Whatever is marked .at_ucb on a node is at Berkeley with all the node   *)
(* has of it, also when it was copied more than once, given back after a   *)
(* failure or compressed anew after a power failure.                       *)
(***************************************************************************)
THEOREM MarkedFilesAreCopied == Spec => []MarkedIsCopied
<1>1. TransferInv => MarkedIsCopied
  <2> SUFFICES ASSUME TransferInv, NEW f \in Files PROVE remote[f] >= local[f].done
    BY DEF MarkedIsCopied, Named
  <2>1. local[f].done <= remote[f] /\ local[f].done \in Int /\ remote[f] \in Int
    BY ContentsAre, ContentIs DEF TransferInv, CopiedFirst
  <2> QED
    BY <2>1, SMT
<1> QED
  BY <1>1, TransferInvariant, PTL
=============================================================================
