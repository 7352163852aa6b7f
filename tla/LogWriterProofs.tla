--------------------------- MODULE LogWriterProofs ---------------------------
(***************************************************************************)
(* Proofs about LogWriter, for any rows, sizes and faults: its types, that *)
(* every row is counted by the time stop() returns, and that the counter   *)
(* of written rows never claims more than the table holds.                 *)
(***************************************************************************)
EXTENDS LogWriter, FiniteSetTheorems, SequenceTheorems, TLAPS

\* Who has a batch in hand, and where the others are meanwhile.
ShapeInv ==
  /\ loop # "ended" => stop \in {"no", "drain"} /\ rest = <<>>
  /\ loop = "ended" => stop \notin {"no", "drain"}
  /\ loop = "wait" => stop = "no"
  /\ loop \in {"flush", "salvage"} \/ stop \in {"flush", "salvage"} <=> batch # <<>>
  /\ done # 0 => Salvaging

\* _taken covers the batch in hand and what is left of the last drain, and every
\* row is queued, in hand or counted.
CountInv ==
  /\ stop # "stopped" =>
       /\ done + Len(batch) + Len(rest) <= taken
       /\ written + dropped + Len(queue) + taken = Cardinality(given) + done + twice
  /\ stop = "stopped" => written + dropped = Cardinality(given) + twice

\* TypeOK without its Boolean, which the steps treat apart.
Types ==
  /\ queue \in Seq(Rows) /\ Len(queue) <= MaxQueue
  /\ loop \in LoopPlaces /\ stop \in StopPlaces
  /\ batch \in Seq(Rows) /\ rest \in Seq(Rows)
  /\ attempt \in 0..Retries /\ taken \in Nat
  /\ db \subseteq Rows /\ written \in Nat /\ dropped \in Nat
  /\ given \subseteq Rows
  /\ done \in Nat /\ twice \in Nat

WriterInv == Types /\ ShapeInv /\ CountInv

\* Cutting a sequence into a batch and the rest loses no row.
LEMMA Cut ==
  ASSUME NEW s \in Seq(Rows)
  PROVE  /\ Chunk(s) \in Seq(Rows) /\ Beyond(s) \in Seq(Rows)
         /\ Len(Chunk(s)) \in Nat /\ Len(Beyond(s)) \in Nat
         /\ Len(Chunk(s)) + Len(Beyond(s)) = Len(s)
         /\ Len(Beyond(s)) <= Len(s)
         /\ s # <<>> => Chunk(s) # <<>>
  <1> DEFINE n == IF Len(s) <= MaxBatch THEN Len(s) ELSE MaxBatch
  <1>1. Len(s) \in Nat /\ n \in Nat /\ n <= Len(s) /\ (s # <<>> => Len(s) > 0 /\ n > 0)
    BY SizesAssumption
  <1>2. SubSeq(s, 1, n) \in Seq(Rows) /\ Len(SubSeq(s, 1, n)) = n
    <2>1. \A i \in 1..n : s[i] \in Rows
      BY <1>1
    <2> QED BY <1>1, <2>1, SubSeqProperties
  <1>3. SubSeq(s, n + 1, Len(s)) \in Seq(Rows) /\ Len(SubSeq(s, n + 1, Len(s))) = Len(s) - n
    <2>1. \A i \in n + 1..Len(s) : s[i] \in Rows
      BY <1>1
    <2> QED BY <1>1, <2>1, SubSeqProperties
  <1>4. Chunk(s) = SubSeq(s, 1, n) /\ Beyond(s) = SubSeq(s, n + 1, Len(s))
    BY <1>2 DEF Chunk, Beyond
  <1>5. ASSUME s # <<>> PROVE Chunk(s) # <<>>
    <2>1. Len(Chunk(s)) > 0
      BY <1>1, <1>2, <1>4, <1>5
    <2>2. Len(<<>>) = 0
      OBVIOUS
    <2> QED BY <2>1, <2>2
  <1>6. /\ Len(Chunk(s)) = n /\ Len(Beyond(s)) = Len(s) - n
        /\ Chunk(s) \in Seq(Rows) /\ Beyond(s) \in Seq(Rows)
    BY <1>2, <1>3, <1>4
  <1> HIDE DEF n
  <1> QED BY <1>1, <1>5, <1>6

\* The rows of a sequence are rows.
LEMMA SetOfRows ==
  ASSUME NEW s \in Seq(Rows)
  PROVE  ToSet(s) \subseteq Rows
  BY DEF ToSet

\* A failed write leaves a table of rows.
LEMMA FailsType ==
  ASSUME NEW s \in Seq(Rows), db \subseteq Rows, Fails(s)
  PROVE  db' \subseteq Rows
  BY SetOfRows DEF Fails

\* A new row is one more.
LEMMA OneMore ==
  ASSUME NEW r \in Rows, given \subseteq Rows, r \notin given
  PROVE  /\ Cardinality(given) \in Nat
         /\ Cardinality(given \cup {r}) = Cardinality(given) + 1
  BY RowsAssumption, FS_Subset, FS_AddElement, FS_CardinalityType

\* The writer starts empty.
LEMMA InitInv == Init => WriterInv
  <1> SUFFICES ASSUME Init PROVE WriterInv
    OBVIOUS
  <1>1. Cardinality({}) = 0
    BY FS_EmptySet
  <1>2. <<>> \in Seq(Rows) /\ Len(<<>>) = 0
    OBVIOUS
  <1>3. Types
    BY <1>2, SizesAssumption DEF Init, Types, LoopPlaces, StopPlaces
  <1>4. ShapeInv /\ CountInv
    BY <1>1, <1>2 DEF Init, ShapeInv, CountInv, Salvaging
  <1> QED BY <1>3, <1>4 DEF WriterInv

\* The figures are numbers, and every row is queued, in hand or counted.
Balanced ==
  /\ Len(batch) \in Nat /\ Len(rest) \in Nat /\ Len(queue) \in Nat
  /\ written \in Nat /\ dropped \in Nat /\ taken \in Nat /\ done \in Nat /\ twice \in Nat
  /\ Cardinality(given) \in Nat
  /\ done + Len(batch) + Len(rest) <= taken
  /\ written + dropped + Len(queue) + taken = Cardinality(given) + done + twice

\* Until stop() has counted what is lost, the figures balance.
LEMMA Balance ==
  ASSUME WriterInv, stop # "stopped"
  PROVE  Balanced
  BY RowsAssumption, FS_Subset, FS_CardinalityType DEF WriterInv, Types, CountInv, Balanced

\* The lengths and the number of rows, by constants: the sums below are plain
\* arithmetic on them.
LEMMA Figures ==
  ASSUME Balanced
  PROVE  \E b, e, q, c \in Nat :
           /\ b = Len(batch) /\ e = Len(rest) /\ q = Len(queue) /\ c = Cardinality(given)
           /\ done + b + e <= taken
           /\ written + dropped + q + taken = c + done + twice
  <1>1. PICK b \in Nat : b = Len(batch)
    BY DEF Balanced
  <1>2. PICK e \in Nat : e = Len(rest)
    BY DEF Balanced
  <1>3. PICK q \in Nat : q = Len(queue)
    BY DEF Balanced
  <1>4. PICK c \in Nat : c = Cardinality(given)
    BY DEF Balanced
  <1>5. done + b + e <= taken /\ written + dropped + q + taken = c + done + twice
    BY <1>1, <1>2, <1>3, <1>4 DEF Balanced
  <1> QED BY <1>1, <1>2, <1>3, <1>4, <1>5, Zenon

\* The counters are numbers.
LEMMA CountersType ==
  ASSUME Balanced
  PROVE  written \in Nat /\ dropped \in Nat /\ taken \in Nat /\ done \in Nat /\ twice \in Nat
  BY DEF Balanced

\* A flush that is over took its rows out of the hand and into the counters.
LEMMA FlushedFigures ==
  ASSUME Balanced
  PROVE  (written + dropped + Len(batch)) + Len(queue) + (taken - (done + Len(batch)))
           = Cardinality(given) + twice
  <1>1. PICK b, e, q, c \in Nat :
           /\ b = Len(batch) /\ e = Len(rest) /\ q = Len(queue) /\ c = Cardinality(given)
           /\ done + b + e <= taken
           /\ written + dropped + q + taken = c + done + twice
    BY Figures
  <1>2. done + b + e <= taken /\ written + dropped + q + taken = c + done + twice
    BY <1>1
  <1>3. written \in Nat /\ dropped \in Nat /\ taken \in Nat /\ done \in Nat /\ twice \in Nat
    BY CountersType
  <1>4. (written + dropped + b) + q + (taken - (done + b)) = c + twice
    BY <1>2, <1>3
  <1> QED BY <1>1, <1>4

\* A row that is put is one more on the queue, or one more dropped.
LEMMA PutFigures ==
  ASSUME Balanced
  PROVE  /\ written + dropped + (Len(queue) + 1) + taken = (Cardinality(given) + 1) + done + twice
         /\ written + (dropped + 1) + Len(queue) + taken = (Cardinality(given) + 1) + done + twice
  <1>1. PICK b, e, q, c \in Nat :
           /\ b = Len(batch) /\ e = Len(rest) /\ q = Len(queue) /\ c = Cardinality(given)
           /\ done + b + e <= taken
           /\ written + dropped + q + taken = c + done + twice
    BY Figures
  <1>2. written + dropped + q + taken = c + done + twice
    BY <1>1
  <1>3. written \in Nat /\ dropped \in Nat /\ taken \in Nat /\ done \in Nat /\ twice \in Nat
    BY CountersType
  <1>4. /\ written + dropped + (q + 1) + taken = (c + 1) + done + twice
        /\ written + (dropped + 1) + q + taken = (c + 1) + done + twice
    BY <1>2, <1>3
  <1> QED BY <1>1, <1>4

\* A row of a refused batch leaves the batch and is counted.
LEMMA SalvageFigures ==
  ASSUME Balanced
  PROVE  /\ (written + 1) + dropped + Len(queue) + taken = Cardinality(given) + (done + 1) + twice
         /\ written + (dropped + 1) + Len(queue) + taken = Cardinality(given) + (done + 1) + twice
         /\ (done + 1) + (Len(batch) - 1) + Len(rest) <= taken
  <1>1. PICK b, e, q, c \in Nat :
           /\ b = Len(batch) /\ e = Len(rest) /\ q = Len(queue) /\ c = Cardinality(given)
           /\ done + b + e <= taken
           /\ written + dropped + q + taken = c + done + twice
    BY Figures
  <1>2. done + b + e <= taken /\ written + dropped + q + taken = c + done + twice
    BY <1>1
  <1>3. written \in Nat /\ dropped \in Nat /\ taken \in Nat /\ done \in Nat /\ twice \in Nat
    BY CountersType
  <1>4. /\ (written + 1) + dropped + q + taken = c + (done + 1) + twice
        /\ written + (dropped + 1) + q + taken = c + (done + 1) + twice
        /\ (done + 1) + (b - 1) + e <= taken
    BY <1>2, <1>3
  <1> QED BY <1>1, <1>4

\* A batch that is cut short leaves its counted rows to be counted again; what
\* stop() drops is what is queued or in hand.
LEMMA CutFigures ==
  ASSUME Balanced
  PROVE  /\ written + dropped + Len(queue) + taken = Cardinality(given) + 0 + (twice + done)
         /\ 0 + 0 + Len(rest) <= taken
         /\ written + (dropped + (Len(queue) + taken)) = Cardinality(given) + (twice + done)
         /\ written + dropped + 0 + (taken + Len(queue)) = Cardinality(given) + done + twice
  <1>1. PICK b, e, q, c \in Nat :
           /\ b = Len(batch) /\ e = Len(rest) /\ q = Len(queue) /\ c = Cardinality(given)
           /\ done + b + e <= taken
           /\ written + dropped + q + taken = c + done + twice
    BY Figures
  <1>2. done + b + e <= taken /\ written + dropped + q + taken = c + done + twice
    BY <1>1
  <1>3. written \in Nat /\ dropped \in Nat /\ taken \in Nat /\ done \in Nat /\ twice \in Nat
    BY CountersType
  <1>4. /\ written + dropped + q + taken = c + 0 + (twice + done)
        /\ 0 + 0 + e <= taken
        /\ written + (dropped + (q + taken)) = c + (twice + done)
        /\ written + dropped + 0 + (taken + q) = c + done + twice
    BY <1>2, <1>3
  <1> QED BY <1>1, <1>4

\* What an end of a flush of n rows does to places and figures: Finish.
LEMMA FinishInv ==
  ASSUME WriterInv, Flushing \/ Salvaging, NEW n \in Nat, Finish(n),
         n = done + Len(batch),
         written' + dropped' = written + dropped + Len(batch),
         written' \in Nat, dropped' \in Nat, db' \subseteq Rows,
         UNCHANGED <<queue, rest, given, twice>>
  PROVE  WriterInv'
  <1>1. <<>> \in Seq(Rows) /\ Len(<<>>) = 0
    OBVIOUS
  <1>2. /\ Types /\ ShapeInv /\ CountInv /\ Len(batch) \in Nat /\ Len(rest) \in Nat
        /\ Len(queue) \in Nat /\ stop # "stopped"
    <2>1. Types /\ ShapeInv /\ CountInv
      BY DEF WriterInv
    <2>2. Len(batch) \in Nat /\ Len(rest) \in Nat /\ Len(queue) \in Nat
      BY <2>1 DEF Types
    <2>3. stop # "stopped"
      BY <2>1 DEF ShapeInv, Flushing, Salvaging
    <2> QED BY <2>1, <2>2, <2>3
  <1>3. taken' = taken - n /\ taken' \in Nat /\ batch' = <<>> /\ attempt' = 0 /\ done' = 0
    <2>1. taken' = taken - n /\ batch' = <<>> /\ attempt' = 0 /\ done' = 0
      BY DEF Finish
    <2>2. n <= taken /\ taken \in Nat
      BY <1>2 DEF CountInv, Types
    <2>3. taken - n \in Nat
      BY <2>2
    <2> QED BY <2>1, <2>3
  <1>4. /\ loop' \in LoopPlaces /\ stop' \in StopPlaces /\ stop' # "stopped"
        /\ ShapeInv'
    BY <1>2, <1>3 DEF Finish, AfterFlush, Types, ShapeInv, LoopPlaces, StopPlaces, Flushing, Salvaging
  <1>5. Types'
    <2>1. batch' \in Seq(Rows) /\ attempt' \in 0..Retries /\ done' \in Nat
      BY <1>1, <1>3, SizesAssumption
    <2> QED BY <1>2, <1>3, <1>4, <2>1 DEF Types
  <1>6. CountInv'
    <2>1. /\ done + Len(batch) + Len(rest) <= taken
          /\ written + dropped + Len(queue) + taken = Cardinality(given) + done + twice
      BY <1>2 DEF CountInv
    <2>2. Cardinality(given) \in Nat
      BY <1>2, RowsAssumption, FS_Subset, FS_CardinalityType DEF Types
    <2>3. /\ written \in Nat /\ dropped \in Nat /\ taken \in Nat /\ done \in Nat /\ twice \in Nat
      BY <1>2 DEF Types
    <2>4. /\ Len(batch') = 0 /\ Len(rest') = Len(rest) /\ Len(queue') = Len(queue)
          /\ Cardinality(given') = Cardinality(given) /\ twice' = twice
      BY <1>1, <1>3
    <2>5. Len(batch) \in Nat /\ Len(rest) \in Nat /\ Len(queue) \in Nat
      BY <1>2
    <2>6. taken' = taken - n /\ done' = 0
      BY <1>3
    <2>7. done' + Len(batch') + Len(rest') <= taken'
      BY <2>1, <2>3, <2>4, <2>5, <2>6
    <2>8. (written + dropped + Len(batch)) + Len(queue) + (taken - (done + Len(batch)))
            = Cardinality(given) + twice
      BY <1>2, Balance, FlushedFigures
    <2>9. written' + dropped' + Len(queue') + taken' = Cardinality(given') + done' + twice'
      BY <2>8, <2>2, <2>3, <2>4, <2>6
    <2> QED BY <1>4, <2>7, <2>9 DEF CountInv
  <1> QED BY <1>4, <1>5, <1>6 DEF WriterInv

\* A write of a batch, however it goes, keeps them.
LEMMA FlushInv ==
  ASSUME WriterInv, Write \/ Refuse \/ WriteFails
  PROVE  WriterInv'
  <1>t. Types /\ ShapeInv /\ CountInv /\ batch \in Seq(Rows)
    BY DEF WriterInv, Types
  <1>f. Flushing /\ stop # "stopped"
    BY <1>t DEF Write, Refuse, WriteFails, Flushing, ShapeInv
  <1>n. Len(batch) \in Nat /\ written \in Nat /\ dropped \in Nat
    BY <1>t DEF Types
  <1>1. done = 0 /\ batch # <<>> /\ ~Salvaging /\ attempt \in 0..Retries
    BY <1>t, <1>f DEF ShapeInv, Flushing, Salvaging, Types
  <1>2. CASE Write
    <2>1. written' = written + Len(batch) /\ dropped' = dropped
      BY <1>2 DEF Write
    <2>2. db' \subseteq Rows
      BY <1>t, <1>2, SetOfRows DEF Write, Types
    <2>3. Finish(Len(batch)) /\ UNCHANGED <<queue, rest, given, twice>>
      BY <1>2 DEF Write
    <2>4. written' + dropped' = written + dropped + Len(batch) /\ written' \in Nat /\ dropped' \in Nat
      BY <1>n, <2>1
    <2>5. Len(batch) = done + Len(batch)
      BY <1>n, <1>1
    <2> QED BY <1>f, <1>n, <2>2, <2>3, <2>4, <2>5, FinishInv
  <1>3. CASE Refuse
    <2>1. UNCHANGED <<queue, batch, attempt, rest, taken, db, written, dropped, given, done, twice>>
      BY <1>3 DEF Refuse
    <2>2. /\ loop' \in LoopPlaces /\ stop' \in StopPlaces /\ stop' # "stopped" /\ ShapeInv'
      BY <1>t, <1>f, <1>1, <1>3, <2>1
      DEF Refuse, ShapeInv, Flushing, Salvaging, Types, LoopPlaces, StopPlaces
    <2>3. Types'
      BY <1>t, <2>1, <2>2 DEF Types
    <2>4. CountInv'
      BY <1>t, <1>f, <2>1, <2>2 DEF CountInv
    <2> QED BY <2>2, <2>3, <2>4 DEF WriterInv
  <1>4. CASE WriteFails
    <2>1. /\ db' \subseteq Rows /\ UNCHANGED <<queue, rest, written, given, twice>>
      BY <1>t, <1>4, FailsType DEF WriteFails, Types
    <2>2. CASE attempt < Retries /\ attempt' = attempt + 1
               /\ UNCHANGED <<loop, stop, batch, taken, dropped, done>>
      <3>1. attempt' \in 0..Retries
        BY <1>1, <2>2, SizesAssumption
      <3>2. Types'
        BY <1>t, <2>1, <2>2, <3>1 DEF Types
      <3>3. ShapeInv' /\ CountInv'
        BY <1>t, <2>1, <2>2 DEF ShapeInv, CountInv, Salvaging
      <3> QED BY <3>2, <3>3 DEF WriterInv
    <2>3. CASE dropped' = dropped + Len(batch) /\ Finish(Len(batch))
      <3>1. written' + dropped' = written + dropped + Len(batch) /\ written' \in Nat /\ dropped' \in Nat
        BY <1>n, <2>1, <2>3
      <3>2. Len(batch) = done + Len(batch)
        BY <1>n, <1>1
      <3> QED BY <1>f, <1>n, <2>1, <2>3, <3>1, <3>2, FinishInv
    <2> QED BY <1>4, <2>2, <2>3 DEF WriteFails
  <1> QED BY <1>2, <1>3, <1>4

\* A row of a refused batch, however it goes, keeps them.
LEMMA SalvageInv ==
  ASSUME WriterInv, Salvage
  PROVE  WriterInv'
  <1>t. Types /\ ShapeInv /\ CountInv /\ batch \in Seq(Rows)
    BY DEF WriterInv, Types
  <1>s. Salvaging /\ stop # "stopped" /\ batch # <<>>
    BY <1>t DEF Salvage, Salvaging, ShapeInv
  <1>n. Len(batch) \in Nat /\ Len(batch) > 0 /\ written \in Nat /\ dropped \in Nat /\ done \in Nat
    BY <1>t, <1>s DEF Types
  <1>1. Head(batch) \in Rows /\ Tail(batch) \in Seq(Rows) /\ Len(Tail(batch)) = Len(batch) - 1
    BY <1>t, <1>s, HeadTailProperties
  <1>2. db' \subseteq Rows
    <2>1. <<Head(batch)>> \in Seq(Rows)
      BY <1>1
    <2>2. ASSUME Fails(<<Head(batch)>>) PROVE db' \subseteq Rows
      BY <1>t, <2>1, <2>2, FailsType DEF Types
    <2> QED BY <1>t, <1>1, <2>2 DEF Salvage, Types
  <1>3. \/ written' = written + 1 /\ dropped' = dropped
        \/ dropped' = dropped + 1 /\ written' = written
    BY DEF Salvage, CountWritten, CountDropped
  <1>4. written' \in Nat /\ dropped' \in Nat /\ written' + dropped' = written + dropped + 1
    BY <1>n, <1>3
  <1>5. UNCHANGED <<queue, rest, given, twice>>
    BY DEF Salvage
  <1>6. CASE Len(batch) = 1 /\ Finish(done + 1)
    <2>1. Len(batch) = 1
      BY <1>6
    <2>2. done + 1 \in Nat /\ done + 1 = done + Len(batch)
      BY <1>n, <2>1
    <2>3. written' + dropped' = written + dropped + Len(batch)
      BY <1>4, <2>1
    <2>4. written' \in Nat /\ dropped' \in Nat /\ Finish(done + 1)
      BY <1>4, <1>6
    <2> QED BY <1>s, <1>2, <1>5, <2>2, <2>3, <2>4, FinishInv
  <1>7. CASE /\ Len(batch) > 1 /\ batch' = Tail(batch) /\ done' = done + 1
             /\ UNCHANGED <<loop, stop, attempt, taken>>
    <2>1. Len(batch') = Len(batch) - 1 /\ batch' \in Seq(Rows) /\ done' \in Nat
      BY <1>n, <1>1, <1>7
    <2>2. batch' # <<>>
      <3>1. Len(batch') > 0
        BY <1>n, <1>7, <2>1
      <3>2. Len(<<>>) = 0
        OBVIOUS
      <3> QED BY <3>1, <3>2
    <2>3. Types'
      BY <1>t, <1>2, <1>4, <1>5, <1>7, <2>1 DEF Types
    <2>4. ShapeInv'
      BY <1>t, <1>s, <1>5, <1>7, <2>2 DEF ShapeInv, Salvaging
    <2>5. /\ (written + 1) + dropped + Len(queue) + taken = Cardinality(given) + (done + 1) + twice
          /\ written + (dropped + 1) + Len(queue) + taken = Cardinality(given) + (done + 1) + twice
          /\ (done + 1) + (Len(batch) - 1) + Len(rest) <= taken
      BY <1>s, Balance, SalvageFigures
    <2>6. /\ written' + dropped' + Len(queue') + taken' = Cardinality(given') + done' + twice'
          /\ done' + Len(batch') + Len(rest') <= taken'
      BY <1>3, <1>5, <1>7, <2>1, <2>5
    <2>7. CountInv'
      BY <1>s, <1>7, <2>6 DEF CountInv
    <2> QED BY <2>3, <2>4, <2>7 DEF WriterInv
  <1> QED BY <1>6, <1>7 DEF Salvage

\* A batch that is cut short, by an error or by the time limit, keeps them.
LEMMA CutInv ==
  ASSUME WriterInv, Flushing \/ Salvaging, CutShort, ShapeInv',
         loop' \in LoopPlaces, stop' \in StopPlaces, stop' # "stopped", db' \subseteq Rows,
         UNCHANGED <<queue, rest, taken, written, dropped, given>>
  PROVE  WriterInv'
  <1>1. Types /\ ShapeInv /\ CountInv /\ stop # "stopped"
    BY DEF WriterInv, ShapeInv, Flushing, Salvaging
  <1>2. batch' = <<>> /\ attempt' = 0 /\ done' = 0 /\ twice' = twice + done
    BY DEF CutShort
  <1>3. <<>> \in Seq(Rows) /\ Len(<<>>) = 0
    OBVIOUS
  <1>4. Types'
    BY <1>1, <1>2, <1>3, SizesAssumption DEF Types
  <1>5. /\ written + dropped + Len(queue) + taken = Cardinality(given) + 0 + (twice + done)
        /\ 0 + 0 + Len(rest) <= taken
    BY <1>1, Balance, CutFigures
  <1>6. /\ written' + dropped' + Len(queue') + taken' = Cardinality(given') + done' + twice'
        /\ done' + Len(batch') + Len(rest') <= taken'
    BY <1>2, <1>3, <1>5
  <1>7. CountInv'
    BY <1>6 DEF CountInv
  <1> QED BY <1>4, <1>7 DEF WriterInv

\* Every step keeps the types, the places and the figures.
LEMMA StepInv ==
  ASSUME WriterInv, [Next]_vars
  PROVE  WriterInv'
  <1>1. <<>> \in Seq(Rows) /\ Len(<<>>) = 0
    OBVIOUS
  <1>2. /\ Types /\ ShapeInv /\ CountInv
        /\ batch \in Seq(Rows) /\ rest \in Seq(Rows) /\ queue \in Seq(Rows)
    BY DEF WriterInv, Types
  <1>n. /\ Len(batch) \in Nat /\ Len(rest) \in Nat /\ Len(queue) \in Nat
        /\ written \in Nat /\ dropped \in Nat /\ taken \in Nat /\ done \in Nat /\ twice \in Nat
        /\ Cardinality(given) \in Nat
    BY <1>2, RowsAssumption, FS_Subset, FS_CardinalityType DEF Types
  <1>c. stop # "stopped" =>
          /\ done + Len(batch) + Len(rest) <= taken
          /\ written + dropped + Len(queue) + taken = Cardinality(given) + done + twice
    BY <1>2 DEF CountInv
  <1>3. batch # <<>> => Len(batch) > 0
    BY <1>2
  <1>4. ASSUME NEW r \in Rows, Put(r) PROVE WriterInv'
    <2>1. Cardinality(given') = Cardinality(given) + 1 /\ given' \subseteq Rows
      BY <1>2, <1>4, OneMore DEF Put, Types
    <2>2. /\ stop' = stop /\ stop # "stopped" /\ ShapeInv'
          /\ UNCHANGED <<loop, batch, attempt, rest, taken, db, written, done, twice>>
      BY <1>2, <1>4 DEF Put, ShapeInv, Over, Salvaging
    <2>3. CASE Fits
      <3>1. queue' = Append(queue, r) /\ dropped' = dropped
        BY <1>4, <2>3 DEF Put
      <3>2. queue' \in Seq(Rows) /\ Len(queue') = Len(queue) + 1 /\ Len(queue') <= MaxQueue
        BY <1>2, <2>3, <3>1, AppendProperties, SizesAssumption DEF Fits
      <3>3. Types'
        BY <1>2, <2>1, <2>2, <3>1, <3>2 DEF Types
      <3>4. CountInv'
        <4>1. Len(queue') = Len(queue) + 1
          BY <3>2
        <4>2. /\ stop' # "stopped" /\ dropped' = dropped
              /\ done' + Len(batch') + Len(rest') <= taken'
          BY <1>n, <1>c, <2>2, <3>1
        <4>3. written' + dropped' + Len(queue') + taken' = Cardinality(given') + done' + twice'
          BY <2>1, <2>2, <4>1, <4>2, Balance, PutFigures
        <4> QED BY <4>2, <4>3 DEF CountInv
      <3> QED BY <2>2, <3>3, <3>4 DEF WriterInv
    <2>4. CASE ~Fits
      <3>1. queue' = queue /\ dropped' = dropped + 1
        BY <1>4, <2>4 DEF Put
      <3>2. Types'
        BY <1>2, <2>1, <2>2, <3>1 DEF Types
      <3>3. CountInv'
        <4>1. Len(queue') = Len(queue)
          BY <3>1
        <4>2. /\ stop' # "stopped" /\ dropped' = dropped + 1
              /\ done' + Len(batch') + Len(rest') <= taken'
          BY <1>n, <1>c, <2>2, <3>1
        <4>3. written' + dropped' + Len(queue') + taken' = Cardinality(given') + done' + twice'
          BY <2>1, <2>2, <4>1, <4>2, Balance, PutFigures
        <4> QED BY <4>2, <4>3 DEF CountInv
      <3> QED BY <2>2, <3>2, <3>3 DEF WriterInv
    <2> QED BY <2>3, <2>4
  <1>5. CASE Collect
    <2>1. /\ batch' = Chunk(queue) /\ queue' = Beyond(queue) /\ taken' = taken + Len(batch')
          /\ attempt' = 0 /\ loop' = "flush" /\ loop = "wait" /\ queue # <<>>
          /\ UNCHANGED <<stop, rest, db, written, dropped, given, done, twice>>
      BY <1>5 DEF Collect
    <2>2. /\ batch' \in Seq(Rows) /\ queue' \in Seq(Rows) /\ batch' # <<>>
          /\ Len(batch') \in Nat /\ Len(queue') \in Nat
          /\ Len(batch') + Len(queue') = Len(queue) /\ Len(queue') <= Len(queue)
      BY <1>2, <2>1, Cut
    <2>3. Len(batch) = 0 /\ done = 0 /\ stop = "no"
      BY <1>1, <1>2, <2>1 DEF ShapeInv, Salvaging
    <2>4. Types'
      BY <1>2, <2>1, <2>2, SizesAssumption DEF Types, LoopPlaces
    <2>5. ShapeInv'
      BY <1>2, <2>1, <2>2, <2>3 DEF ShapeInv, Salvaging
    <2>6. /\ Len(batch') \in Nat /\ Len(queue') \in Nat
          /\ Len(batch') + Len(queue') = Len(queue)
          /\ taken' = taken + Len(batch')
      BY <2>1, <2>2
    <2>7. CountInv'
      BY <1>n, <1>c, <2>1, <2>3, <2>6 DEF CountInv
    <2> QED BY <2>4, <2>5, <2>7 DEF WriterInv
  <1>6. CASE Write \/ Refuse \/ WriteFails
    BY <1>6, FlushInv
  <1>7. CASE Salvage
    BY <1>7, SalvageInv
  <1>8. CASE Break
    <2>1. /\ CutShort /\ (Flushing \/ Salvaging)
          /\ UNCHANGED <<queue, rest, taken, db, written, dropped, given>>
      BY <1>8 DEF Break
    <2>2. /\ loop' \in LoopPlaces /\ stop' \in StopPlaces /\ stop' # "stopped" /\ ShapeInv'
      BY <1>2, <1>8, <2>1
      DEF Break, CutShort, AfterFlush, ShapeInv, Flushing, Salvaging, Types, LoopPlaces, StopPlaces
    <2>3. db' \subseteq Rows
      BY <1>2, <2>1 DEF Types
    <2> QED BY <2>1, <2>2, <2>3, CutInv
  <1>9. CASE Stop
    <2>1. /\ UNCHANGED <<queue, batch, attempt, rest, taken, db, written, dropped, given, done, twice>>
          /\ loop' \in LoopPlaces /\ stop' \in StopPlaces /\ stop' # "stopped" /\ stop # "stopped"
          /\ ShapeInv'
      BY <1>2, <1>9 DEF Stop, ShapeInv, Salvaging, Types, LoopPlaces, StopPlaces
    <2>2. Types' /\ CountInv'
      BY <1>2, <2>1 DEF Types, CountInv
    <2> QED BY <2>1, <2>2 DEF WriterInv
  <1>10. CASE TakeRest
    <2>1. /\ rest' = queue /\ queue' = <<>> /\ taken' = taken + Len(queue) /\ stop' = "next"
          /\ stop = "rest"
          /\ UNCHANGED <<loop, batch, attempt, db, written, dropped, given, done, twice>>
      BY <1>10 DEF TakeRest
    <2>2. batch = <<>> /\ done = 0 /\ ShapeInv'
      BY <1>2, <2>1 DEF ShapeInv, Salvaging
    <2>3. Types'
      BY <1>1, <1>2, <1>n, <2>1, SizesAssumption DEF Types, StopPlaces
    <2>4. written + dropped + 0 + (taken + Len(queue)) = Cardinality(given) + done + twice
      BY <2>1, Balance, CutFigures
    <2>5. Len(batch) = 0 /\ done + 0 + Len(queue) <= taken + Len(queue)
      BY <1>1, <1>n, <2>2
    <2>6. /\ written' + dropped' + Len(queue') + taken' = Cardinality(given') + done' + twice'
          /\ done' + Len(batch') + Len(rest') <= taken'
      BY <1>1, <2>1, <2>4, <2>5
    <2>7. CountInv'
      BY <2>1, <2>6 DEF CountInv
    <2> QED BY <2>2, <2>3, <2>7 DEF WriterInv
  <1>11. CASE NextChunk
    <2>1. /\ stop = "next" /\ batch = <<>> /\ done = 0 /\ loop = "ended"
          /\ UNCHANGED <<queue, loop, attempt, taken, db, written, dropped, given, done, twice>>
      BY <1>2, <1>11 DEF NextChunk, ShapeInv, Salvaging
    <2>2. CASE rest = <<>>
      <3>1. stop' = "count" /\ UNCHANGED <<batch, rest>>
        BY <1>11, <2>2 DEF NextChunk
      <3>2. Types' /\ ShapeInv' /\ CountInv'
        BY <1>2, <2>1, <3>1 DEF Types, ShapeInv, CountInv, Salvaging, StopPlaces
      <3> QED BY <3>2 DEF WriterInv
    <2>3. CASE rest # <<>>
      <3>1. batch' = Chunk(rest) /\ rest' = Beyond(rest) /\ stop' = "flush"
        BY <1>11, <2>3 DEF NextChunk
      <3>2. /\ batch' \in Seq(Rows) /\ rest' \in Seq(Rows) /\ batch' # <<>>
            /\ Len(batch') \in Nat /\ Len(rest') \in Nat
            /\ Len(batch') + Len(rest') = Len(rest)
        BY <1>2, <2>3, <3>1, Cut
      <3>3. Types' /\ ShapeInv'
        BY <1>2, <2>1, <3>1, <3>2 DEF Types, ShapeInv, Salvaging, StopPlaces
      <3>4. done + Len(batch) + Len(rest) <= taken /\ Len(batch) = 0
        BY <1>1, <1>c, <2>1
      <3>5. done' + Len(batch') + Len(rest') <= taken'
        <4>1. Len(batch') \in Nat /\ Len(rest') \in Nat /\ Len(batch') + Len(rest') = Len(rest)
          BY <3>2
        <4> QED BY <1>n, <2>1, <3>4, <4>1
      <3>6. CountInv'
        BY <1>c, <2>1, <3>1, <3>5 DEF CountInv
      <3> QED BY <3>3, <3>6 DEF WriterInv
    <2> QED BY <2>2, <2>3
  <1>12. CASE CountLost
    <2>1. /\ stop = "count" /\ stop' = "stopped" /\ taken' = 0 /\ dropped' = dropped + Lost
          /\ UNCHANGED <<queue, loop, batch, attempt, rest, db, written, given, done, twice>>
      BY <1>12 DEF CountLost
    <2>2. Lost = Len(queue) + taken /\ dropped' \in Nat
      BY <1>n, <2>1 DEF Lost
    <2>3. batch = <<>> /\ done = 0 /\ ShapeInv'
      BY <1>2, <2>1 DEF ShapeInv, Salvaging
    <2>4. Types'
      BY <1>2, <2>1, <2>2 DEF Types, StopPlaces
    <2>5. written + (dropped + (Len(queue) + taken)) = Cardinality(given) + (twice + done)
      BY <2>1, Balance, CutFigures
    <2>6. CountInv'
      BY <1>n, <2>1, <2>2, <2>3, <2>5 DEF CountInv
    <2> QED BY <2>3, <2>4, <2>6 DEF WriterInv
  <1>13. CASE Timeout
    <2>1. /\ CutShort /\ UNCHANGED <<queue, rest, taken, written, dropped, given>>
      BY <1>13 DEF Timeout
    <2>2. /\ Flushing \/ Salvaging
          /\ loop' \in LoopPlaces /\ stop' \in StopPlaces /\ stop' # "stopped" /\ ShapeInv'
      BY <1>2, <1>13, <2>1
      DEF Timeout, CutShort, ShapeInv, Flushing, Salvaging, Types, LoopPlaces, StopPlaces
    <2>3. db' \subseteq Rows
      <3>1. batch # <<>>
        BY <1>2, <2>2 DEF ShapeInv, Flushing, Salvaging
      <3>2. Head(batch) \in Rows /\ ToSet(batch) \subseteq Rows
        BY <1>2, <3>1, HeadTailProperties, SetOfRows
      <3> QED BY <1>2, <1>13, <3>2 DEF Timeout, Types
    <2> QED BY <2>1, <2>2, <2>3, CutInv
  <1>14. CASE UNCHANGED vars
    BY <1>2, <1>14 DEF vars, WriterInv, Types, ShapeInv, CountInv, Salvaging
  <1> QED BY <1>4, <1>5, <1>6, <1>7, <1>8, <1>9, <1>10, <1>11, <1>12, <1>13, <1>14 DEF Next, Flush

\* The figures and the places are what they are in every state.
THEOREM WriterCorrect == Spec => []WriterInv
  BY InitInv, StepInv, PTL DEF Spec

\* A step leaves the flag of the time limit a Boolean and the faults as they were.
LEMMA TimedType ==
  ASSUME timed \in BOOLEAN, [Next]_vars
  PROVE  timed' \in BOOLEAN /\ weather' = weather
  BY Zenon DEF Next, vars, Put, Collect, Flush, Write, Refuse, WriteFails, Salvage, Break,
         Stop, TakeRest, NextChunk, CountLost, Timeout

\* For any rows, sizes and faults every variable of the writer has its type; in
\* particular the queue keeps its bound and _taken never falls below zero.
THEOREM TypeCorrect == Spec => []TypeOK
  <1> DEFINE Rigid == timed \in BOOLEAN /\ weather \subseteq Faults
  <1>1. Init => Rigid
    BY DEF Init
  <1>2. Rigid /\ [Next]_vars => Rigid'
    BY TimedType
  <1>3. WriterInv /\ Rigid => TypeOK
    BY DEF WriterInv, Types, TypeOK
  <1> HIDE DEF Rigid
  <1> QED BY <1>1, <1>2, <1>3, WriterCorrect, PTL DEF Spec

\* For any rows, sizes and faults: when stop() returns, every row was counted,
\* as written or as dropped, and none but those of a salvage that was cut short
\* was counted twice.
THEOREM AccountedCorrect == Spec => []Accounted
  <1>1. WriterInv => Accounted
    BY DEF WriterInv, CountInv, Accounted
  <1> QED BY <1>1, WriterCorrect, PTL

-----------------------------------------------------------------------------
(* The counter of written rows and the table.  A batch that lands adds as  *)
(* many rows as it is long only because its rows differ from each other    *)
(* and from what is there: no row is queued twice.                         *)

\* No row is twice in s.
Distinct(s) == \A i, j \in 1..Len(s) : s[i] = s[j] => i = j

\* Rows are queued once, so every batch holds each of its rows once.
OnceInv ==
  /\ Distinct(queue) /\ Distinct(batch) /\ Distinct(rest)
  /\ \A i \in 1..Len(queue) : queue[i] \in given

\* A part of a sequence of different rows is a sequence of different rows.
LEMMA PartDistinct ==
  ASSUME NEW s \in Seq(Rows), Distinct(s), NEW m \in 1..Len(s) + 1, NEW n \in m - 1..Len(s)
  PROVE  /\ Distinct(SubSeq(s, m, n))
         /\ \A i \in 1..Len(SubSeq(s, m, n)) :
              \E j \in 1..Len(s) : SubSeq(s, m, n)[i] = s[j]
  <1>1. Len(s) \in Nat /\ m \in Nat /\ m >= 1 /\ n \in Nat /\ m <= n + 1 /\ n <= Len(s)
    OBVIOUS
  <1>2. \A i \in m..n : s[i] \in Rows
    BY <1>1
  <1>3. /\ Len(SubSeq(s, m, n)) = n - m + 1
        /\ \A i \in 1..n - m + 1 : SubSeq(s, m, n)[i] = s[m + i - 1]
    BY <1>1, <1>2, SubSeqProperties
  <1>4. \A i \in 1..n - m + 1 : m + i - 1 \in 1..Len(s)
    BY <1>1
  <1>5. ASSUME NEW i \in 1..n - m + 1, NEW j \in 1..n - m + 1, s[m + i - 1] = s[m + j - 1]
        PROVE  i = j
    <2>1. m + i - 1 = m + j - 1
      BY <1>4, <1>5 DEF Distinct
    <2> QED BY <1>1, <2>1
  <1>6. Distinct(SubSeq(s, m, n))
    BY <1>3, <1>5 DEF Distinct
  <1>7. \A i \in 1..Len(SubSeq(s, m, n)) : \E j \in 1..Len(s) : SubSeq(s, m, n)[i] = s[j]
    BY <1>3, <1>4
  <1> QED BY <1>6, <1>7

\* So are a batch cut off it and what stays.
LEMMA CutDistinct ==
  ASSUME NEW s \in Seq(Rows), Distinct(s)
  PROVE  /\ Distinct(Chunk(s)) /\ Distinct(Beyond(s))
         /\ \A i \in 1..Len(Beyond(s)) : \E j \in 1..Len(s) : Beyond(s)[i] = s[j]
  <1> DEFINE n == IF Len(s) <= MaxBatch THEN Len(s) ELSE MaxBatch
  <1>1. Len(s) \in Nat /\ n \in Nat /\ n <= Len(s) /\ 1 \in Nat
    BY SizesAssumption
  <1>2. 1 \in 1..Len(s) + 1 /\ n \in 1 - 1..Len(s) /\ n + 1 \in 1..Len(s) + 1
        /\ Len(s) \in (n + 1) - 1..Len(s)
    BY <1>1
  <1>3. Chunk(s) = SubSeq(s, 1, n)
    BY DEF Chunk
  <1>4. Len(Chunk(s)) = n
    <2>1. \A i \in 1..n : s[i] \in Rows
      BY <1>1
    <2> QED BY <1>1, <1>3, <2>1, SubSeqProperties
  <1>5. Beyond(s) = SubSeq(s, n + 1, Len(s))
    BY <1>4 DEF Beyond
  <1> HIDE DEF n
  <1>6. Distinct(SubSeq(s, 1, n))
    BY <1>2, PartDistinct
  <1>7. /\ Distinct(SubSeq(s, n + 1, Len(s)))
        /\ \A i \in 1..Len(SubSeq(s, n + 1, Len(s))) :
             \E j \in 1..Len(s) : SubSeq(s, n + 1, Len(s))[i] = s[j]
    BY <1>2, PartDistinct
  <1> QED BY <1>3, <1>5, <1>6, <1>7

\* The rows of a sequence of different rows are as many as it is long.
LEMMA CountDistinct ==
  ASSUME NEW s \in Seq(Rows), Distinct(s)
  PROVE  IsFiniteSet(ToSet(s)) /\ Cardinality(ToSet(s)) = Len(s)
  <1>1. Len(s) \in Nat /\ DOMAIN s = 1..Len(s) /\ s \in [1..Len(s) -> Rows]
    OBVIOUS
  <1>2. ToSet(s) = {s[i] : i \in 1..Len(s)}
    BY <1>1 DEF ToSet
  <1>3. s \in [1..Len(s) -> ToSet(s)]
    BY <1>1, <1>2
  <1>4. s \in Injection(1..Len(s), ToSet(s))
    BY <1>1, <1>3 DEF Injection, IsInjective, Distinct
  <1>5. s \in Surjection(1..Len(s), ToSet(s))
    BY <1>2, <1>3 DEF Surjection
  <1>6. ExistsBijection(1..Len(s), ToSet(s))
    BY <1>4, <1>5 DEF ExistsBijection, Bijection
  <1>7. Cardinality(ToSet(s)) = Len(s)
    BY <1>1, <1>6, FS_CountingElements
  <1>8. IsFiniteSet(ToSet(s))
    BY SetOfRows, RowsAssumption, FS_Subset
  <1> QED BY <1>7, <1>8

\* Different rows the table does not have are that many more rows of it.
LEMMA Landed ==
  ASSUME NEW s \in Seq(Rows), Distinct(s), ~Refuses(s), db \subseteq Rows
  PROVE  /\ Cardinality(db) \in Nat /\ Len(s) \in Nat
         /\ Cardinality(db \cup ToSet(s)) = Cardinality(db) + Len(s)
  <1>1. IsFiniteSet(db) /\ Cardinality(db) \in Nat
    BY RowsAssumption, FS_Subset, FS_CardinalityType
  <1>2. IsFiniteSet(ToSet(s)) /\ Cardinality(ToSet(s)) = Len(s)
    BY CountDistinct
  <1>3. db \cap ToSet(s) = {}
    BY DEF Refuses
  <1>4. Cardinality(db \cap ToSet(s)) = 0
    BY <1>3, FS_EmptySet
  <1>5. Cardinality(db \cup ToSet(s))
          = Cardinality(db) + Cardinality(ToSet(s)) - Cardinality(db \cap ToSet(s))
    BY <1>1, <1>2, FS_Union
  <1>6. Len(s) \in Nat
    OBVIOUS
  <1> QED BY <1>1, <1>2, <1>4, <1>5, <1>6

\* A failed write takes nothing out of the table.
LEMMA FailsGrows ==
  ASSUME NEW s, Fails(s)
  PROVE  db \subseteq db'
  BY DEF Fails

\* A table that keeps its rows has no fewer of them.
LEMMA Grown ==
  ASSUME db \subseteq db', db' \subseteq Rows
  PROVE  /\ Cardinality(db) \in Nat /\ Cardinality(db') \in Nat
         /\ Cardinality(db) <= Cardinality(db')
  <1>1. IsFiniteSet(db') /\ IsFiniteSet(db)
    BY RowsAssumption, FS_Subset
  <1> QED BY <1>1, FS_Subset, FS_CardinalityType

\* The empty sequence and a sequence without its head hold different rows.
LEMMA SmallDistinct ==
  ASSUME NEW s \in Seq(Rows), Distinct(s)
  PROVE  Distinct(<<>>) /\ (s # <<>> => Distinct(Tail(s)))
  <1>1. Distinct(<<>>)
    BY DEF Distinct
  <1>2. ASSUME s # <<>> PROVE Distinct(Tail(s))
    <2>1. Len(s) \in Nat /\ Len(s) > 0
      BY <1>2
    <2>2. Len(Tail(s)) = Len(s) - 1 /\ \A i \in 1..Len(Tail(s)) : Tail(s)[i] = s[i + 1]
      BY <1>2, HeadTailProperties
    <2>3. ASSUME NEW i \in 1..Len(Tail(s)), NEW j \in 1..Len(Tail(s)), Tail(s)[i] = Tail(s)[j]
          PROVE  i = j
      <3>1. i + 1 \in 1..Len(s) /\ j + 1 \in 1..Len(s) /\ s[i + 1] = s[j + 1]
        BY <2>1, <2>2, <2>3
      <3>2. i + 1 = j + 1
        BY <3>1 DEF Distinct
      <3> QED BY <3>2
    <2> QED BY <2>3 DEF Distinct
  <1> QED BY <1>1, <1>2

\* The queue holds no row twice at the start, and every step keeps it so: a row
\* is queued when it is new, and what is taken is off the queue.
LEMMA OnceStep ==
  ASSUME WriterInv, OnceInv, [Next]_vars
  PROVE  OnceInv'
  <1>1. /\ queue \in Seq(Rows) /\ batch \in Seq(Rows) /\ rest \in Seq(Rows)
        /\ Distinct(queue) /\ Distinct(batch) /\ Distinct(rest)
        /\ \A i \in 1..Len(queue) : queue[i] \in given
    BY DEF WriterInv, Types, OnceInv
  <1>2. Distinct(<<>>) /\ Len(<<>>) = 0
    BY <1>1, SmallDistinct
  <1>3. ASSUME NEW r \in Rows, Put(r) PROVE OnceInv'
    <2>1. given' = given \cup {r} /\ r \notin given /\ UNCHANGED <<batch, rest>>
      BY <1>3 DEF Put
    <2>2. CASE queue' = queue
      BY <1>1, <2>1, <2>2 DEF OnceInv, Distinct
    <2>3. CASE queue' = Append(queue, r)
      <3>1. /\ Len(queue) \in Nat /\ Len(queue') = Len(queue) + 1
            /\ \A i \in 1..Len(queue) : queue'[i] = queue[i]
            /\ queue'[Len(queue) + 1] = r
        BY <1>1, <2>3, AppendProperties
      <3>2. \A i \in 1..Len(queue') : i \in 1..Len(queue) \/ i = Len(queue) + 1
        BY <3>1
      <3>3. \A i \in 1..Len(queue) : queue'[i] \in given /\ queue'[i] # r
        BY <1>1, <2>1, <3>1
      <3>4. \A i \in 1..Len(queue') : queue'[i] \in given'
        BY <2>1, <3>1, <3>2, <3>3
      <3>5. ASSUME NEW i \in 1..Len(queue'), NEW j \in 1..Len(queue'), queue'[i] = queue'[j]
            PROVE  i = j
        <4>1. CASE i \in 1..Len(queue) /\ j \in 1..Len(queue)
          BY <1>1, <3>1, <3>5, <4>1 DEF Distinct
        <4>2. CASE i = Len(queue) + 1 \/ j = Len(queue) + 1
          BY <3>1, <3>2, <3>3, <3>5, <4>2
        <4> QED BY <3>2, <4>1, <4>2
      <3>6. Distinct(queue')
        BY <3>5 DEF Distinct
      <3>7. Distinct(batch') /\ Distinct(rest')
        BY <1>1, <2>1
      <3> QED BY <3>4, <3>6, <3>7 DEF OnceInv
    <2> QED BY <1>3, <2>2, <2>3 DEF Put
  <1>4. CASE Collect
    <2>1. batch' = Chunk(queue) /\ queue' = Beyond(queue) /\ UNCHANGED <<rest, given>>
      BY <1>4 DEF Collect
    <2>2. /\ Distinct(Chunk(queue)) /\ Distinct(Beyond(queue))
          /\ \A i \in 1..Len(Beyond(queue)) : \E j \in 1..Len(queue) : Beyond(queue)[i] = queue[j]
      BY <1>1, CutDistinct
    <2>3. Distinct(batch') /\ Distinct(queue') /\ Distinct(rest')
      BY <1>1, <2>1, <2>2
    <2>4. \A i \in 1..Len(queue') : queue'[i] \in given'
      BY <1>1, <2>1, <2>2
    <2> QED BY <2>3, <2>4 DEF OnceInv
  <1>5. CASE TakeRest
    <2>1. rest' = queue /\ queue' = <<>> /\ UNCHANGED <<batch, given>>
      BY <1>5 DEF TakeRest
    <2>2. Distinct(batch') /\ Distinct(queue') /\ Distinct(rest')
      BY <1>1, <1>2, <2>1
    <2>3. \A i \in 1..Len(queue') : queue'[i] \in given'
      BY <1>2, <2>1
    <2> QED BY <2>2, <2>3 DEF OnceInv
  <1>6. CASE NextChunk
    <2>1. UNCHANGED <<queue, given>>
      BY <1>6 DEF NextChunk
    <2>2. \/ batch' = batch /\ rest' = rest
          \/ batch' = Chunk(rest) /\ rest' = Beyond(rest)
      BY <1>6 DEF NextChunk
    <2>3. Distinct(Chunk(rest)) /\ Distinct(Beyond(rest))
      BY <1>1, CutDistinct
    <2>4. Distinct(batch') /\ Distinct(rest') /\ Distinct(queue')
      BY <1>1, <2>1, <2>2, <2>3
    <2>5. \A i \in 1..Len(queue') : queue'[i] \in given'
      BY <1>1, <2>1
    <2> QED BY <2>4, <2>5 DEF OnceInv
  <1>7. ASSUME UNCHANGED <<queue, rest, given>>,
               batch' = batch \/ batch' = <<>> \/ (Salvaging /\ batch' = Tail(batch))
        PROVE  OnceInv'
    <2>1. Salvaging => batch # <<>>
      BY DEF WriterInv, ShapeInv, Salvaging
    <2>2. Distinct(batch')
      BY <1>1, <1>2, <1>7, <2>1, SmallDistinct
    <2>3. Distinct(queue') /\ Distinct(rest') /\ \A i \in 1..Len(queue') : queue'[i] \in given'
      BY <1>1, <1>7
    <2> QED BY <2>2, <2>3 DEF OnceInv
  <1>8. CASE Flush \/ Stop \/ CountLost \/ Timeout \/ UNCHANGED vars
    <2>1. UNCHANGED <<queue, rest, given>>
      BY <1>8 DEF Flush, Write, Refuse, WriteFails, Salvage, Break, Stop, CountLost, Timeout, vars
    <2>2. batch' = batch \/ batch' = <<>> \/ (Salvaging /\ batch' = Tail(batch))
      BY <1>8 DEF Flush, Write, Refuse, WriteFails, Salvage, Break, Stop, CountLost, Timeout, vars,
                  Finish, CutShort
    <2> QED BY <1>7, <2>1, <2>2
  <1> QED BY <1>3, <1>4, <1>5, <1>6, <1>8 DEF Next

\* The counter moves by no more than the table grows.
LEMMA WrittenStep ==
  ASSUME WriterInv, WriterInv', OnceInv, WrittenTrue, [Next]_vars
  PROVE  WrittenTrue'
  <1>1. /\ batch \in Seq(Rows) /\ Distinct(batch) /\ written \in Nat
        /\ db \subseteq Rows /\ db' \subseteq Rows /\ written <= Cardinality(db)
    BY DEF WriterInv, Types, OnceInv, WrittenTrue
  <1>2. ASSUME written' = written, db \subseteq db' PROVE WrittenTrue'
    <2>1. Cardinality(db) \in Nat /\ Cardinality(db') \in Nat /\ Cardinality(db) <= Cardinality(db')
      BY <1>1, <1>2, Grown
    <2>2. written' <= Cardinality(db')
      BY <1>1, <1>2, <2>1
    <2> QED BY <2>2 DEF WrittenTrue
  <1>3. CASE Write
    <2>1. written' = written + Len(batch) /\ db' = db \cup ToSet(batch) /\ ~Refuses(batch)
      BY <1>3 DEF Write
    <2>2. /\ Cardinality(db) \in Nat /\ Len(batch) \in Nat
          /\ Cardinality(db \cup ToSet(batch)) = Cardinality(db) + Len(batch)
      BY <1>1, <2>1, Landed
    <2>3. Cardinality(db') = Cardinality(db) + Len(batch)
      BY <2>1, <2>2
    <2>4. written' <= Cardinality(db')
      BY <1>1, <2>1, <2>2, <2>3
    <2> QED BY <2>4 DEF WrittenTrue
  <1>4. CASE Salvage
    <2>1. CASE /\ ~Refuses(<<Head(batch)>>)
               /\ db' = db \cup {Head(batch)}
               /\ CountWritten
      <3>1. IsFiniteSet(db) /\ Cardinality(db) \in Nat
        BY <1>1, RowsAssumption, FS_Subset, FS_CardinalityType
      <3>2. Head(batch) \notin db
        <4>1. Head(batch) \in ToSet(<<Head(batch)>>)
          BY DEF ToSet
        <4> QED BY <2>1, <4>1 DEF Refuses
      <3>3. Cardinality(db') = Cardinality(db) + 1
        BY <2>1, <3>1, <3>2, FS_AddElement
      <3>4. written' = written + 1
        BY <2>1 DEF CountWritten
      <3>5. written' <= Cardinality(db')
        BY <1>1, <3>1, <3>3, <3>4
      <3> QED BY <3>5 DEF WrittenTrue
    <2>2. CASE /\ \/ Refuses(<<Head(batch)>>) /\ UNCHANGED db
                  \/ Fails(<<Head(batch)>>)
               /\ CountDropped
      <3>1. db \subseteq db'
        BY <2>2, FailsGrows
      <3>2. written' = written
        BY <2>2 DEF CountDropped
      <3> QED BY <1>2, <3>1, <3>2
    <2> QED BY <1>4, <2>1, <2>2 DEF Salvage
  <1>5. CASE WriteFails
    <2>1. written' = written /\ Fails(batch)
      BY <1>5 DEF WriteFails
    <2> QED BY <1>2, <2>1, FailsGrows
  <1>6. CASE \/ \E r \in Rows : Put(r)
             \/ Collect \/ Refuse \/ Break \/ Stop \/ TakeRest \/ NextChunk \/ CountLost
             \/ Timeout \/ UNCHANGED vars
    <2>1. written' = written /\ db \subseteq db'
      BY <1>6 DEF Put, Collect, Refuse, Break, Stop, TakeRest, NextChunk, CountLost, Timeout, vars
    <2> QED BY <1>2, <2>1
  <1> QED BY <1>3, <1>4, <1>5, <1>6 DEF Next, Flush

\* For any rows, sizes and faults the counter of written rows claims no row the
\* table does not have, also when a commit that landed was reported as failed
\* and its rows are tried again, one batch at a time or row by row.
THEOREM WrittenCorrect == Spec => []WrittenTrue
  <1>1. Init => OnceInv /\ WrittenTrue
    BY FS_EmptySet DEF Init, OnceInv, WrittenTrue, Distinct
  <1>2. WriterInv /\ WriterInv' /\ OnceInv /\ WrittenTrue /\ [Next]_vars
          => OnceInv' /\ WrittenTrue'
    BY OnceStep, WrittenStep
  <1> QED BY <1>1, <1>2, WriterCorrect, PTL DEF Spec
=============================================================================
