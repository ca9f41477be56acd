--------------------------- MODULE EventLog_proofs ---------------------------
(***************************************************************************)
(* The journal for any number of processes and any amount of room: what    *)
(* lies below the stored offset has been delivered, and delivery is in     *)
(* order, although the offset file is shared, emptied before it is filled, *)
(* and moved backwards by whoever is behind; up to the first flush that    *)
(* starts from the overlaid digits of two of them.                         *)
(***************************************************************************)
EXTENDS EventLog, TLAPS

\* Every readable event up to n has been delivered.
Delivered(n) == \A i \in 1..n : Parses(i) => i \in sent

(***************************************************************************)
(* The inductive invariant: besides the stored offset, the place each      *)
(* flush has come to bounds a delivered part of the journal, for it will   *)
(* be stored, or was read from the file.  Only an overlaid offset lies     *)
(* outside the journal.                                                    *)
(***************************************************************************)
FlushesDeliver == \A w \in Writers : at[w] <= len[w] /\ (~misled => Delivered(at[w]))

Fits == Len(journal) <= Room

Inside == ~garbled => offset <= Len(journal)

LogInv == LogTypeOK /\ Fits /\ Inside /\ NothingSkipped /\ InOrder /\ FlushesDeliver

-----------------------------------------------------------------------------
\* Appending leaves all that was there: no event changes its reading.
LEMMA AppendKeeps ==
  ASSUME LogTypeOK, NEW piece \in Piece, journal' = Append(journal, piece)
  PROVE  /\ journal' \in Seq(Piece) /\ Len(journal') = Len(journal) + 1
         /\ \A i \in 1..Len(journal) : Parses(i)' <=> Parses(i)
<1>1. /\ journal' \in Seq(Piece) /\ Len(journal') = Len(journal) + 1
      /\ \A i \in 1..Len(journal) : journal'[i] = journal[i]
  BY DEF LogTypeOK
<1>2. Len(journal) \in Nat
  BY DEF LogTypeOK
<1>3. QED
  BY <1>1, <1>2 DEF Parses

\* A step that appends, and delivers nothing, moves no offset and no flush,
\* keeps the invariant.
LEMMA AppendKeepsInv ==
  ASSUME LogInv, NEW piece \in Piece, Put(piece),
         UNCHANGED <<offset, len, at, sent, marks>>, LogTypeOK'
  PROVE  LogInv'
<1>1. /\ Len(journal) \in Nat /\ offset \in Nat /\ sent \subseteq 1..Len(journal)
      /\ ~garbled => offset <= Len(journal)
      /\ \A w \in Writers : at[w] \in 0..Len(journal)
  BY RoomAssumption DEF LogInv, LogTypeOK, Inside
<1>2. /\ \A i \in 1..Len(journal) : Parses(i)' <=> Parses(i)
      /\ Len(journal') = Len(journal) + 1
  BY AppendKeeps DEF LogInv, Put
<1>3. NothingSkipped'
  BY <1>1, <1>2 DEF LogInv, NothingSkipped, marks
<1>4. InOrder'
  BY <1>1, <1>2 DEF LogInv, InOrder, marks
<1>5. FlushesDeliver'
  BY <1>1, <1>2 DEF LogInv, FlushesDeliver, Delivered, marks
<1>6. Fits' /\ Inside'
  BY <1>1, <1>2, RoomAssumption DEF Put, Fits, Inside, marks
<1>7. QED
  BY <1>3, <1>4, <1>5, <1>6 DEF LogInv

LEMMA AppendIsTyped ==
  ASSUME LogTypeOK, NEW piece \in Piece, Put(piece), UNCHANGED <<offset, len, at, sent, marks>>,
         wpc' \in [Writers -> {"idle", "read", "seek", "scan", "truncate", "store"}]
  PROVE  LogTypeOK'
<1>1. Len(journal) \in Nat /\ Len(journal') = Len(journal) + 1 /\ journal' \in Seq(Piece)
  BY AppendKeeps DEF LogTypeOK, Put
<1>2. \A n \in 0..Len(journal) : n \in 0..Len(journal')
  BY <1>1
<1>3. \A n \in 1..Len(journal) : n \in 1..Len(journal')
  BY <1>1
<1>4. len \in [Writers -> 0..Len(journal')] /\ at \in [Writers -> 0..Len(journal')]
  BY <1>2 DEF LogTypeOK
<1>5. QED
  BY <1>1, <1>2, <1>3, <1>4 DEF LogTypeOK, marks

\* A flush that ends leaves the invariant alone: it starts again from nothing.
LEMMA ForgetKeepsInv ==
  ASSUME LogInv, NEW w \in Writers, Forget(w), UNCHANGED <<journal, offset, sent, marks>>
  PROVE  LogInv'
<1>1. Len(journal) \in Nat /\ 0 \in 0..Len(journal)
  BY DEF LogInv, LogTypeOK
<1>2. LogTypeOK'
  BY <1>1 DEF LogInv, LogTypeOK, Forget, marks
<1>3. \A v \in Writers : at'[v] \in {0, at[v]} /\ at'[v] <= len'[v]
  BY DEF LogInv, LogTypeOK, FlushesDeliver, Forget
<1>4. FlushesDeliver'
  BY <1>3 DEF LogInv, FlushesDeliver, Delivered, Parses, marks
<1>5. NothingSkipped' /\ InOrder' /\ Fits' /\ Inside'
  BY DEF LogInv, NothingSkipped, InOrder, Fits, Inside, Parses, marks
<1>6. QED
  BY <1>2, <1>4, <1>5 DEF LogInv

\* The next complete line closes the gap behind it: nothing between the place
\* the flush has come to and that line can be read.
LEMMA NextLineIsNext ==
  ASSUME LogInv, NEW w \in Writers, NEW n \in LineEnds(w), IsNextLine(w, n)
  PROVE  /\ n \in 1..Len(journal) /\ n <= len[w]
         /\ ~misled => \A i \in 1..(n - 1) : Parses(i) => i \in sent
<1>1. /\ Len(journal) \in Nat /\ len[w] \in 0..Len(journal) /\ at[w] \in 0..Len(journal)
      /\ ~misled => Delivered(at[w])
  BY DEF LogInv, LogTypeOK, FlushesDeliver
<1>2. n \in 1..Len(journal) /\ n <= len[w]
  BY <1>1 DEF LineEnds
<1>3. ASSUME ~misled, NEW i \in 1..(n - 1), Parses(i) PROVE i \in sent
  <2>1. CASE i <= at[w]
    BY <1>1, <1>2, <2>1, <1>3 DEF Delivered
  <2>2. CASE i > at[w]
    <3>1. i \in LineEnds(w)
      BY <1>1, <1>2, <1>3, <2>2 DEF LineEnds, Parses
    <3>2. QED
      BY <3>1, <1>2 DEF IsNextLine
  <2>3. QED
    BY <1>1, <1>2, <2>1, <2>2
<1>4. QED
  BY <1>2, <1>3

\* A delivery of the next line, whether or not the flush learns of it.
LEMMA DeliveryKeepsOrder ==
  ASSUME LogInv, NEW w \in Writers, NEW n \in LineEnds(w), IsNextLine(w, n), Parses(n),
         sent' = sent \cup {n}, UNCHANGED <<journal, misled>>
  PROVE  InOrder' /\ (~misled => Delivered(n)') /\ sent' \in SUBSET (1..Len(journal'))
<1>1. /\ n \in 1..Len(journal) /\ Len(journal) \in Nat
      /\ ~misled => \A i \in 1..(n - 1) : Parses(i) => i \in sent
  BY NextLineIsNext DEF LogInv, LogTypeOK
<1>2. ~misled => Delivered(n)'
  BY <1>1 DEF Delivered, Parses
<1>3. InOrder'
  BY <1>2 DEF LogInv, InOrder, Delivered, Parses
<1>4. QED
  BY <1>1, <1>2, <1>3 DEF LogInv, LogTypeOK

\* A flush that has gone past line n keeps the invariant.
LEMMA PastKeepsInv ==
  ASSUME LogInv, NEW w \in Writers, NEW n \in LineEnds(w), IsNextLine(w, n), Past(w, n),
         sent \subseteq sent', sent' \in SUBSET (1..Len(journal')), InOrder', ~misled => Delivered(n)'
  PROVE  LogInv'
<1>1. n \in 0..Len(journal) /\ n <= len[w]
  BY NextLineIsNext DEF LogInv, LogTypeOK
<1>2. LogTypeOK'
  BY <1>1 DEF LogInv, LogTypeOK, Past, Go, marks
<1>3. \A v \in Writers : at'[v] = IF v = w THEN n ELSE at[v]
  BY DEF LogInv, LogTypeOK, Past
<1>4. FlushesDeliver'
  BY <1>1, <1>3 DEF LogInv, FlushesDeliver, Delivered, Past, Parses, marks
<1>5. NothingSkipped' /\ Fits' /\ Inside'
  BY DEF LogInv, NothingSkipped, Fits, Inside, Past, Parses, marks
<1>6. QED
  BY <1>2, <1>4, <1>5 DEF LogInv

\* Reading and storing: a flush takes over the stored offset, or stores how far
\* it has come; both are delivered parts.
LEMMA ReadKeepsInv ==
  ASSUME LogInv, NEW w \in Writers, ReadJournal(w) \/ ReadOffset(w)
  PROVE  LogInv'
<1>1. /\ Len(journal) \in Nat /\ offset \in Nat
      /\ \A v \in Writers : at[v] \in 0..Len(journal) /\ len[v] \in 0..Len(journal)
      /\ \A v \in Writers : at[v] <= len[v] /\ (~misled => Delivered(at[v]))
  BY RoomAssumption DEF LogInv, LogTypeOK, FlushesDeliver
<1>2. UNCHANGED <<journal, offset, sent, garbled>> /\ misled' \in BOOLEAN /\ (misled => misled')
  BY DEF ReadJournal, ReadOffset, LogInv, LogTypeOK, marks
<1>3. LogTypeOK'
  <2>1. wpc' \in [Writers -> {"idle", "read", "seek", "scan", "truncate", "store"}]
    <3>1. wpc' = [wpc EXCEPT ![w] = "seek"] \/ wpc' = [wpc EXCEPT ![w] = "scan"]
      BY DEF ReadJournal, ReadOffset, Go
    <3>2. wpc \in [Writers -> {"idle", "read", "seek", "scan", "truncate", "store"}]
      BY DEF LogInv, LogTypeOK
    <3>3. QED
      BY <3>1, <3>2
  <2>2. len' \in [Writers -> 0..Len(journal)]
    <3>1. Len(journal) \in 0..Len(journal)
      BY <1>1
    <3>2. len' = len \/ len' = [len EXCEPT ![w] = Len(journal)]
      BY DEF ReadJournal, ReadOffset
    <3>3. len \in [Writers -> 0..Len(journal)]
      BY DEF LogInv, LogTypeOK
    <3>4. QED
      BY <3>1, <3>2, <3>3
  <2>3. at' \in [Writers -> 0..Len(journal)]
    <3>1. PICK n \in 0..Len(journal) : at' = at \/ at' = [at EXCEPT ![w] = n]
      <4>1. 0 \in 0..Len(journal)
        BY <1>1
      <4>2. \/ at' = at \/ at' = [at EXCEPT ![w] = 0]
            \/ offset <= Len(journal) /\ at' = [at EXCEPT ![w] = offset]
        BY <1>1 DEF ReadJournal, ReadOffset
      <4>3. QED
        BY <1>1, <4>1, <4>2
    <3>2. at \in [Writers -> 0..Len(journal)]
      BY DEF LogInv, LogTypeOK
    <3>3. QED
      BY <3>1, <3>2
  <2>4. QED
    BY <1>2, <2>1, <2>2, <2>3 DEF LogInv, LogTypeOK
<1>4. NothingSkipped' /\ InOrder' /\ Fits' /\ Inside'
  BY <1>2 DEF LogInv, NothingSkipped, InOrder, Fits, Inside, Parses
<1>5. \A n \in Nat : Delivered(n)' <=> Delivered(n)
  BY <1>2 DEF Delivered, Parses
<1>6. \A v \in Writers : at'[v] <= len'[v] /\ (~misled' => Delivered(at'[v]))
  <2>1. CASE ReadJournal(w)
    BY <1>1, <2>1 DEF LogInv, LogTypeOK, ReadJournal, marks
  <2>2. CASE ReadOffset(w)
    <3>1. Delivered(0) /\ ((~garbled /\ ~misled) => Delivered(offset))
      BY <1>1 DEF LogInv, NothingSkipped, Delivered
    <3>2. ~misled' => ~misled /\ (~garbled \/ ~(offset <= len[w]))
      BY <2>2 DEF ReadOffset
    <3>3. /\ len' = len
          /\ \A v \in Writers :
               at'[v] = IF v = w THEN IF offset > len[w] THEN 0 ELSE offset ELSE at[v]
      BY <2>2 DEF LogInv, LogTypeOK, ReadOffset
    <3>4. /\ at'[w] <= len[w]
          /\ at'[w] = 0 \/ (at'[w] = offset /\ offset <= len[w])
      BY <1>1, <3>3
    <3>5. ~misled' => Delivered(at'[w])
      BY <3>1, <3>2, <3>4
    <3>6. \A v \in Writers : v # w => at'[v] <= len'[v] /\ (~misled' => Delivered(at'[v]))
      BY <1>1, <3>2, <3>3
    <3>7. QED
      BY <3>3, <3>4, <3>5, <3>6
  <2>3. QED
    BY <2>1, <2>2
<1>7. \A v \in Writers : at'[v] \in Nat
  BY <1>3, <1>2, <1>1 DEF LogTypeOK
<1>8. FlushesDeliver'
  BY <1>5, <1>6, <1>7 DEF FlushesDeliver
<1>9. QED
  BY <1>3, <1>4, <1>8 DEF LogInv

LEMMA OffsetKeepsInv ==
  ASSUME LogInv, NEW w \in Writers, TruncateOffset(w) \/ StoreOffset(w)
  PROVE  LogInv'
<1>1. /\ offset' \in {0, at[w]} \/ (garbled' /\ offset' \in Overlaid(w))
      /\ garbled' \in BOOLEAN /\ UNCHANGED <<journal, len, at, sent, misled>>
  BY DEF TruncateOffset, StoreOffset
<1>2. /\ Len(journal) \in Nat /\ Len(journal) <= Room /\ at[w] \in 0..Len(journal)
      /\ ~misled => Delivered(at[w])
  BY DEF LogInv, LogTypeOK, FlushesDeliver, Fits
<1>3. LogTypeOK'
  <2>1. wpc' \in [Writers -> {"idle", "read", "seek", "scan", "truncate", "store"}]
    <3>1. wpc' = [wpc EXCEPT ![w] = "store"] \/ wpc' = [wpc EXCEPT ![w] = "scan"]
      BY DEF TruncateOffset, StoreOffset, Go
    <3>2. wpc \in [Writers -> {"idle", "read", "seek", "scan", "truncate", "store"}]
      BY DEF LogInv, LogTypeOK
    <3>3. QED
      BY <3>1, <3>2
  <2>2. offset' \in 0..(Room + 1)
    BY <1>1, <1>2, RoomAssumption DEF Overlaid
  <2>3. QED
    BY <1>1, <2>1, <2>2 DEF LogInv, LogTypeOK
<1>4. NothingSkipped'
  BY <1>1, <1>2 DEF NothingSkipped, Delivered, Parses
<1>5. InOrder' /\ FlushesDeliver' /\ Fits'
  BY <1>1 DEF LogInv, InOrder, FlushesDeliver, Fits, Delivered, Parses
<1>6. Inside'
  BY <1>1, <1>2 DEF Inside
<1>7. QED
  BY <1>3, <1>4, <1>5, <1>6 DEF LogInv

LEMMA PostKeepsInv ==
  ASSUME LogInv, NEW w \in Writers, SkipLine(w) \/ Post(w) \/ PostFails(w)
  PROVE  LogInv'
<1>1. CASE SkipLine(w)
  <2>1. PICK n \in LineEnds(w) : IsNextLine(w, n) /\ ~Parses(n) /\ Past(w, n)
    BY <1>1 DEF SkipLine
  <2>2. sent' = sent /\ journal' = journal /\ misled' = misled
    BY <1>1, <2>1 DEF SkipLine, Past, marks
  <2>3. InOrder' /\ sent' \in SUBSET (1..Len(journal'))
    BY <2>2 DEF LogInv, LogTypeOK, InOrder, Parses
  <2>4. ~misled => Delivered(n)'
    BY <2>1, <2>2, NextLineIsNext DEF Delivered, Parses
  <2>5. QED
    BY <2>1, <2>2, <2>3, <2>4, PastKeepsInv
<1>2. CASE Post(w)
  <2>1. PICK n \in LineEnds(w) : IsNextLine(w, n) /\ Parses(n) /\ Past(w, n) /\ sent' = sent \cup {n}
    BY <1>2 DEF Post
  <2>2. journal' = journal /\ misled' = misled
    BY <2>1 DEF Past, marks
  <2>3. InOrder' /\ (~misled => Delivered(n)') /\ sent' \in SUBSET (1..Len(journal'))
    BY <2>1, <2>2, DeliveryKeepsOrder
  <2>4. QED
    BY <2>1, <2>3, PastKeepsInv
<1>3. CASE PostFails(w)
  <2>1. PICK n \in LineEnds(w) :
          IsNextLine(w, n) /\ Parses(n) /\ (sent' = sent \cup {n} \/ UNCHANGED sent)
    BY <1>3 DEF PostFails
  <2>2. Forget(w) /\ UNCHANGED <<journal, offset, garbled, misled>>
    BY <1>3 DEF PostFails, marks
  <2>3. CASE UNCHANGED sent
    BY <2>2, <2>3, ForgetKeepsInv DEF marks
  <2>4. CASE sent' = sent \cup {n}
    <3>1. InOrder' /\ sent' \in SUBSET (1..Len(journal'))
      BY <2>1, <2>2, <2>4, DeliveryKeepsOrder
    <3>2. Len(journal) \in Nat /\ 0 \in 0..Len(journal)
      BY DEF LogInv, LogTypeOK
    <3>3. LogTypeOK'
      BY <2>2, <3>1, <3>2 DEF LogInv, LogTypeOK, Forget
    <3>4. \A v \in Writers : at'[v] \in {0, at[v]} /\ at'[v] <= len'[v]
      BY <2>2 DEF LogInv, LogTypeOK, FlushesDeliver, Forget
    <3>5. FlushesDeliver' /\ NothingSkipped' /\ Fits' /\ Inside'
      BY <2>2, <2>4, <3>4 DEF LogInv, FlushesDeliver, NothingSkipped, Fits, Inside, Delivered, Parses
    <3>6. QED
      BY <3>1, <3>3, <3>5 DEF LogInv
  <2>5. QED
    BY <2>1, <2>3, <2>4
<1>4. QED
  BY <1>1, <1>2, <1>3

LEMMA RecordKeepsInv ==
  ASSUME LogInv, NEW w \in Writers, Record(w) \/ AppendFails(w)
  PROVE  LogInv'
<1>0. UNCHANGED <<offset, len, at, sent, marks>>
      /\ wpc' \in [Writers -> {"idle", "read", "seek", "scan", "truncate", "store"}]
  BY DEF LogInv, LogTypeOK, Record, AppendFails, Go
<1>1. CASE \E piece \in Piece : Put(piece)
  BY <1>0, <1>1, AppendIsTyped, AppendKeepsInv DEF LogInv
<1>2. CASE UNCHANGED journal
  BY <1>0, <1>2 DEF LogInv, LogTypeOK, Fits, Inside, NothingSkipped, InOrder, FlushesDeliver,
     Delivered, Parses, marks
<1>3. QED
  BY <1>1, <1>2 DEF Record, AppendFails, Piece

LEMMA PowerCutKeepsInv ==
  ASSUME LogInv, PowerCut
  PROVE  LogInv'
<1>1. /\ Len(journal) \in Nat /\ UNCHANGED <<journal, sent, misled>>
      /\ UNCHANGED <<offset, garbled>> \/ (offset' = 0 /\ garbled' = FALSE)
      /\ \A w \in Writers : at'[w] = 0 /\ len'[w] = 0
  BY DEF LogInv, LogTypeOK, PowerCut
<1>2. LogTypeOK'
  <2>1. offset' \in 0..(Room + 1) /\ 0 \in 0..Len(journal)
    BY <1>1, RoomAssumption DEF LogInv, LogTypeOK
  <2>2. garbled' \in BOOLEAN /\ misled' \in BOOLEAN
    BY <1>1 DEF LogInv, LogTypeOK
  <2>3. /\ wpc' \in [Writers -> {"idle", "read", "seek", "scan", "truncate", "store"}]
        /\ len' \in [Writers -> 0..Len(journal)] /\ at' \in [Writers -> 0..Len(journal)]
    BY <2>1 DEF PowerCut
  <2>4. QED
    BY <1>1, <2>1, <2>2, <2>3 DEF LogInv, LogTypeOK
<1>3. NothingSkipped' /\ InOrder' /\ Fits' /\ Inside'
  BY <1>1 DEF LogInv, NothingSkipped, InOrder, Fits, Inside, Parses
<1>4. FlushesDeliver'
  BY <1>1 DEF FlushesDeliver, Delivered
<1>5. QED
  BY <1>2, <1>3, <1>4 DEF LogInv

LEMMA NothingBegun ==
  ASSUME \A w \in Writers : at[w] = 0 /\ len[w] = 0
  PROVE  FlushesDeliver
<1>1. Delivered(0)
  BY DEF Delivered
<1>2. ASSUME NEW w \in Writers PROVE at[w] <= len[w] /\ Delivered(at[w])
  <2>1. at[w] = 0 /\ len[w] = 0
    OBVIOUS
  <2>2. 0 <= 0
    OBVIOUS
  <2>3. QED
    BY <1>1, <2>1, <2>2, Zenon
<1>3. QED
  BY <1>2 DEF FlushesDeliver

LEMMA LogInvHolds == LogSpec => []LogInv
<1>1. LogInit => LogInv
  <2> SUFFICES ASSUME LogInit PROVE LogInv
    OBVIOUS
  <2>1. Len(journal) = 0 /\ journal \in Seq(Piece) /\ 0 \in 0..Len(journal) /\ 0 \in 0..(Room + 1)
    BY RoomAssumption DEF LogInit
  <2>2. LogTypeOK
    <3>1. /\ wpc \in [Writers -> {"idle", "read", "seek", "scan", "truncate", "store"}]
          /\ len \in [Writers -> 0..Len(journal)] /\ at \in [Writers -> 0..Len(journal)]
      BY <2>1 DEF LogInit
    <3>2. garbled \in BOOLEAN /\ misled \in BOOLEAN
      BY DEF LogInit
    <3>3. QED
      BY <2>1, <3>1, <3>2 DEF LogInit, LogTypeOK
  <2>3. Fits /\ Inside /\ NothingSkipped /\ InOrder
    BY <2>1, RoomAssumption DEF LogInit, Fits, Inside, NothingSkipped, InOrder
  <2>4. FlushesDeliver
    <3>1. \A w \in Writers : at[w] = 0 /\ len[w] = 0
      BY DEF LogInit
    <3>2. QED
      BY <3>1, NothingBegun
  <2>5. QED
    BY <2>2, <2>3, <2>4 DEF LogInv
<1>2. LogInv /\ [LogNext]_logvars => LogInv'
  <2> SUFFICES ASSUME LogInv, [LogNext]_logvars PROVE LogInv'
    OBVIOUS
  <2>1. ASSUME NEW w \in Writers, Record(w) \/ AppendFails(w) PROVE LogInv'
    BY <2>1, RecordKeepsInv
  <2>2. ASSUME NEW w \in Writers, Flush(w) PROVE LogInv'
    <3>1. CASE CaughtUp(w) \/ FlushFails(w)
      BY <3>1, ForgetKeepsInv DEF CaughtUp, FlushFails
    <3>2. QED
      BY <2>2, <3>1, ReadKeepsInv, OffsetKeepsInv, PostKeepsInv DEF Flush
  <2>3. ASSUME NEW w \in Writers, WriterDies(w) PROVE LogInv'
    BY <2>3, ForgetKeepsInv DEF WriterDies
  <2>4. CASE UNCHANGED logvars
    BY <2>4 DEF logvars, LogInv, LogTypeOK, Fits, Inside, NothingSkipped, InOrder, FlushesDeliver,
       Delivered, Parses
  <2>5. QED
    BY <2>1, <2>2, <2>3, <2>4, PowerCutKeepsInv DEF LogNext
<1>3. QED
  BY <1>1, <1>2, PTL DEF LogSpec

-----------------------------------------------------------------------------
\* The journal, the offset and every flush stay in their types: what a flush
\* has read and how far it has come never lie behind the end of the journal,
\* although the offset file may point there.
THEOREM LogTyping == LogSpec => []LogTypeOK
<1>1. LogInv => LogTypeOK
  BY DEF LogInv
<1>2. QED
  BY <1>1, LogInvHolds, PTL

\* No readable event below the stored offset is undelivered, for any number of
\* processes that share it, while the file holds one number and no flush has
\* started from the overlaid digits of two.
THEOREM NoEventIsSkipped == LogSpec => []NothingSkipped
<1>1. LogInv => NothingSkipped
  BY DEF LogInv
<1>2. QED
  BY <1>1, LogInvHolds, PTL

\* The server never has an event without the readable ones before it, until a
\* flush starts from overlaid digits.
THEOREM DeliveryIsInOrder == LogSpec => []InOrder
<1>1. LogInv => InOrder
  BY DEF LogInv
<1>2. QED
  BY <1>1, LogInvHolds, PTL

\* A record that comes to its end has delivered the whole backlog, if no flush
\* has started from overlaid digits.
THEOREM BacklogIsDelivered == LogSpec => BacklogGone
<1>1. LogInv /\ [LogNext]_logvars =>
        [\A w \in Writers : (CaughtUp(w) /\ ~misled) =>
           \A i \in 1..len[w] : Parses(i) => i \in sent]_logvars
  <2> SUFFICES ASSUME LogInv, NEW w \in Writers, CaughtUp(w), ~misled, NEW i \in 1..len[w], Parses(i)
               PROVE  i \in sent
    OBVIOUS
  <2>1. /\ at[w] \in Nat /\ len[w] \in Nat /\ Delivered(at[w])
    BY DEF LogInv, LogTypeOK, FlushesDeliver
  <2>2. CASE i <= at[w]
    BY <2>1, <2>2 DEF Delivered
  <2>3. CASE i > at[w]
    BY <2>1, <2>3 DEF CaughtUp, LineEnds, Parses
  <2>4. QED
    BY <2>1, <2>2, <2>3
<1>2. QED
  BY <1>1, LogInvHolds, PTL DEF LogSpec, BacklogGone

-----------------------------------------------------------------------------
\* How many steps the flush of w can still take, at most: three for each piece
\* of what it has read, and before it has read, of what there is room for.
FlushRank(w) ==
  CASE wpc[w] = "idle"     -> 0
    [] wpc[w] = "read"     -> 3 * Room + 3
    [] wpc[w] = "seek"     -> 3 * len[w] + 2
    [] wpc[w] = "truncate" -> 3 * (len[w] - at[w]) + 3
    [] wpc[w] = "store"    -> 3 * (len[w] - at[w]) + 2
    [] OTHER               -> 3 * (len[w] - at[w]) + 1

LEMMA FlushRankIsTyped ==
  ASSUME LogInv, NEW w \in Writers
  PROVE  FlushRank(w) \in 0..(3 * Room + 3)
<1>1. /\ len[w] \in Nat /\ at[w] \in Nat /\ at[w] <= len[w] /\ len[w] <= Room
  BY RoomAssumption DEF LogInv, LogTypeOK, FlushesDeliver, Fits
<1>2. QED
  BY <1>1, RoomAssumption DEF FlushRank

\* What a process does in its own flush brings it nearer to its end.
LEMMA FlushDescends ==
  ASSUME LogInv, NEW w \in Writers, Flush(w)
  PROVE  FlushRank(w)' < FlushRank(w)
<1>1. /\ len[w] \in Nat /\ at[w] \in Nat /\ at[w] <= len[w] /\ len[w] <= Room
      /\ Len(journal) \in Nat /\ Len(journal) <= Room /\ offset \in Nat
      /\ wpc \in [Writers -> {"idle", "read", "seek", "scan", "truncate", "store"}]
      /\ len \in [Writers -> 0..Len(journal)] /\ at \in [Writers -> 0..Len(journal)]
  BY RoomAssumption DEF LogInv, LogTypeOK, FlushesDeliver, Fits
<1>2. CASE ReadJournal(w)
  <2>1. wpc[w] = "read" /\ wpc'[w] = "seek" /\ len'[w] = Len(journal)
    BY <1>1, <1>2 DEF ReadJournal, Go
  <2>2. QED
    BY <1>1, <2>1, RoomAssumption DEF FlushRank
<1>3. CASE ReadOffset(w)
  <2>1. wpc[w] = "seek" /\ wpc'[w] = "scan" /\ len'[w] = len[w] /\ at'[w] \in Nat /\ at'[w] <= len[w]
    BY <1>1, <1>3 DEF ReadOffset, Go
  <2>2. QED
    BY <1>1, <2>1 DEF FlushRank
<1>4. CASE SkipLine(w) \/ Post(w)
  <2>1. PICK n \in LineEnds(w) : wpc[w] = "scan" /\ Past(w, n)
    BY <1>4 DEF SkipLine, Post
  <2>2. wpc'[w] = "truncate" /\ len'[w] = len[w] /\ at'[w] \in at[w] + 1 .. len[w]
    BY <1>1, <2>1 DEF Past, Go, LineEnds
  <2>3. QED
    BY <1>1, <2>1, <2>2 DEF FlushRank
<1>5. CASE TruncateOffset(w)
  <2>1. wpc[w] = "truncate" /\ wpc'[w] = "store" /\ len' = len /\ at' = at
    BY <1>1, <1>5 DEF TruncateOffset, Go
  <2>2. QED
    BY <1>1, <2>1 DEF FlushRank
<1>6. CASE StoreOffset(w)
  <2>1. wpc[w] = "store" /\ wpc'[w] = "scan" /\ len' = len /\ at' = at
    BY <1>1, <1>6 DEF StoreOffset, Go
  <2>2. QED
    BY <1>1, <2>1 DEF FlushRank
<1>7. CASE CaughtUp(w) \/ PostFails(w) \/ FlushFails(w)
  <2>1. wpc[w] \in {"scan", "read", "truncate", "store"} /\ wpc'[w] = "idle"
    BY <1>1, <1>7 DEF CaughtUp, PostFails, FlushFails, Forget
  <2>2. QED
    BY <1>1, <2>1, RoomAssumption DEF FlushRank
<1>8. QED
  BY <1>2, <1>3, <1>4, <1>5, <1>6, <1>7 DEF Flush

\* Nothing that happens to another process makes it longer.
LEMMA OthersDoNotProlong ==
  ASSUME LogInv, [LogNext]_logvars, NEW w \in Writers
  PROVE  Record(w) \/ Flush(w) \/ FlushRank(w)' <= FlushRank(w)
<1>0. FlushRank(w) \in Nat
  BY FlushRankIsTyped, RoomAssumption
<1>1. /\ wpc \in [Writers -> {"idle", "read", "seek", "scan", "truncate", "store"}]
      /\ len \in [Writers -> 0..Len(journal)] /\ at \in [Writers -> 0..Len(journal)]
  BY DEF LogInv, LogTypeOK
<1>2. CASE wpc'[w] = wpc[w] /\ len'[w] = len[w] /\ at'[w] = at[w]
  BY <1>0, <1>2 DEF FlushRank
<1>3. CASE wpc'[w] = "idle"
  <2>1. FlushRank(w)' = 0
    BY <1>3 DEF FlushRank
  <2>2. QED
    BY <1>0, <2>1
<1>4. ASSUME NEW v \in Writers, v # w, Record(v) \/ AppendFails(v) \/ Flush(v) \/ WriterDies(v)
      PROVE  wpc'[w] = wpc[w] /\ len'[w] = len[w] /\ at'[w] = at[w]
  <2>1. CASE Record(v) \/ AppendFails(v)
    BY <1>1, <1>4, <2>1 DEF Record, AppendFails, Go
  <2>2. CASE ReadJournal(v) \/ ReadOffset(v) \/ TruncateOffset(v) \/ StoreOffset(v)
    BY <1>1, <1>4, <2>2 DEF ReadJournal, ReadOffset, TruncateOffset, StoreOffset, Go
  <2>3. CASE SkipLine(v) \/ Post(v)
    BY <1>1, <1>4, <2>3 DEF SkipLine, Post, Past, Go
  <2>4. CASE CaughtUp(v) \/ PostFails(v) \/ FlushFails(v) \/ WriterDies(v)
    BY <1>1, <1>4, <2>4 DEF CaughtUp, PostFails, FlushFails, WriterDies, Forget
  <2>5. QED
    BY <1>4, <2>1, <2>2, <2>3, <2>4 DEF Flush
<1>5. CASE AppendFails(w)
  BY <1>2, <1>5 DEF AppendFails
<1>6. CASE WriterDies(w) \/ PowerCut
  BY <1>1, <1>3, <1>6 DEF WriterDies, Forget, PowerCut
<1>7. CASE UNCHANGED logvars
  BY <1>2, <1>7 DEF logvars
<1>8. QED
  BY <1>2, <1>4, <1>5, <1>6, <1>7 DEF LogNext

\* flush_unsent cannot go round: processes that move the shared offset back
\* and append behind each other's backs do not keep a flush going.  Each of
\* its steps brings it nearer to its end, and only a new record begins one.
THEOREM FlushesGoForward ==
  LogSpec => /\ [](\A w \in Writers : FlushRank(w) \in 0..(3 * Room + 3))
             /\ [][\A w \in Writers : /\ Flush(w) => FlushRank(w)' < FlushRank(w)
                                      /\ Record(w) \/ FlushRank(w)' <= FlushRank(w)]_logvars
<1>1. LogInv => \A w \in Writers : FlushRank(w) \in 0..(3 * Room + 3)
  BY FlushRankIsTyped
<1>2. LogInv' => (\A w \in Writers : FlushRank(w) \in 0..(3 * Room + 3))'
  BY <1>1, PTL
<1>3. LogInv /\ LogInv' /\ [LogNext]_logvars =>
        [\A w \in Writers : /\ Flush(w) => FlushRank(w)' < FlushRank(w)
                            /\ Record(w) \/ FlushRank(w)' <= FlushRank(w)]_logvars
  <2> SUFFICES ASSUME LogInv, LogInv', [LogNext]_logvars, NEW w \in Writers
               PROVE  /\ Flush(w) => FlushRank(w)' < FlushRank(w)
                      /\ Record(w) \/ FlushRank(w)' <= FlushRank(w)
    OBVIOUS
  <2>1. FlushRank(w) \in Nat
    BY FlushRankIsTyped, RoomAssumption
  <2>2. FlushRank(w)' \in Nat
    BY <1>2, RoomAssumption
  <2>3. QED
    BY <2>1, <2>2, FlushDescends, OthersDoNotProlong
<1>4. QED
  BY <1>1, <1>3, LogInvHolds, PTL DEF LogSpec
=============================================================================
