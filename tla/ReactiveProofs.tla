--------------------------- MODULE ReactiveProofs ---------------------------
(***************************************************************************)
(* Proofs about the reactive protocol: the reader of the frames stays in   *)
(* step however the bytes are cut into segments, the flow control of the   *)
(* requester accounts for every credit, and payloads arrive whole and in   *)
(* order.  For every number of frames, every size and every limit.         *)
(***************************************************************************)
EXTENDS MCReactive, FiniteSetTheorems, SequenceTheorems, TLAPS

-----------------------------------------------------------------------------
(* The units between the reader and the peer. *)

\* How many units the reader may still see: after the broker has closed,
\* those it has already.
Known == IF brokerSending THEN Len(data) + Len(line) ELSE Len(data)

\* The i-th of them.
Unit(i) == IF i <= Len(data) THEN data[i] ELSE line[i - Len(data)]

SizeOf(n) == R!Size(sent[n])

\* How many frames were read so far.
Read == Len(handled) + Cardinality(skipped)

ReaderTypes ==
  /\ sent \in Seq(Frames) /\ line \in Seq(Nat \X Nat) /\ data \in Seq(Nat \X Nat)
  /\ readerIndex \in Nat /\ handling \in BOOLEAN /\ brokerSending \in BOOLEAN
  /\ handled \in Seq(Nat) /\ IsFiniteSet(skipped)

\* Every unit is one of a frame that was sent.
UnitsSent ==
  \A i \in 1 .. Known : Unit(i)[1] \in 1 .. Len(sent) /\ Unit(i)[2] \in 1 .. SizeOf(Unit(i)[1])

\* A unit is followed by the rest of its frame and that by the next frame.
UnitsFollow ==
  \A i, j \in 1 .. Known :
    i < j => /\ j - i <= SizeOf(Unit(i)[1]) - Unit(i)[2] =>
                  Unit(j) = <<Unit(i)[1], Unit(i)[2] + (j - i)>>
             /\ j - i = SizeOf(Unit(i)[1]) - Unit(i)[2] + 1 => Unit(j) = <<Unit(i)[1] + 1, 1>>

\* The last unit ends the last frame.
UnitsEnd ==
  brokerSending /\ Known > 0 => Unit(Known) = <<Len(sent), SizeOf(Len(sent))>>

\* The reader is at the start of the first frame not yet read.
AtStart ==
  /\ readerIndex <= Len(data)
  /\ readerIndex < Known => Unit(readerIndex + 1) = <<Read + 1, 1>>
  /\ brokerSending /\ readerIndex >= Known => Read = Len(sent)

InStep == UnitsSent /\ UnitsFollow /\ UnitsEnd /\ AtStart /\ R!NoneLeft

SyncInv == ReaderTypes /\ R!HandledInOrder /\ (cause = "none" => InStep)

-----------------------------------------------------------------------------
(* Units. *)

LEMMA FrameSize ==
  ASSUME ReaderTypes, NEW n \in 1 .. Len(sent)
  PROVE  /\ sent[n] \in Frames /\ sent[n].body \in Nat
         /\ SizeOf(n) \in Nat /\ SizeOf(n) = 3 + sent[n].body
<1>1. sent[n] \in Frames
  BY DEF ReaderTypes
<1>2. sent[n].body \in Nat
  BY <1>1, FramesAssumption
<1>3. QED
  BY <1>1, <1>2 DEF SizeOf, R!Size, R!HeaderSize

LEMMA UnitTypes ==
  ASSUME ReaderTypes
  PROVE  /\ Known \in Nat /\ Len(data) \in Nat /\ Len(line) \in Nat /\ Len(data) <= Known
         /\ \A i \in 1 .. Known : Unit(i) \in Nat \X Nat
<1>1. /\ Known \in Nat /\ Len(data) \in Nat /\ Len(line) \in Nat /\ Len(data) <= Known
  BY DEF ReaderTypes, Known
<1>2. ASSUME NEW i \in 1 .. Known
      PROVE  Unit(i) \in Nat \X Nat
  <2>1. CASE i <= Len(data)
    BY <1>1, <2>1 DEF ReaderTypes, Unit
  <2>2. CASE ~(i <= Len(data))
    <3>1. i - Len(data) \in 1 .. Len(line)
      BY <1>1, <2>2 DEF ReaderTypes, Known
    <3>2. QED
      BY <2>2, <3>1 DEF ReaderTypes, Unit
  <2>3. QED
    BY <2>1, <2>2
<1>3. QED
  BY <1>1, <1>2

\* Units that leave at the front leave the others in their order.
LEMMA UnitsShift ==
  ASSUME ReaderTypes, UnitsSent, UnitsFollow, NEW d \in Nat,
         sent' = sent, Known' \in Nat, Known' + d <= Known,
         \A i \in 1 .. Known' : Unit(i)' = Unit(i + d)
  PROVE  UnitsSent' /\ UnitsFollow'
<1>1. Known \in Nat
  BY UnitTypes
<1>2. \A n : SizeOf(n)' = SizeOf(n)
  BY DEF SizeOf, R!Size
<1>3. ASSUME NEW i \in 1 .. Known'
      PROVE  i + d \in 1 .. Known
  <2>1. PICK k \in Nat, m \in Nat : k = Known /\ m = Known'
    BY <1>1
  <2>2. i \in 1 .. m /\ m + d <= k
    BY <2>1
  <2>3. i + d \in 1 .. k
    BY <2>2
  <2>4. QED
    BY <2>1, <2>3
<1>4. UnitsSent'
  BY <1>2, <1>3 DEF UnitsSent
<1>5. ASSUME NEW i \in 1 .. Known', NEW j \in 1 .. Known', i < j
      PROVE  /\ j - i <= SizeOf(Unit(i)[1])' - Unit(i)[2]' =>
                   Unit(j)' = <<Unit(i)[1]', Unit(i)[2]' + (j - i)>>
             /\ j - i = SizeOf(Unit(i)[1])' - Unit(i)[2]' + 1 => Unit(j)' = <<Unit(i)[1]' + 1, 1>>
  <2>1. i + d \in 1 .. Known /\ j + d \in 1 .. Known /\ i + d < j + d /\ (j + d) - (i + d) = j - i
    BY <1>3, <1>5
  <2>2. PICK u : u = Unit(i + d)
    OBVIOUS
  <2>3. /\ (j + d) - (i + d) <= SizeOf(u[1]) - u[2] => Unit(j + d) = <<u[1], u[2] + ((j + d) - (i + d))>>
        /\ (j + d) - (i + d) = SizeOf(u[1]) - u[2] + 1 => Unit(j + d) = <<u[1] + 1, 1>>
    BY <2>1, <2>2, Zenon DEF UnitsFollow
  <2>4. Unit(i)' = u /\ Unit(j)' = Unit(j + d) /\ SizeOf(u[1])' = SizeOf(u[1])
    BY <1>2, <1>5, <2>2
  <2>5. QED
    BY <2>1, <2>3, <2>4
<1>6. UnitsFollow'
  BY <1>5, Zenon DEF UnitsFollow
<1>7. QED
  BY <1>4, <1>6

\* The peer writes one more frame behind the others.
LEMMA UnitsGrow ==
  ASSUME ReaderTypes, UnitsSent, UnitsFollow, UnitsEnd, brokerSending, brokerSending',
         NEW L \in Nat, L = Known, NEW N \in Nat, N = Len(sent), NEW s \in Nat, s >= 1,
         Known' = L + s, Len(sent)' = N + 1,
         \A i \in 1 .. L : Unit(i)' = Unit(i),
         \A k \in 1 .. s : Unit(L + k)' = <<N + 1, k>>,
         \A n \in 1 .. N : SizeOf(n)' = SizeOf(n),
         SizeOf(N + 1)' = s
  PROVE  UnitsSent' /\ UnitsFollow' /\ UnitsEnd'
<1>1. \A i \in 1 .. L : Unit(i) \in Nat \X Nat /\ Unit(i)[1] \in 1 .. N /\ Unit(i)[2] \in 1 .. SizeOf(Unit(i)[1])
  BY UnitTypes, Zenon DEF UnitsSent
<1>2. \A n \in 1 .. N : SizeOf(n) \in Nat
  BY FrameSize
<1>3. ASSUME NEW i \in 1 .. L + s, i > L
      PROVE  /\ i - L \in 1 .. s
             /\ Unit(i)' = <<N + 1, i - L>>
  <2>1. i - L \in 1 .. s /\ L + (i - L) = i
    BY <1>3
  <2>2. Unit(L + (i - L))' = <<N + 1, i - L>>
    BY <2>1, Zenon
  <2>3. QED
    BY <2>1, <2>2
<1>4. ASSUME NEW i \in 1 .. L + s
      PROVE  Unit(i)[1]' \in 1 .. N + 1 /\ Unit(i)[2]' \in 1 .. SizeOf(Unit(i)[1])'
  <2>1. CASE i <= L
    BY <1>1, <2>1
  <2>2. CASE i > L
    BY <1>3, <2>2
  <2>3. QED
    BY <2>1, <2>2
<1>5. UnitsSent'
  BY <1>4, Zenon DEF UnitsSent
<1>6. ASSUME NEW i \in 1 .. L + s, NEW j \in 1 .. L + s, i < j
      PROVE  /\ j - i <= SizeOf(Unit(i)[1])' - Unit(i)[2]' =>
                   Unit(j)' = <<Unit(i)[1]', Unit(i)[2]' + (j - i)>>
             /\ j - i = SizeOf(Unit(i)[1])' - Unit(i)[2]' + 1 => Unit(j)' = <<Unit(i)[1]' + 1, 1>>
  <2>1. CASE i > L
    <3>1. /\ Unit(i)' = <<N + 1, i - L>> /\ Unit(j)' = <<N + 1, j - L>> /\ i - L \in 1 .. s /\ j - L \in 1 .. s
      BY <1>3, <1>6, <2>1
    <3>2. j - L = (i - L) + (j - i) /\ ~(j - i = s - (i - L) + 1)
      BY <1>6, <3>1
    <3>3. QED
      BY <3>1, <3>2
  <2>2. CASE i <= L
    <3>1. PICK n \in 1 .. N, a \in Nat : Unit(i) = <<n, a>> /\ a \in 1 .. SizeOf(n)
      <4>1. i \in 1 .. L
        BY <2>2
      <4>2. PICK u \in Nat \X Nat : u = Unit(i) /\ u[1] \in 1 .. N /\ u[2] \in 1 .. SizeOf(u[1])
        BY <1>1, <4>1
      <4>3. u = <<u[1], u[2]>> /\ u[2] \in Nat
        BY <4>2
      <4>4. QED
        BY <4>2, <4>3
    <3>2. PICK z \in Nat : z = SizeOf(n) /\ a <= z
      BY <1>2, <3>1
    <3>3. Unit(i)' = <<n, a>> /\ SizeOf(n)' = z
      BY <2>2, <3>1, <3>2
    <3>4. SUFFICES /\ j - i <= z - a => Unit(j)' = <<n, a + (j - i)>>
                   /\ j - i = z - a + 1 => Unit(j)' = <<n + 1, 1>>
      BY <3>3
    <3>5. ASSUME NEW h \in 1 .. L, i < h
          PROVE  /\ h - i <= z - a => Unit(h) = <<n, a + (h - i)>>
                 /\ h - i = z - a + 1 => Unit(h) = <<n + 1, 1>>
      <4>1. i \in 1 .. Known /\ h \in 1 .. Known
        BY <2>2
      <4>2. /\ h - i <= SizeOf(Unit(i)[1]) - Unit(i)[2] => Unit(h) = <<Unit(i)[1], Unit(i)[2] + (h - i)>>
            /\ h - i = SizeOf(Unit(i)[1]) - Unit(i)[2] + 1 => Unit(h) = <<Unit(i)[1] + 1, 1>>
        BY <3>5, <4>1, Zenon DEF UnitsFollow
      <4>3. QED
        BY <3>1, <3>2, <4>2
    <3>6. CASE j <= L
      <4>1. Unit(j)' = Unit(j)
        BY <3>6
      <4>2. QED
        BY <1>6, <3>5, <3>6, <4>1
    <3>7. CASE j > L
      <4>1. Unit(L) = <<N, SizeOf(N)>> /\ L > 0 /\ N \in 1 .. N
        BY <2>2, <3>1 DEF UnitsEnd
      <4>2. CASE i = L
        <5>1. n = N /\ a = z
          BY <3>1, <3>2, <4>1, <4>2
        <5>2. ~(j - i <= z - a)
          BY <1>6, <5>1
        <5>3. j - i = z - a + 1 => j = L + 1
          BY <4>2, <5>1
        <5>4. j = L + 1 => Unit(j)' = <<n + 1, 1>>
          BY <1>3, <3>7, <5>1
        <5>5. QED
          BY <5>2, <5>3, <5>4
      <4>3. CASE i < L /\ L - i <= z - a
        <5>1. Unit(L) = <<n, a + (L - i)>>
          BY <3>5, <4>1, <4>3
        <5>2. n = N /\ a + (L - i) = z
          BY <3>2, <4>1, <5>1
        <5>3. ~(j - i <= z - a)
          BY <3>7, <5>2
        <5>4. j - i = z - a + 1 => j = L + 1
          BY <5>2
        <5>5. j = L + 1 => Unit(j)' = <<n + 1, 1>>
          BY <1>3, <3>7, <5>2
        <5>6. QED
          BY <5>3, <5>4, <5>5
      <4>4. CASE i < L /\ ~(L - i <= z - a)
        <5>1. ~(j - i <= z - a) /\ ~(j - i = z - a + 1)
          BY <3>7, <4>4
        <5>2. QED
          BY <5>1
      <4>5. QED
        BY <2>2, <4>2, <4>3, <4>4
    <3>8. QED
      BY <3>6, <3>7
  <2>3. QED
    BY <2>1, <2>2
<1>7. UnitsFollow'
  BY <1>6, Zenon DEF UnitsFollow
<1>8. UnitsEnd'
  <2>1. L + s \in 1 .. L + s /\ L + s > L /\ (L + s) - L = s
    OBVIOUS
  <2>2. Unit(L + s)' = <<N + 1, s>>
    BY <1>3, <2>1
  <2>3. Unit(Known)' = Unit(L + s)' /\ SizeOf(Len(sent))' = SizeOf(N + 1)'
    BY Zenon
  <2>4. QED
    BY <2>2, <2>3 DEF UnitsEnd
<1>9. QED
  BY <1>5, <1>7, <1>8

-----------------------------------------------------------------------------
(* Frames. *)

LEMMA CardinalityR ==
  ASSUME NEW S
  PROVE  R!Cardinality(S) = Cardinality(S)
  BY DEF R!Cardinality, Cardinality

LEMMA ReadType ==
  ASSUME ReaderTypes
  PROVE  Read \in Nat
<1>1. Cardinality(skipped) \in Nat
  BY FS_CardinalityType DEF ReaderTypes
<1>2. QED
  BY <1>1 DEF ReaderTypes, Read

LEMMA OrderMeans ==
  R!HandledInOrder <=> /\ \A i, j \in DOMAIN handled : i < j => handled[i] < handled[j]
                       /\ {handled[i] : i \in DOMAIN handled} \cup skipped = 1 .. Read
  BY CardinalityR DEF R!HandledInOrder, Read

\* The next frame is handed over.
LEMMA HandOver ==
  ASSUME ReaderTypes, R!HandledInOrder, NEW n \in Nat, n = Read + 1,
         handled' = Append(handled, n), skipped' = skipped
  PROVE  R!HandledInOrder' /\ Read' = n /\ handled' \in Seq(Nat)
<1>1. Read \in Nat
  BY ReadType
<1>2. Cardinality(skipped) \in Nat
  BY FS_CardinalityType DEF ReaderTypes
<1>3. PICK l \in Nat : l = Len(handled) /\ handled \in Seq(Nat) /\ DOMAIN handled = 1 .. l
  BY DEF ReaderTypes
<1>4. /\ handled' \in Seq(Nat) /\ Len(handled') = l + 1 /\ DOMAIN handled' = 1 .. l + 1
      /\ \A i \in 1 .. l : handled'[i] = handled[i]
      /\ handled'[l + 1] = n
  BY <1>3
<1>5. Read' = n
  BY <1>2, <1>3, <1>4 DEF Read
<1>6. \A i \in 1 .. l : handled[i] \in 1 .. Read
  BY <1>3, OrderMeans
<1>7. ASSUME NEW i \in 1 .. l + 1, NEW j \in 1 .. l + 1, i < j
      PROVE  handled'[i] < handled'[j]
  <2>1. i \in 1 .. l
    BY <1>7
  <2>2. CASE j = l + 1
    BY <1>1, <1>4, <1>6, <2>1, <2>2
  <2>3. CASE j \in 1 .. l
    BY <1>3, <1>4, <1>7, <2>1, <2>3, OrderMeans
  <2>4. j = l + 1 \/ j \in 1 .. l
    OBVIOUS
  <2>5. QED
    BY <2>2, <2>3, <2>4
<1>8. {handled'[i] : i \in DOMAIN handled'} = {handled[i] : i \in DOMAIN handled} \cup {n}
  BY <1>3, <1>4
<1>9. 1 .. n = (1 .. Read) \cup {n}
  BY <1>1
<1>10. {handled'[i] : i \in DOMAIN handled'} \cup skipped' = 1 .. n
  BY <1>8, <1>9, OrderMeans
<1>11. R!HandledInOrder'
  BY <1>4, <1>5, <1>7, <1>10, CardinalityR DEF R!HandledInOrder, Read
<1>12. QED
  BY <1>4, <1>5, <1>11

\* The next frame is skipped.
LEMMA SkipOver ==
  ASSUME ReaderTypes, R!HandledInOrder, NEW n \in Nat, n = Read + 1,
         handled' = handled, skipped' = skipped \cup {n}
  PROVE  R!HandledInOrder' /\ Read' = n /\ IsFiniteSet(skipped')
<1>1. Read \in Nat
  BY ReadType
<1>2. skipped \subseteq 1 .. Read
  BY OrderMeans
<1>3. n \notin skipped
  BY <1>1, <1>2
<1>4. IsFiniteSet(skipped') /\ Cardinality(skipped') = Cardinality(skipped) + 1
  BY <1>3, FS_AddElement DEF ReaderTypes
<1>5. Cardinality(skipped) \in Nat /\ Len(handled) \in Nat
  BY FS_CardinalityType DEF ReaderTypes
<1>6. Read' = n
  BY <1>4, <1>5 DEF Read
<1>7. 1 .. n = (1 .. Read) \cup {n}
  BY <1>1
<1>8. {handled[i] : i \in DOMAIN handled} \cup skipped' = 1 .. n
  BY <1>7, OrderMeans
<1>9. \A i, j \in DOMAIN handled : i < j => handled[i] < handled[j]
  BY OrderMeans
<1>10. R!HandledInOrder'
  BY <1>6, <1>8, <1>9, CardinalityR DEF R!HandledInOrder, Read
<1>11. QED
  BY <1>4, <1>6, <1>10

\* No frame is read.
LEMMA ReadNone ==
  ASSUME R!HandledInOrder, UNCHANGED <<handled, skipped>>
  PROVE  R!HandledInOrder' /\ Read' = Read
  BY DEF R!HandledInOrder, Read

\* The frame the loop is at.
LEMMA CurrentIs ==
  ASSUME ReaderTypes, UnitsSent, AtStart, readerIndex < Len(data)
  PROVE  /\ R!Current = Read + 1 /\ Read + 1 \in 1 .. Len(sent)
         /\ readerIndex + 1 \in 1 .. Known /\ Unit(readerIndex + 1) = <<Read + 1, 1>>
         /\ data[readerIndex + 1] = <<Read + 1, 1>>
<1>1. readerIndex \in Nat /\ Known \in Nat /\ Len(data) \in Nat /\ Len(data) <= Known
  BY UnitTypes DEF ReaderTypes
<1>2. readerIndex + 1 \in 1 .. Known /\ readerIndex < Known /\ readerIndex + 1 <= Len(data)
  BY <1>1
<1>3. Unit(readerIndex + 1) = <<Read + 1, 1>>
  BY <1>2 DEF AtStart
<1>4. data[readerIndex + 1] = <<Read + 1, 1>>
  BY <1>2, <1>3 DEF Unit
<1>5. Unit(readerIndex + 1)[1] \in 1 .. Len(sent)
  BY <1>2 DEF UnitsSent
<1>6. QED
  BY <1>2, <1>3, <1>4, <1>5 DEF R!Current

\* Behind a whole frame there is the next one, or nothing was sent after it.
LEMMA ReadOn ==
  ASSUME ReaderTypes, UnitsSent, UnitsFollow, UnitsEnd, AtStart, brokerSending,
         readerIndex < Len(data), NEW c \in Nat, c = SizeOf(Read + 1), readerIndex + c <= Len(data)
  PROVE  /\ readerIndex + c < Known => Unit(readerIndex + c + 1) = <<Read + 2, 1>>
         /\ readerIndex + c >= Known => Read + 1 = Len(sent)
<1>1. /\ Read + 1 \in 1 .. Len(sent) /\ readerIndex + 1 \in 1 .. Known
      /\ Unit(readerIndex + 1) = <<Read + 1, 1>>
  BY CurrentIs
<1>2. c >= 3
  BY <1>1, FrameSize
<1>3. PICK r \in Nat, k \in Nat, n \in Nat :
        r = readerIndex /\ k = Known /\ n = Read /\ Len(data) <= k /\ r + c <= k
  <2>1. PICK k, n, l : k = Known /\ n = Read /\ l = Len(data)
    BY Zenon
  <2>2. k \in Nat /\ n \in Nat /\ l \in Nat /\ l <= k
    BY <2>1, UnitTypes, ReadType
  <2>3. readerIndex \in Nat /\ readerIndex + c <= l
    BY <2>1 DEF ReaderTypes
  <2>4. readerIndex + c <= k
    BY <2>2, <2>3
  <2>5. QED
    BY <2>1, <2>2, <2>3, <2>4
<1>4. Unit(r + 1) = <<n + 1, 1>> /\ r + 1 \in 1 .. k /\ c = SizeOf(n + 1)
  BY <1>1, <1>3
<1>5. ASSUME NEW j \in 1 .. k, r + 1 < j
      PROVE  /\ j - (r + 1) <= c - 1 => Unit(j) = <<n + 1, 1 + (j - (r + 1))>>
             /\ j - (r + 1) = c - 1 + 1 => Unit(j) = <<n + 1 + 1, 1>>
  <2>1. /\ j - (r + 1) <= SizeOf(Unit(r + 1)[1]) - Unit(r + 1)[2] =>
             Unit(j) = <<Unit(r + 1)[1], Unit(r + 1)[2] + (j - (r + 1))>>
        /\ j - (r + 1) = SizeOf(Unit(r + 1)[1]) - Unit(r + 1)[2] + 1 => Unit(j) = <<Unit(r + 1)[1] + 1, 1>>
    BY <1>3, <1>4, <1>5, Zenon DEF UnitsFollow
  <2>2. Unit(r + 1)[1] = n + 1 /\ Unit(r + 1)[2] = 1
    BY <1>4
  <2>3. QED
    BY <1>4, <2>1, <2>2, Zenon
<1>6. r + c < k => Unit(r + c + 1) = <<n + 2, 1>>
  <2>1. SUFFICES ASSUME r + c < k PROVE Unit(r + c + 1) = <<n + 2, 1>>
    OBVIOUS
  <2>2. PICK j \in 1 .. k : j = r + c + 1
    BY <2>1
  <2>3. r + 1 < j /\ j - (r + 1) = c - 1 + 1 /\ n + 1 + 1 = n + 2
    BY <1>2, <2>2
  <2>4. QED
    BY <1>5, <2>2, <2>3
<1>7. r + c >= k => n + 1 = Len(sent)
  <2>1. SUFFICES ASSUME r + c >= k PROVE n + 1 = Len(sent)
    OBVIOUS
  <2>2. k \in 1 .. k /\ r + 1 < k /\ k - (r + 1) <= c - 1
    BY <1>2, <1>3, <2>1
  <2>3. Unit(k) = <<n + 1, 1 + (k - (r + 1))>>
    BY <1>5, <2>2
  <2>4. Unit(k) = <<Len(sent), SizeOf(Len(sent))>>
    BY <1>3, <2>2 DEF UnitsEnd
  <2>5. QED
    BY <2>3, <2>4
<1>8. QED
  BY <1>3, <1>6, <1>7

-----------------------------------------------------------------------------
(* The steps of the reader. *)

\* A sequence without its first elements.
LEMMA Behind ==
  ASSUME NEW S, NEW s \in Seq(S), NEW d \in Nat, d <= Len(s)
  PROVE  /\ SubSeq(s, d + 1, Len(s)) \in Seq(S)
         /\ Len(SubSeq(s, d + 1, Len(s))) = Len(s) - d
         /\ \A i \in 1 .. Len(s) - d : SubSeq(s, d + 1, Len(s))[i] = s[i + d]
<1>1. Len(s) \in Nat /\ d + 1 \in Int /\ \A i \in d + 1 .. Len(s) : s[i] \in S
  OBVIOUS
<1>2. /\ SubSeq(s, d + 1, Len(s)) \in Seq(S)
      /\ Len(SubSeq(s, d + 1, Len(s))) = IF d + 1 <= Len(s) THEN Len(s) - (d + 1) + 1 ELSE 0
      /\ \A i \in 1 .. Len(s) - (d + 1) + 1 : SubSeq(s, d + 1, Len(s))[i] = s[(d + 1) + i - 1]
  BY <1>1, SubSeqProperties
<1>3. QED
  BY <1>1, <1>2

LEMMA UnitsEndShift ==
  ASSUME ReaderTypes, UnitsEnd, brokerSending, sent' = sent, NEW d \in Nat,
         Known' \in Nat, Known' + d = Known,
         \A i \in 1 .. Known' : Unit(i)' = Unit(i + d)
  PROVE  UnitsEnd'
<1> SUFFICES ASSUME Known' > 0
             PROVE  Unit(Known)' = <<Len(sent), SizeOf(Len(sent))>>
  BY DEF UnitsEnd, SizeOf, R!Size
<1>1. PICK k \in Nat, m \in Nat : k = Known /\ m = Known'
  BY UnitTypes
<1>2. m > 0 /\ m + d = k
  BY <1>1
<1>3. m \in 1 .. m /\ k > 0
  BY <1>2
<1>4. Unit(m)' = Unit(m + d)
  BY <1>1, <1>3, Zenon
<1>5. Unit(k) = <<Len(sent), SizeOf(Len(sent))>>
  BY <1>1, <1>3 DEF UnitsEnd
<1>6. Unit(Known)' = Unit(m)'
  BY <1>1, Zenon
<1>7. QED
  BY <1>2, <1>4, <1>5, <1>6

\* A step that reads nothing and moves no unit.
LEMMA QuietSync ==
  ASSUME SyncInv, UNCHANGED <<sent, line, data, readerIndex, brokerSending, handled, skipped>>,
         handling' \in BOOLEAN, cause' = "none" => cause = "none" /\ R!NoneLeft'
  PROVE  SyncInv'
<1>1. ReaderTypes' /\ R!HandledInOrder'
  BY ReadNone DEF SyncInv, ReaderTypes
<1>2. ASSUME cause' = "none" PROVE InStep'
  <2>1. InStep /\ R!NoneLeft'
    BY <1>2 DEF SyncInv
  <2>2. Known' = Known /\ Read' = Read
    BY DEF Known, Read
  <2>3. \A i : Unit(i)' = Unit(i)
    BY DEF Unit
  <2>4. \A n : SizeOf(n)' = SizeOf(n)
    BY DEF SizeOf, R!Size
  <2>5. UnitsSent' /\ UnitsFollow' /\ UnitsEnd'
    BY <2>1, <2>2, <2>3, <2>4 DEF InStep, UnitsSent, UnitsFollow, UnitsEnd
  <2>6. AtStart'
    BY <2>1, <2>2, <2>3 DEF InStep, AtStart
  <2>7. QED
    BY <2>1, <2>5, <2>6 DEF InStep
<1>3. QED
  BY <1>1, <1>2 DEF SyncInv

\* The rest of an incomplete frame is awaited.
LEMMA RestoreSync ==
  ASSUME SyncInv, R!InLoop, NEW available, R!Restore(available),
         UNCHANGED <<sent, line, brokerSending, handled, skipped, cause>>,
         R!Readable < SizeOf(R!Current)
  PROVE  SyncInv'
<1>1. cause = "none" /\ handling' = FALSE /\ UNCHANGED <<data, readerIndex>>
  BY DEF R!InLoop, R!Restore
<1>2. R!NoneLeft'
  BY <1>1 DEF R!NoneLeft, R!Readable, R!Current, SizeOf, R!Size
<1>3. QED
  BY <1>1, <1>2, QuietSync

\* A whole frame was read.
LEMMA AdvanceSync ==
  ASSUME SyncInv, cause = "none", brokerSending, handling, readerIndex < Len(data),
         NEW c \in Nat, c = SizeOf(Read + 1), readerIndex + c <= Len(data), Read' = Read + 1,
         UNCHANGED <<sent, line, brokerSending, handling>>,
         \/ data' = SubSeq(data, readerIndex + c + 1, Len(data)) /\ readerIndex' = 0
         \/ data' = data /\ readerIndex' = readerIndex + c
  PROVE  InStep' /\ data' \in Seq(Nat \X Nat) /\ readerIndex' \in Nat
<1>1. ReaderTypes /\ UnitsSent /\ UnitsFollow /\ UnitsEnd /\ AtStart
  BY DEF SyncInv, InStep
<1>2. /\ readerIndex + c < Known => Unit(readerIndex + c + 1) = <<Read + 2, 1>>
      /\ readerIndex + c >= Known => Read + 1 = Len(sent)
  BY <1>1, ReadOn
<1>3. PICK r \in Nat, k \in Nat, n \in Nat, l \in Nat, m \in Nat :
        /\ r = readerIndex /\ k = Known /\ n = Read /\ l = Len(data) /\ m = Len(line)
        /\ r + c <= l /\ k = l + m
  BY <1>1, UnitTypes, ReadType DEF ReaderTypes, Known
<1>4. R!NoneLeft'
  BY DEF R!NoneLeft
<1>5. CASE data' = data /\ readerIndex' = readerIndex + c
  <2>1. Known' = k
    BY <1>3, <1>5 DEF Known
  <2>2. \A i : Unit(i)' = Unit(i)
    BY <1>5 DEF Unit
  <2>3. PICK d \in Nat : d = 0
    OBVIOUS
  <2>4. UnitsSent' /\ UnitsFollow' /\ UnitsEnd'
    <3>1. Known' \in Nat /\ Known' + d = Known /\ Known' + d <= Known
      BY <1>3, <2>1, <2>3
    <3>2. \A i \in 1 .. Known' : Unit(i)' = Unit(i + d)
      BY <2>1, <2>2, <2>3
    <3>3. UnitsSent' /\ UnitsFollow'
      BY <1>1, <3>1, <3>2, UnitsShift
    <3>4. UnitsEnd'
      BY <1>1, <3>1, <3>2, UnitsEndShift
    <3>5. QED
      BY <3>3, <3>4
  <2>5. readerIndex' = r + c /\ readerIndex' \in Nat /\ readerIndex' <= Len(data')
    BY <1>3, <1>5
  <2>6. r + c < k => Unit(r + c + 1)' = <<n + 2, 1>>
    BY <1>2, <1>3, <2>2
  <2>7. r + c < k => Unit(readerIndex + 1)' = <<n + 2, 1>>
    BY <1>3, <1>5, <2>6 DEF Unit
  <2>8. Read' + 1 = n + 2 /\ (r + c >= k => Read' = Len(sent'))
    BY <1>2, <1>3
  <2>9. AtStart'
    BY <2>1, <2>5, <2>7, <2>8 DEF AtStart
  <2>10. QED
    BY <1>1, <1>4, <1>5, <2>4, <2>5, <2>9 DEF InStep, ReaderTypes
<1>6. CASE data' = SubSeq(data, readerIndex + c + 1, Len(data)) /\ readerIndex' = 0
  <2>0. PICK d \in Nat : d = r + c
    BY <1>3
  <2>1. data \in Seq(Nat \X Nat) /\ data' = SubSeq(data, d + 1, l) /\ l = Len(data) /\ d <= l
    BY <1>1, <1>3, <1>6, <2>0 DEF ReaderTypes
  <2>2. /\ data' \in Seq(Nat \X Nat) /\ Len(data') = l - d
        /\ \A i \in 1 .. l - d : data'[i] = data[i + d]
    BY <2>1, Behind
  <2>3. Known' \in Nat /\ Known' + d = k /\ Known' + d <= k
    <3>1. Known' = (l - d) + m
      BY <1>3, <2>2 DEF Known
    <3>2. QED
      BY <1>3, <2>1, <3>1
  <2>4. ASSUME NEW i \in 1 .. Known'
        PROVE  Unit(i)' = Unit(i + d)
    <3>1. i \in Nat /\ i >= 1
      BY <2>3
    <3>2. CASE i <= l - d
      <4>1. i \in 1 .. l - d /\ i + d <= l
        BY <2>1, <3>1, <3>2
      <4>2. Unit(i)' = data'[i]
        BY <2>2, <3>2 DEF Unit
      <4>3. Unit(i + d) = data[i + d]
        BY <1>3, <4>1 DEF Unit
      <4>4. QED
        BY <2>2, <4>1, <4>2, <4>3
    <3>3. CASE ~(i <= l - d)
      <4>1. ~(i + d <= l) /\ i - (l - d) = (i + d) - l
        BY <1>3, <3>1, <3>3
      <4>2. Unit(i)' = line[i - (l - d)]
        BY <2>2, <3>3 DEF Unit
      <4>3. Unit(i + d) = line[(i + d) - l]
        BY <1>3, <4>1 DEF Unit
      <4>4. QED
        BY <4>1, <4>2, <4>3
    <3>4. QED
      BY <3>2, <3>3
  <2>5. UnitsSent' /\ UnitsFollow' /\ UnitsEnd'
    <3>1. Known' \in Nat /\ Known' + d = Known /\ Known' + d <= Known
      BY <1>3, <2>3
    <3>2. \A i \in 1 .. Known' : Unit(i)' = Unit(i + d)
      BY <2>4
    <3>3. UnitsSent' /\ UnitsFollow'
      BY <1>1, <3>1, <3>2, UnitsShift
    <3>4. UnitsEnd'
      BY <1>1, <3>1, <3>2, UnitsEndShift
    <3>5. QED
      BY <3>3, <3>4
  <2>6. Read' + 1 = n + 2 /\ (r + c >= k => Read' = Len(sent'))
    BY <1>2, <1>3
  <2>7. 0 < Known' => Unit(0 + 1)' = <<n + 2, 1>>
    <3>1. SUFFICES ASSUME 0 < Known' PROVE Unit(1)' = <<n + 2, 1>>
      OBVIOUS
    <3>2. 1 \in 1 .. Known' /\ 1 + d = r + c + 1 /\ r + c < k
      BY <2>0, <2>3, <3>1
    <3>3. Unit(1)' = Unit(1 + d)
      BY <2>4, <3>2
    <3>4. QED
      BY <1>2, <1>3, <3>2, <3>3
  <2>8. 0 >= Known' => Read' = Len(sent')
    BY <2>0, <2>3, <2>6
  <2>9. Unit(readerIndex + 1)' = Unit(0 + 1)'
    BY <1>6 DEF Unit
  <2>10. 0 <= Len(data')
    BY <2>2
  <2>11. AtStart'
    BY <1>6, <2>6, <2>7, <2>8, <2>9, <2>10 DEF AtStart
  <2>12. QED
    BY <1>4, <1>6, <2>2, <2>5, <2>11 DEF InStep
<1>7. QED
  BY <1>5, <1>6

LEMMA PeerWritesSync ==
  ASSUME SyncInv, NEW f \in Frames, R!PeerWrites(f)
  PROVE  SyncInv'
<1> DEFINE more == [i \in 1 .. R!Size(f) |-> <<Len(sent) + 1, i>>]
<1>1. /\ sent' = Append(sent, f) /\ line' = line \o more
      /\ UNCHANGED <<data, readerIndex, handling, brokerSending, handled, skipped, cause>>
  BY DEF R!PeerWrites, R!brokerVars
<1>2. ReaderTypes /\ R!HandledInOrder
  BY DEF SyncInv
<1>3. PICK N \in Nat, s \in Nat : N = Len(sent) /\ s = R!Size(f) /\ s >= 1
  <2>1. f.body \in Nat
    BY FramesAssumption
  <2>2. R!Size(f) \in Nat /\ R!Size(f) >= 1
    BY <2>1 DEF R!Size, R!HeaderSize
  <2>3. QED
    BY <1>2, <2>2 DEF ReaderTypes
<1>4. /\ more \in Seq(Nat \X Nat) /\ Len(more) = s
      /\ \A k \in 1 .. s : more[k] = <<N + 1, k>>
  <2>1. more = [i \in 1 .. s |-> <<N + 1, i>>]
    BY <1>3, Zenon
  <2>2. \A i \in 1 .. s : <<N + 1, i>> \in Nat \X Nat
    OBVIOUS
  <2> HIDE DEF more
  <2>3. QED
    BY <2>1, <2>2
<1> HIDE DEF more
<1>5. /\ sent \in Seq(Frames) /\ sent' \in Seq(Frames) /\ Len(sent') = N + 1
      /\ \A n \in 1 .. N : sent'[n] = sent[n]
      /\ sent'[N + 1] = f
  BY <1>1, <1>2, <1>3 DEF ReaderTypes
<1>6. /\ line \in Seq(Nat \X Nat) /\ line' \in Seq(Nat \X Nat) /\ Len(line') = Len(line) + s
      /\ \A i \in 1 .. Len(line) : line'[i] = line[i]
      /\ \A k \in 1 .. s : line'[Len(line) + k] = <<N + 1, k>>
  <2>1. line \in Seq(Nat \X Nat) /\ Len(line) \in Nat
    BY <1>2 DEF ReaderTypes
  <2>2. /\ line' \in Seq(Nat \X Nat) /\ Len(line') = Len(line) + s
        /\ \A i \in 1 .. Len(line) + s :
             line'[i] = IF i <= Len(line) THEN line[i] ELSE more[i - Len(line)]
    BY <1>1, <1>4, <2>1, ConcatProperties
  <2>3. ASSUME NEW k \in 1 .. s
        PROVE  line'[Len(line) + k] = <<N + 1, k>>
    <3>1. PICK i \in 1 .. Len(line) + s : i = Len(line) + k /\ ~(i <= Len(line)) /\ i - Len(line) = k
      BY <2>1
    <3>2. QED
      BY <1>4, <2>2, <3>1
  <2>4. ASSUME NEW i \in 1 .. Len(line)
        PROVE  line'[i] = line[i]
    <3>1. i \in 1 .. Len(line) + s /\ i <= Len(line)
      BY <2>1
    <3>2. QED
      BY <2>2, <3>1
  <2>5. QED
    BY <2>1, <2>2, <2>3, <2>4
<1>7. ReaderTypes' /\ R!HandledInOrder' /\ Read' = Read
  BY <1>1, <1>2, <1>5, <1>6, ReadNone DEF ReaderTypes
<1>8. /\ \A n \in 1 .. N : SizeOf(n)' = SizeOf(n)
      /\ SizeOf(N + 1)' = s
  BY <1>3, <1>5 DEF SizeOf, R!Size
<1>9. ASSUME cause' = "none" PROVE InStep'
  <2>1. InStep /\ UnitsSent /\ UnitsFollow /\ UnitsEnd /\ AtStart /\ R!NoneLeft
    BY <1>1, <1>9 DEF SyncInv, InStep
  <2>2. R!NoneLeft'
    <3>1. SUFFICES ASSUME ~handling, readerIndex < Len(data)
                   PROVE  R!Readable' < R!Size(sent[R!Current])'
      BY <1>1 DEF R!NoneLeft
    <3>2. R!Current \in 1 .. N /\ R!Current' = R!Current /\ R!Readable' = R!Readable
      BY <1>1, <1>2, <1>3, <2>1, <3>1, CurrentIs DEF R!Current, R!Readable
    <3>3. R!Size(sent[R!Current])' = R!Size(sent[R!Current])
      BY <1>5, <3>2 DEF R!Size
    <3>4. QED
      BY <2>1, <3>1, <3>2, <3>3 DEF R!NoneLeft
  <2>3. PICK L \in Nat, l \in Nat, m \in Nat : L = Known /\ l = Len(data) /\ m = Len(line)
    BY <1>2, UnitTypes
  <2>4. CASE brokerSending
    <3>1. L = l + m
      BY <2>3, <2>4 DEF Known
    <3>2. Known' = L + s
      BY <1>1, <1>6, <2>3, <2>4, <3>1 DEF Known
    <3>3. ASSUME NEW i \in 1 .. L PROVE Unit(i)' = Unit(i)
      <4>1. CASE i <= l
        BY <1>1, <2>3, <4>1 DEF Unit
      <4>2. CASE ~(i <= l)
        <5>1. i - l \in 1 .. m
          BY <3>1, <4>2
        <5>2. QED
          BY <1>1, <1>6, <2>3, <4>2, <5>1 DEF Unit
      <4>3. QED
        BY <4>1, <4>2
    <3>4. ASSUME NEW k \in 1 .. s PROVE Unit(L + k)' = <<N + 1, k>>
      <4>1. ~(L + k <= l) /\ (L + k) - l = m + k
        BY <3>1
      <4>2. Unit(L + k)' = line'[(L + k) - l]
        BY <1>1, <2>3, <4>1 DEF Unit
      <4>3. QED
        BY <1>6, <2>3, <4>1, <4>2
    <3>5. brokerSending' /\ Len(sent)' = N + 1
      BY <1>1, <1>5, <2>4
    <3>6. UnitsSent' /\ UnitsFollow' /\ UnitsEnd'
      BY <1>2, <1>3, <1>8, <2>1, <2>3, <2>4, <3>2, <3>3, <3>4, <3>5, UnitsGrow
    <3>7. AtStart'
      <4>1. PICK r \in Nat, n \in Nat : r = readerIndex /\ n = Read /\ r <= l
        BY <1>2, <2>1, <2>3, ReadType DEF ReaderTypes, AtStart
      <4>2. CASE r < L
        <5>1. r + 1 \in 1 .. L /\ r < L + s
          BY <4>2
        <5>2. Unit(r + 1)' = Unit(r + 1) /\ Unit(r + 1) = <<n + 1, 1>>
          BY <2>1, <2>3, <3>3, <4>1, <4>2, <5>1 DEF AtStart
        <5>3. Unit(readerIndex + 1)' = Unit(r + 1)'
          BY <1>1, <4>1 DEF Unit
        <5>4. QED
          BY <1>1, <1>7, <2>3, <3>2, <4>1, <5>1, <5>2, <5>3 DEF AtStart
      <4>3. CASE ~(r < L)
        <5>1. r = L /\ r < L + s
          BY <1>3, <3>1, <4>1, <4>3
        <5>2. n = N
          BY <1>3, <2>1, <2>3, <2>4, <4>1, <5>1 DEF AtStart
        <5>3. 1 \in 1 .. s
          BY <1>3
        <5>4. Unit(r + 1)' = <<n + 1, 1>>
          BY <3>4, <5>1, <5>2, <5>3
        <5>5. Unit(readerIndex + 1)' = Unit(r + 1)'
          BY <1>1, <4>1 DEF Unit
        <5>6. QED
          BY <1>1, <1>7, <2>3, <3>2, <4>1, <5>1, <5>4, <5>5 DEF AtStart
      <4>4. QED
        BY <4>2, <4>3
    <3>8. QED
      BY <2>2, <3>6, <3>7 DEF InStep
  <2>5. CASE ~brokerSending
    <3>1. Known' = Known /\ ~brokerSending' /\ L = l
      BY <1>1, <2>3, <2>5 DEF Known
    <3>2. \A i \in 1 .. L : Unit(i)' = Unit(i)
      BY <1>1, <2>3, <3>1 DEF Unit
    <3>3. \A i \in 1 .. L : Unit(i) \in Nat \X Nat /\ Unit(i)[1] \in 1 .. N
      BY <1>2, <1>3, <2>1, <2>3, UnitTypes DEF UnitsSent
    <3>4. \A i \in 1 .. L : SizeOf(Unit(i)[1])' = SizeOf(Unit(i)[1])
      BY <1>8, <3>2, <3>3
    <3>5. UnitsSent'
      <4>1. \A i \in 1 .. L : Unit(i)[1]' \in 1 .. N + 1
        BY <3>2, <3>3
      <4>2. \A i \in 1 .. L : Unit(i)[2]' \in 1 .. SizeOf(Unit(i)[1])'
        BY <2>1, <2>3, <3>2, <3>4 DEF UnitsSent
      <4>3. Len(sent)' = N + 1 /\ Known' = L
        BY <1>5, <2>3, <3>1
      <4>4. QED
        BY <4>1, <4>2, <4>3, Zenon DEF UnitsSent
    <3>6. UnitsFollow'
      BY <2>1, <2>3, <3>1, <3>2, <3>4 DEF UnitsFollow
    <3>7. UnitsEnd'
      BY <3>1 DEF UnitsEnd
    <3>8. AtStart'
      <4>1. PICK r \in Nat : r = readerIndex /\ r <= l
        BY <1>2, <2>1, <2>3 DEF ReaderTypes, AtStart
      <4>2. r < L => r + 1 \in 1 .. L /\ Unit(r + 1) = <<Read + 1, 1>>
        BY <2>1, <2>3, <4>1 DEF AtStart
      <4>3. Unit(readerIndex + 1)' = Unit(r + 1)'
        BY <1>1, <4>1 DEF Unit
      <4>4. QED
        BY <1>1, <1>7, <2>3, <3>1, <3>2, <4>1, <4>2, <4>3 DEF AtStart
    <3>9. QED
      BY <2>2, <3>5, <3>6, <3>7, <3>8 DEF InStep
  <2>6. QED
    BY <2>4, <2>5
<1>10. QED
  BY <1>7, <1>9 DEF SyncInv

LEMMA HandleSync ==
  ASSUME SyncInv, NEW length \in 1 .. Len(line), R!Handle(length)
  PROVE  SyncInv'
<1>1. /\ ~handling /\ cause = "none" /\ line' = SubSeq(line, length + 1, Len(line))
      /\ UNCHANGED <<sent, readerIndex, brokerSending, handled, skipped, cause>>
  BY DEF R!Handle, R!brokerVars
<1>2. /\ ReaderTypes /\ R!HandledInOrder
      /\ UnitsSent /\ UnitsFollow /\ UnitsEnd /\ AtStart /\ R!NoneLeft
  BY <1>1 DEF SyncInv, InStep
<1>3. /\ Len(line) \in Nat /\ length \in Nat /\ length <= Len(line) /\ line \in Seq(Nat \X Nat)
      /\ data \in Seq(Nat \X Nat) /\ Len(data) \in Nat
  BY <1>2 DEF ReaderTypes
<1>4. /\ line' \in Seq(Nat \X Nat) /\ Len(line') = Len(line) - length
      /\ \A i \in 1 .. Len(line) - length : line'[i] = line[i + length]
  BY <1>1, <1>3, Behind
<1>5. CASE ~brokerSending
  <2>1. UNCHANGED <<data, handling>>
    BY <1>5 DEF R!Handle
  <2>2. ReaderTypes' /\ R!HandledInOrder' /\ Read' = Read
    BY <1>1, <1>2, <1>4, <2>1, ReadNone DEF ReaderTypes
  <2>3. Known = Len(data) /\ Known' = Known
    BY <1>1, <1>5, <2>1 DEF Known
  <2>4. \A i \in 1 .. Known : Unit(i)' = Unit(i) /\ Unit(i) = data[i]
    BY <1>3, <2>1, <2>3 DEF Unit
  <2>5. UnitsSent' /\ UnitsFollow'
    <3>1. PICK d \in Nat : d = 0
      OBVIOUS
    <3>2. Known' \in Nat /\ Known' + d <= Known /\ sent' = sent
      BY <1>1, <1>3, <2>3, <3>1
    <3>3. \A i \in 1 .. Known' : Unit(i)' = Unit(i + d)
      BY <2>3, <2>4, <3>1
    <3>4. QED
      BY <1>2, <3>2, <3>3, UnitsShift
  <2>6. UnitsEnd'
    BY <1>1, <1>5 DEF UnitsEnd
  <2>7. AtStart'
    <3>1. PICK r \in Nat : r = readerIndex /\ r <= Len(data)
      BY <1>2 DEF ReaderTypes, AtStart
    <3>2. r < Known => r + 1 \in 1 .. Known /\ Unit(r + 1) = <<Read + 1, 1>>
      BY <1>2, <1>3, <2>3, <3>1 DEF AtStart
    <3>3. Unit(readerIndex + 1)' = Unit(r + 1)'
      BY <1>1, <3>1 DEF Unit
    <3>4. QED
      BY <1>1, <1>5, <2>1, <2>2, <2>3, <2>4, <3>1, <3>2, <3>3 DEF AtStart
  <2>8. R!NoneLeft'
    BY <1>1, <1>2, <2>1 DEF R!NoneLeft, R!Readable, R!Current, R!Size
  <2>9. QED
    BY <2>2, <2>5, <2>6, <2>7, <2>8 DEF SyncInv, InStep
<1>6. CASE brokerSending
  <2>1. data' = data \o SubSeq(line, 1, length) /\ handling' = TRUE
    BY <1>6 DEF R!Handle
  <2>2. /\ SubSeq(line, 1, length) \in Seq(Nat \X Nat) /\ Len(SubSeq(line, 1, length)) = length
        /\ \A i \in 1 .. length : SubSeq(line, 1, length)[i] = line[i]
    BY <1>3
  <2>3. /\ data' \in Seq(Nat \X Nat) /\ Len(data') = Len(data) + length
        /\ \A i \in 1 .. Len(data) + length :
             data'[i] = IF i <= Len(data) THEN data[i] ELSE SubSeq(line, 1, length)[i - Len(data)]
    BY <1>3, <2>1, <2>2, ConcatProperties
  <2>4. ReaderTypes' /\ R!HandledInOrder' /\ Read' = Read
    BY <1>1, <1>2, <1>4, <2>1, <2>3, ReadNone DEF ReaderTypes
  <2>5. PICK l \in Nat, m \in Nat : l = Len(data) /\ m = Len(line)
    BY <1>3
  <2>6. Known = l + m /\ Known' = Known /\ length <= m
    <3>1. Known = l + m /\ length <= m
      BY <1>3, <1>6, <2>5 DEF Known
    <3>2. Known' = (l + length) + (m - length)
      BY <1>1, <1>4, <1>6, <2>3, <2>5 DEF Known
    <3>3. QED
      BY <3>1, <3>2
  <2>7. ASSUME NEW i \in 1 .. l + m
        PROVE  Unit(i)' = Unit(i)
    <3>1. CASE i <= l
      BY <1>3, <2>3, <2>5, <3>1 DEF Unit
    <3>2. CASE ~(i <= l) /\ i <= l + length
      <4>1. i - l \in 1 .. length /\ i \in 1 .. l + length
        BY <3>2
      <4>2. Unit(i)' = SubSeq(line, 1, length)[i - l]
        BY <2>3, <2>5, <3>2, <4>1 DEF Unit
      <4>3. Unit(i) = line[i - l]
        BY <2>5, <3>2 DEF Unit
      <4>4. QED
        BY <2>2, <4>1, <4>2, <4>3
    <3>3. CASE ~(i <= l + length)
      <4>1. ~(i <= l) /\ i - (l + length) \in 1 .. m - length /\ (i - (l + length)) + length = i - l
        BY <2>6, <3>3
      <4>2. Unit(i)' = line'[i - (l + length)]
        BY <2>3, <2>5, <3>3 DEF Unit
      <4>3. Unit(i) = line[i - l]
        BY <2>5, <4>1 DEF Unit
      <4>4. line'[i - (l + length)] = line[(i - (l + length)) + length]
        BY <1>4, <2>5, <4>1
      <4>5. QED
        BY <4>1, <4>2, <4>3, <4>4
    <3>4. QED
      BY <3>1, <3>2, <3>3
  <2>8. UnitsSent' /\ UnitsFollow' /\ UnitsEnd'
    <3>1. PICK d \in Nat : d = 0
      OBVIOUS
    <3>2. Known' \in Nat /\ Known' + d = Known /\ Known' + d <= Known /\ sent' = sent
      BY <1>1, <2>6, <3>1
    <3>3. \A i \in 1 .. Known' : Unit(i)' = Unit(i + d)
      BY <2>6, <2>7, <3>1
    <3>4. UnitsSent' /\ UnitsFollow'
      BY <1>2, <3>2, <3>3, UnitsShift
    <3>5. UnitsEnd'
      BY <1>2, <1>6, <3>2, <3>3, UnitsEndShift
    <3>6. QED
      BY <3>4, <3>5
  <2>9. AtStart'
    <3>1. PICK r \in Nat : r = readerIndex /\ r <= l
      BY <1>2, <2>5 DEF ReaderTypes, AtStart
    <3>2. r < l + m => r + 1 \in 1 .. l + m /\ Unit(r + 1) = <<Read + 1, 1>>
      BY <1>2, <2>6, <3>1 DEF AtStart
    <3>3. Unit(readerIndex + 1)' = Unit(r + 1)'
      BY <1>1, <3>1 DEF Unit
    <3>4. r < l + m => Unit(readerIndex + 1)' = <<Read + 1, 1>>
      BY <2>7, <3>2, <3>3
    <3>5. r >= l + m => Read = Len(sent)
      BY <1>2, <1>6, <2>6, <3>1 DEF AtStart
    <3>6. r <= Len(data')
      BY <2>3, <2>5, <3>1
    <3>7. QED
      BY <1>1, <2>4, <2>6, <3>1, <3>4, <3>5, <3>6 DEF AtStart
  <2>10. R!NoneLeft'
    BY <2>1 DEF R!NoneLeft
  <2>11. QED
    BY <2>4, <2>8, <2>9, <2>10 DEF SyncInv, InStep
<1>7. QED
  BY <1>5, <1>6

LEMMA ResetSync ==
  ASSUME SyncInv, R!Reset
  PROVE  SyncInv'
<1>1. /\ ~(readerIndex < Len(data) /\ brokerSending) /\ data' = <<>> /\ readerIndex' = 0 /\ handling' = FALSE
      /\ UNCHANGED <<sent, line, brokerSending, handled, skipped, cause>>
  BY DEF R!Reset, R!brokerVars
<1>2. ReaderTypes /\ R!HandledInOrder
  BY DEF SyncInv
<1>3. ReaderTypes' /\ R!HandledInOrder' /\ Read' = Read
  <2>1. data' \in Seq(Nat \X Nat) /\ readerIndex' \in Nat /\ handling' \in BOOLEAN
    <3>1. <<>> \in Seq(Nat \X Nat)
      BY EmptySeq
    <3>2. QED
      BY <1>1, <3>1
  <2>2. QED
    BY <1>1, <1>2, <2>1, ReadNone DEF ReaderTypes
<1>4. ASSUME cause' = "none" PROVE InStep'
  <2>1. UnitsSent /\ UnitsFollow /\ UnitsEnd /\ AtStart
    BY <1>1, <1>4 DEF SyncInv, InStep
  <2>2. R!NoneLeft'
    BY <1>1 DEF R!NoneLeft
  <2>3. PICK l \in Nat, m \in Nat : l = Len(data) /\ m = Len(line)
    BY <1>2 DEF ReaderTypes
  <2>4. CASE brokerSending
    <3>1. readerIndex = l
      BY <1>1, <1>2, <2>1, <2>3, <2>4 DEF ReaderTypes, AtStart
    <3>2. Known = l + m /\ Known' = m
      BY <1>1, <2>3, <2>4 DEF Known
    <3>3. ASSUME NEW i \in 1 .. m
          PROVE  Unit(i)' = Unit(i + l)
      <4>1. ~(i + l <= l) /\ (i + l) - l = i /\ ~(i <= 0) /\ i - 0 = i
        OBVIOUS
      <4>2. Unit(i)' = line[i]
        BY <1>1, <4>1 DEF Unit
      <4>3. Unit(i + l) = line[i]
        BY <2>3, <4>1 DEF Unit
      <4>4. QED
        BY <4>2, <4>3
    <3>4. Known' \in Nat /\ Known' + l = Known /\ Known' + l <= Known /\ sent' = sent
      BY <1>1, <3>2
    <3>5. \A i \in 1 .. Known' : Unit(i)' = Unit(i + l)
      BY <3>2, <3>3
    <3>6. UnitsSent' /\ UnitsFollow' /\ UnitsEnd'
      BY <1>2, <2>1, <2>4, <3>4, <3>5, UnitsShift, UnitsEndShift
    <3>7. m > 0 => Unit(1)' = <<Read + 1, 1>>
      <4>1. SUFFICES ASSUME m > 0 PROVE Unit(1)' = <<Read + 1, 1>>
        OBVIOUS
      <4>2. 1 \in 1 .. m /\ readerIndex < Known /\ 1 + l = l + 1
        BY <3>1, <3>2, <4>1
      <4>3. Unit(readerIndex + 1) = <<Read + 1, 1>>
        BY <2>1, <4>2 DEF AtStart
      <4>4. QED
        BY <3>1, <3>3, <4>2, <4>3
    <3>8. ~(m > 0) => Read = Len(sent)
      BY <2>1, <2>4, <3>1, <3>2 DEF AtStart
    <3>9. Unit(readerIndex + 1)' = Unit(1)' /\ Len(data') = 0
      BY <1>1 DEF Unit
    <3>10. AtStart'
      BY <1>1, <1>3, <3>2, <3>7, <3>8, <3>9 DEF AtStart
    <3>11. QED
      BY <2>2, <3>6, <3>10 DEF InStep
  <2>5. CASE ~brokerSending
    <3>1. Known' = 0 /\ ~brokerSending'
      BY <1>1, <2>5 DEF Known
    <3>2. UnitsSent' /\ UnitsFollow' /\ UnitsEnd'
      BY <3>1 DEF UnitsSent, UnitsFollow, UnitsEnd
    <3>3. AtStart'
      BY <1>1, <3>1 DEF AtStart
    <3>4. QED
      BY <2>2, <3>2, <3>3 DEF InStep
  <2>6. QED
    BY <2>4, <2>5
<1>5. QED
  BY <1>3, <1>4 DEF SyncInv

\* What the loop knows of the frame it is at.
LEMMA InLoopIs ==
  ASSUME SyncInv, R!InLoop
  PROVE  /\ handling /\ brokerSending /\ cause = "none" /\ readerIndex < Len(data)
         /\ ReaderTypes /\ R!HandledInOrder
         /\ Read \in Nat /\ R!Current = Read + 1 /\ R!Current \in 1 .. Len(sent)
         /\ SizeOf(R!Current) \in Nat /\ sent[R!Current].body \in Nat
         /\ SizeOf(R!Current) = 3 + sent[R!Current].body
         /\ R!Readable = Len(data) - readerIndex
         /\ readerIndex \in Nat /\ Len(data) \in Nat
<1>1. /\ handling /\ brokerSending /\ cause = "none" /\ readerIndex < Len(data)
      /\ ReaderTypes /\ R!HandledInOrder /\ UnitsSent /\ AtStart
  BY DEF R!InLoop, SyncInv, InStep
<1>2. R!Current = Read + 1 /\ Read + 1 \in 1 .. Len(sent) /\ Read \in Nat
  BY <1>1, CurrentIs, ReadType
<1>3. readerIndex \in Nat /\ Len(data) \in Nat
  BY <1>1 DEF ReaderTypes
<1>4. QED
  BY <1>1, <1>2, <1>3, FrameSize DEF R!Readable

LEMMA DispatchSync ==
  ASSUME SyncInv, R!Dispatch
  PROVE  SyncInv'
<1>1. /\ R!InLoop /\ R!Complete /\ handled' = Append(handled, R!Current)
      /\ R!Shrink(R!Size(sent[R!Current]))
      /\ UNCHANGED <<sent, line, handling, brokerSending, skipped, cause>>
  BY DEF R!Dispatch, R!AtFrame
<1>2. /\ handling /\ brokerSending /\ cause = "none" /\ readerIndex < Len(data)
      /\ ReaderTypes /\ R!HandledInOrder
      /\ Read \in Nat /\ R!Current = Read + 1
      /\ SizeOf(R!Current) \in Nat /\ R!Readable = Len(data) - readerIndex
      /\ readerIndex \in Nat /\ Len(data) \in Nat
  BY <1>1, InLoopIs
<1>3. PICK c \in Nat, n \in Nat : c = SizeOf(R!Current) /\ n = Read + 1 /\ n = R!Current
  BY <1>2
<1>4. R!HandledInOrder' /\ Read' = n /\ handled' \in Seq(Nat)
  BY <1>1, <1>2, <1>3, HandOver
<1>5. readerIndex + c <= Len(data)
  BY <1>1, <1>2, <1>3 DEF R!Complete, SizeOf
<1>6. data' = SubSeq(data, readerIndex + c + 1, Len(data)) /\ readerIndex' = 0
  BY <1>1, <1>3 DEF R!Shrink, SizeOf
<1>7. InStep' /\ data' \in Seq(Nat \X Nat) /\ readerIndex' \in Nat
  BY <1>1, <1>2, <1>3, <1>4, <1>5, <1>6, AdvanceSync
<1>8. QED
  BY <1>1, <1>2, <1>4, <1>7 DEF SyncInv, ReaderTypes

LEMMA RefuseSync ==
  ASSUME SyncInv, R!Refuse
  PROVE  SyncInv'
<1>1. /\ R!InLoop /\ R!Readable >= 3 /\ readerIndex' = readerIndex + 3
      /\ skipped' = skipped \cup {R!Current}
      /\ cause' = IF sent[R!Current].body = 0 THEN cause ELSE "refused"
      /\ UNCHANGED <<sent, line, data, handling, brokerSending, handled>>
  BY DEF R!Refuse, R!AtFrame, R!HeaderSize, R!brokerVars
<1>2. /\ handling /\ brokerSending /\ cause = "none" /\ readerIndex < Len(data)
      /\ ReaderTypes /\ R!HandledInOrder
      /\ Read \in Nat /\ R!Current = Read + 1
      /\ SizeOf(R!Current) \in Nat /\ R!Readable = Len(data) - readerIndex
      /\ SizeOf(R!Current) = 3 + sent[R!Current].body
      /\ readerIndex \in Nat /\ Len(data) \in Nat
  BY <1>1, InLoopIs
<1>3. PICK c \in Nat, n \in Nat : c = SizeOf(R!Current) /\ n = Read + 1 /\ n = R!Current
  BY <1>2
<1>4. R!HandledInOrder' /\ Read' = n /\ IsFiniteSet(skipped')
  BY <1>1, <1>2, <1>3, SkipOver
<1>5. ReaderTypes'
  BY <1>1, <1>2, <1>4 DEF ReaderTypes
<1>6. ASSUME cause' = "none" PROVE InStep'
  <2>1. c = 3
    BY <1>1, <1>2, <1>3, <1>6
  <2>2. readerIndex + c <= Len(data) /\ readerIndex' = readerIndex + c
    BY <1>1, <1>2, <2>1
  <2>3. QED
    BY <1>1, <1>2, <1>3, <1>4, <2>2, AdvanceSync
<1>7. QED
  BY <1>4, <1>5, <1>6 DEF SyncInv

LEMMA UnknownSync ==
  ASSUME SyncInv, R!Unknown
  PROVE  SyncInv'
<1> DEFINE length == R!frameLength(sent[R!Current])
           count == IF length > R!HeaderSize THEN length - R!HeaderSize ELSE 0
<1>1. /\ R!InLoop /\ UNCHANGED <<sent, line, brokerSending, handled>>
      /\ \/ /\ R!Readable < R!HeaderSize + count /\ R!Restore(R!Readable)
            /\ UNCHANGED <<skipped, cause>>
         \/ /\ ~(R!Readable < R!HeaderSize + count) /\ R!Shrink(R!HeaderSize + count)
            /\ UNCHANGED handling /\ skipped' = skipped \cup {R!Current}
            /\ cause' = IF R!HeaderSize + count = R!Size(sent[R!Current]) THEN cause ELSE "short"
  BY DEF R!Unknown, R!AtFrame, R!brokerVars
<1>2. /\ handling /\ brokerSending /\ cause = "none" /\ readerIndex < Len(data)
      /\ ReaderTypes /\ R!HandledInOrder
      /\ Read \in Nat /\ R!Current = Read + 1
      /\ SizeOf(R!Current) \in Nat /\ R!Readable = Len(data) - readerIndex
      /\ sent[R!Current].body \in Nat /\ SizeOf(R!Current) = 3 + sent[R!Current].body
      /\ readerIndex \in Nat /\ Len(data) \in Nat
  BY <1>1, InLoopIs
<1>3. PICK c \in Nat, n \in Nat : c = SizeOf(R!Current) /\ n = Read + 1 /\ n = R!Current
  BY <1>2
<1>4. R!Size(sent[R!Current]) = c /\ length = c - 1 /\ R!HeaderSize = 3 /\ c >= 3
  BY <1>2, <1>3 DEF SizeOf, R!frameLength, R!LengthSize, R!HeaderSize
<1> HIDE DEF length
<1>5. PICK e \in Nat : e = R!HeaderSize + count /\ e <= c
  BY <1>4
<1> HIDE DEF count
<1>6. CASE R!Readable < R!HeaderSize + count /\ R!Restore(R!Readable) /\ UNCHANGED <<skipped, cause>>
  <2>1. R!Readable < SizeOf(R!Current)
    BY <1>2, <1>3, <1>5, <1>6
  <2>2. QED
    BY <1>1, <1>6, <2>1, RestoreSync
<1>7. CASE /\ ~(R!Readable < R!HeaderSize + count) /\ R!Shrink(R!HeaderSize + count)
           /\ UNCHANGED handling /\ skipped' = skipped \cup {R!Current}
           /\ cause' = IF R!HeaderSize + count = R!Size(sent[R!Current]) THEN cause ELSE "short"
  <2>1. R!HandledInOrder' /\ Read' = n /\ IsFiniteSet(skipped')
    BY <1>1, <1>2, <1>3, <1>7, SkipOver
  <2>2. data' = SubSeq(data, readerIndex + e + 1, Len(data)) /\ readerIndex' = 0
    BY <1>5, <1>7 DEF R!Shrink
  <2>3. PICK d \in Nat : d = readerIndex + e /\ d <= Len(data)
    BY <1>2, <1>5, <1>7
  <2>4. SubSeq(data, d + 1, Len(data)) \in Seq(Nat \X Nat)
    BY <1>2, <2>3, Behind DEF ReaderTypes
  <2>5. ReaderTypes'
    BY <1>1, <1>2, <1>7, <2>1, <2>2, <2>3, <2>4 DEF ReaderTypes
  <2>6. ASSUME cause' = "none" PROVE InStep'
    <3>1. e = c
      BY <1>4, <1>5, <1>7, <2>6
    <3>2. readerIndex + c <= Len(data) /\ data' = SubSeq(data, readerIndex + c + 1, Len(data))
      BY <2>2, <2>3, <3>1
    <3>3. QED
      BY <1>1, <1>2, <1>3, <1>7, <2>1, <2>2, <3>2, AdvanceSync
  <2>7. QED
    BY <2>1, <2>5, <2>6 DEF SyncInv
<1>8. QED
  BY <1>1, <1>6, <1>7

LEMMA AwaitSync ==
  ASSUME SyncInv, R!HeaderMissing \/ R!Incomplete
  PROVE  SyncInv'
<1>1. /\ R!InLoop /\ R!Restore(R!Readable) /\ (R!Readable < 3 \/ ~R!Complete)
      /\ UNCHANGED <<sent, line, brokerSending, handled, skipped, cause>>
  BY DEF R!HeaderMissing, R!Incomplete, R!AtFrame, R!HeaderSize, R!brokerVars
<1>2. /\ SizeOf(R!Current) \in Nat /\ R!Readable = Len(data) - readerIndex
      /\ sent[R!Current].body \in Nat /\ SizeOf(R!Current) = 3 + sent[R!Current].body
      /\ readerIndex \in Nat /\ Len(data) \in Nat
  BY <1>1, InLoopIs
<1>3. R!Readable < SizeOf(R!Current)
  BY <1>1, <1>2 DEF R!Complete, SizeOf
<1>4. QED
  BY <1>1, <1>3, RestoreSync

LEMMA TornSync ==
  ASSUME SyncInv, R!Torn
  PROVE  SyncInv'
<1>1. /\ R!InLoop /\ ~R!Complete /\ UNCHANGED <<sent, line, brokerSending, handled, skipped>>
      /\ \/ R!Restore(R!Readable) /\ UNCHANGED cause
         \/ readerIndex' = Len(data) /\ handling' = FALSE /\ cause' = "torn" /\ UNCHANGED data
  BY DEF R!Torn, R!AtFrame, R!brokerVars
<1>2. /\ SizeOf(R!Current) \in Nat /\ R!Readable = Len(data) - readerIndex
      /\ readerIndex \in Nat /\ Len(data) \in Nat /\ ReaderTypes /\ R!HandledInOrder
  BY <1>1, InLoopIs
<1>3. CASE R!Restore(R!Readable) /\ UNCHANGED cause
  <2>1. R!Readable < SizeOf(R!Current)
    BY <1>1, <1>2 DEF R!Complete, SizeOf
  <2>2. QED
    BY <1>1, <1>3, <2>1, RestoreSync
<1>4. CASE readerIndex' = Len(data) /\ handling' = FALSE /\ cause' = "torn" /\ UNCHANGED data
  <2>1. ReaderTypes' /\ R!HandledInOrder'
    BY <1>1, <1>2, <1>4, ReadNone DEF ReaderTypes
  <2>2. QED
    BY <1>4, <2>1 DEF SyncInv
<1>5. QED
  BY <1>1, <1>3, <1>4

\* After the broker has closed, the reader sees only what it has.
LEMMA ClosedSync ==
  ASSUME SyncInv, R!BrokerClosed
  PROVE  SyncInv'
<1>1. /\ brokerSending /\ brokerSending' = FALSE
      /\ UNCHANGED <<sent, line, data, readerIndex, handling, handled, skipped, cause>>
  BY DEF R!BrokerClosed
<1>2. ReaderTypes /\ R!HandledInOrder
  BY DEF SyncInv
<1>3. ReaderTypes' /\ R!HandledInOrder' /\ Read' = Read
  BY <1>1, <1>2, ReadNone DEF ReaderTypes
<1>4. ASSUME cause' = "none" PROVE InStep'
  <2>1. UnitsSent /\ UnitsFollow /\ UnitsEnd /\ AtStart /\ R!NoneLeft
    BY <1>1, <1>4 DEF SyncInv, InStep
  <2>2. PICK l \in Nat : l = Len(data) /\ l <= Known
    BY <1>2, UnitTypes
  <2>3. Known' = l
    BY <1>1, <2>2 DEF Known
  <2>4. \A i : Unit(i)' = Unit(i)
    BY <1>1 DEF Unit
  <2>5. UnitsSent' /\ UnitsFollow'
    <3>1. PICK d \in Nat : d = 0
      OBVIOUS
    <3>2. Known \in Nat
      BY <1>2, UnitTypes
    <3>3. Known' \in Nat /\ Known' + d <= Known /\ sent' = sent
      BY <1>1, <2>2, <2>3, <3>1, <3>2
    <3>4. \A i \in 1 .. Known' : Unit(i)' = Unit(i + d)
      BY <2>3, <2>4, <3>1
    <3>5. QED
      BY <1>2, <2>1, <3>3, <3>4, UnitsShift
  <2>6. UnitsEnd'
    BY <1>1 DEF UnitsEnd
  <2>7. AtStart'
    <3>1. Known \in Nat /\ readerIndex \in Nat
      BY <1>2, UnitTypes DEF ReaderTypes
    <3>2. readerIndex < l => Unit(readerIndex + 1) = <<Read + 1, 1>>
      BY <2>1, <2>2, <3>1 DEF AtStart
    <3>3. Unit(readerIndex + 1)' = Unit(readerIndex + 1)
      BY <1>1 DEF Unit
    <3>4. QED
      BY <1>1, <1>3, <2>1, <2>2, <2>3, <3>2, <3>3 DEF AtStart
  <2>8. R!NoneLeft'
    BY <1>1, <2>1 DEF R!NoneLeft, R!Readable, R!Current, R!Size
  <2>9. QED
    BY <2>5, <2>6, <2>7, <2>8 DEF InStep
<1>5. QED
  BY <1>3, <1>4 DEF SyncInv

LEMMA ReaderStep ==
  ASSUME SyncInv, R!Next
  PROVE  SyncInv'
<1>1. CASE R!BrokerCloses
  <2>1. UNCHANGED <<sent, line, data, readerIndex, handling, brokerSending, handled, skipped, cause>>
    BY <1>1 DEF R!BrokerCloses
  <2>2. handling' \in BOOLEAN
    BY <2>1 DEF SyncInv, ReaderTypes
  <2>3. cause' = "none" => cause = "none" /\ R!NoneLeft'
    BY <2>1 DEF SyncInv, InStep, R!NoneLeft, R!Readable, R!Current, R!Size
  <2>4. QED
    BY <2>1, <2>2, <2>3, QuietSync
<1>2. QED
  BY <1>1, PeerWritesSync, HandleSync, ResetSync, AwaitSync, RefuseSync, DispatchSync,
     TornSync, UnknownSync, ClosedSync DEF R!Next

\* However the bytes of a connection are cut into segments and whenever the
\* broker starts to close, the responder hands over every complete frame, in
\* the order of the peer and once, and reads on at the start of the next one,
\* unless a frame with a body was refused, a SETUP or REQUEST_CHANNEL was cut
\* in two, or a frame was of a type it does not know.
THEOREM FramesStayInSync == ReactiveSpec => []FramesInSync
<1>1. ASSUME ReactiveInit PROVE SyncInv
  <2>1. R!Init
    BY <1>1 DEF ReactiveInit
  <2>2. /\ sent = <<>> /\ line = <<>> /\ data = <<>> /\ readerIndex = 0 /\ handling = FALSE
        /\ brokerSending = TRUE /\ handled = <<>> /\ skipped = {}
    BY <2>1 DEF R!Init
  <2>3. ReaderTypes
    <3>1. <<>> \in Seq(Frames) /\ <<>> \in Seq(Nat \X Nat) /\ <<>> \in Seq(Nat)
      BY EmptySeq
    <3>2. QED
      BY <2>2, <3>1, FS_EmptySet DEF ReaderTypes
  <2>4. Read = 0 /\ Known = 0
    BY <2>2, FS_EmptySet DEF Read, Known
  <2>5. R!HandledInOrder
    <3>1. DOMAIN handled = {} /\ 1 .. Read = {}
      BY <2>2, <2>4
    <3>2. QED
      BY <2>2, <3>1, OrderMeans
  <2>6. UnitsSent /\ UnitsFollow /\ UnitsEnd
    BY <2>4 DEF UnitsSent, UnitsFollow, UnitsEnd
  <2>7. AtStart /\ R!NoneLeft
    BY <2>2, <2>4 DEF AtStart, R!NoneLeft
  <2>8. QED
    BY <2>3, <2>5, <2>6, <2>7 DEF SyncInv, InStep
<1>2. ASSUME SyncInv, [ReactiveNext]_<<part, vars, readerVars>>
      PROVE  SyncInv'
  <2>1. R!Next \/ UNCHANGED readerVars
    BY <1>2 DEF ReactiveNext
  <2>2. CASE UNCHANGED readerVars
    <3>1. UNCHANGED <<sent, line, data, readerIndex, handling, brokerSending, handled, skipped, cause>>
      BY <2>2 DEF readerVars
    <3>2. handling' \in BOOLEAN
      BY <1>2, <3>1 DEF SyncInv, ReaderTypes
    <3>3. cause' = "none" => cause = "none" /\ R!NoneLeft'
      BY <1>2, <3>1 DEF SyncInv, InStep, R!NoneLeft, R!Readable, R!Current, R!Size
    <3>4. QED
      BY <1>2, <3>1, <3>2, <3>3, QuietSync
  <2>3. QED
    BY <1>2, <2>1, <2>2, ReaderStep
<1>3. ASSUME SyncInv PROVE FramesInSync
  <2>1. ASSUME cause = "none" PROVE R!InStep /\ R!NoneLeft
    <3>1. ReaderTypes /\ UnitsSent /\ AtStart /\ R!NoneLeft
      BY <1>3, <2>1 DEF SyncInv, InStep
    <3>2. readerIndex < Len(data) => data[readerIndex + 1] = <<Read + 1, 1>>
      BY <3>1, CurrentIs
    <3>3. QED
      BY <3>1, <3>2 DEF R!InStep
  <2>2. QED
    BY <1>3, <2>1 DEF SyncInv, FramesInSync, R!FramesInSync
<1>4. QED
  BY <1>1, <1>2, <1>3, PTL DEF ReactiveSpec

-----------------------------------------------------------------------------
(* The flow control of the requester. *)

Item == [id : Nat, data : Seq(Nat \X Nat), last : BOOLEAN, frame : {"payload", "error", "cancel"}]
Sent == [kind : {"payload", "error", "cancel"}, data : Seq(Nat \X Nat), completed : BOOLEAN, follow : BOOLEAN]
Grant == [kind : {"request"}, count : 1 .. Infinity] \cup [kind : {"end"}, count : {0}]

FlowTypes ==
  /\ input \in Seq(Item) /\ accepted \in Seq(Item) /\ buffer \in Seq(Sent) /\ back \in Seq(Grant)
  /\ DOMAIN fragments = {"active", "left", "number", "count", "last"}
  /\ fragments.active \in BOOLEAN /\ fragments.last \in BOOLEAN /\ fragments.count \in Nat
  /\ sending \in BOOLEAN /\ thrown \in BOOLEAN /\ accepting \in BOOLEAN
  /\ granted \in Nat /\ ignored \in Nat

\* _subscription is paused exactly while there is no credit or a payload is
\* fragmented; a payload that is fragmented has credit.
Gate ==
  sending => /\ paused = 0 <=> ~fragmenting /\ requested > 0
             /\ requested >= 0 /\ (fragmenting => requested > 0)
             /\ callback # "none" => fragmenting /\ fragments.count > 0

\* A chain of fragments that outlives the requester may cost one credit more
\* than there is, once.
Overdrawn == callback # "none" => requested >= 0

\* _pending counts what is queued and buffered, and the payloads that were
\* fragmented.
PendingCounts ==
  sending => /\ pending >= Len(input) + Len(buffer)
             /\ ~fragmenting /\ fragments.count = 0 => pending = Len(input) + Len(buffer)

FlowInv ==
  FlowTypes /\ TypeOK /\ Gate /\ Overdrawn /\ PendingCounts /\ CreditsAccounted /\ HeldBack

\* Payloads that are not the last of a stream, counted.
LEMMA OrdinaryType ==
  ASSUME NEW s \in Seq(Item)
  PROVE  /\ Ordinary(s) \in Nat
         /\ IsFiniteSet({i \in DOMAIN s : ~s[i].last})
<1>1. IsFiniteSet(1 .. Len(s)) /\ DOMAIN s = 1 .. Len(s)
  BY FS_Interval
<1>2. {i \in DOMAIN s : ~s[i].last} \subseteq 1 .. Len(s)
  BY <1>1
<1>3. IsFiniteSet({i \in DOMAIN s : ~s[i].last})
  BY <1>1, <1>2, FS_Subset
<1>4. QED
  BY <1>3, FS_CardinalityType DEF Ordinary

LEMMA OrdinaryEmpty == Ordinary(<<>>) = 0
<1>1. {i \in DOMAIN <<>> : ~<<>>[i].last} = {}
  OBVIOUS
<1>2. QED
  BY <1>1, FS_EmptySet DEF Ordinary

LEMMA OrdinaryAppend ==
  ASSUME NEW s \in Seq(Item), NEW p \in Item
  PROVE  Ordinary(Append(s, p)) = IF p.last THEN Ordinary(s) ELSE Ordinary(s) + 1
<1> DEFINE A == {i \in DOMAIN s : ~s[i].last}
           B == {i \in DOMAIN Append(s, p) : ~Append(s, p)[i].last}
<1>1. PICK n \in Nat : n = Len(s) /\ DOMAIN s = 1 .. n
  OBVIOUS
<1>2. /\ DOMAIN Append(s, p) = 1 .. n + 1 /\ Append(s, p)[n + 1] = p
      /\ \A i \in 1 .. n : Append(s, p)[i] = s[i]
  BY <1>1
<1>3. 1 .. n + 1 = (1 .. n) \cup {n + 1} /\ n + 1 \notin 1 .. n
  OBVIOUS
<1>4. B = (IF p.last THEN A ELSE A \cup {n + 1}) /\ n + 1 \notin A
  BY <1>1, <1>2, <1>3
<1>5. IsFiniteSet(A) /\ Ordinary(s) = Cardinality(A) /\ Ordinary(Append(s, p)) = Cardinality(B)
  BY OrdinaryType DEF Ordinary
<1> HIDE DEF A, B
<1>6. QED
  BY <1>4, <1>5, FS_AddElement

LEMMA OrdinaryTail ==
  ASSUME NEW s \in Seq(Item), s # <<>>
  PROVE  Ordinary(Tail(s)) = IF Head(s).last THEN Ordinary(s) ELSE Ordinary(s) - 1
<1> DEFINE A == {i \in DOMAIN s : ~s[i].last}
           B == {i \in DOMAIN Tail(s) : ~Tail(s)[i].last}
           g == [i \in B |-> i + 1]
<1>1. PICK n \in Nat : n = Len(s) /\ DOMAIN s = 1 .. n /\ n > 0
  OBVIOUS
<1>2. /\ DOMAIN Tail(s) = 1 .. n - 1 /\ Head(s) = s[1]
      /\ \A i \in 1 .. n - 1 : Tail(s)[i] = s[i + 1]
  BY <1>1
<1>3. g \in Bijection(B, A \ {1})
  <2>1. B \subseteq 1 .. n - 1 /\ A \subseteq 1 .. n
    BY <1>1, <1>2
  <2>2. ASSUME NEW i \in B PROVE g[i] \in A \ {1}
    <3>1. i \in 1 .. n - 1 /\ ~s[i + 1].last
      BY <1>2, <2>2
    <3>2. i + 1 \in 1 .. n /\ i + 1 # 1
      BY <3>1
    <3>3. QED
      BY <1>1, <3>1, <3>2
  <2>3. ASSUME NEW j \in A \ {1} PROVE \E i \in B : g[i] = j
    <3>1. j \in 1 .. n /\ j # 1
      BY <2>1, <2>3
    <3>2. j - 1 \in 1 .. n - 1 /\ (j - 1) + 1 = j
      BY <3>1
    <3>3. j - 1 \in B
      BY <1>2, <2>3, <3>2
    <3>4. QED
      BY <3>2, <3>3
  <2>4. ASSUME NEW i \in B, NEW j \in B, g[i] = g[j] PROVE i = j
    BY <2>1, <2>4
  <2>5. g \in [B -> A \ {1}]
    BY <2>2
  <2> HIDE DEF g, A, B
  <2>6. QED
    BY <2>3, <2>4, <2>5 DEF Bijection, Injection, IsInjective, Surjection
<1>4. Tail(s) \in Seq(Item)
  OBVIOUS
<1>5. /\ IsFiniteSet(A) /\ Ordinary(s) = Cardinality(A)
      /\ IsFiniteSet(B) /\ Ordinary(Tail(s)) = Cardinality(B)
  BY <1>4, OrdinaryType DEF Ordinary
<1>6. 1 \in A <=> ~Head(s).last
  BY <1>1, <1>2
<1> HIDE DEF A, B, g
<1>7. Cardinality(B) = Cardinality(A \ {1})
  BY <1>3, <1>5, FS_Bijection DEF ExistsBijection
<1>8. CASE 1 \in A
  BY <1>5, <1>6, <1>7, <1>8, FS_RemoveElement
<1>9. CASE 1 \notin A
  <2>1. A \ {1} = A
    BY <1>9
  <2>2. QED
    BY <1>5, <1>6, <1>7, <1>9, <2>1
<1>10. QED
  BY <1>8, <1>9

\* A requester that does not send owes nothing.
LEMMA FlowStopped ==
  ASSUME FlowTypes', TypeOK', Overdrawn', ~sending'
  PROVE  FlowInv'
  BY DEF FlowInv, Gate, PendingCounts, CreditsAccounted, HeldBack

LEMMA FlowClosed ==
  ASSUME FlowInv, Closed, input' \in Seq(Item), back' \in Seq(Grant), paused' \in 0 .. 1, pending' \in Nat,
         callback' \in {"none", "fragmentate", "next"},
         grace' \in {"none", "waiting", "timedout", "stuck", "over"},
         UNCHANGED <<accepted, thrown, granted, ignored>>
  PROVE  FlowInv'
<1>1. /\ sending' = FALSE /\ requested' = 0 /\ buffer' = <<>> /\ accepting' = FALSE
      /\ fragments' = [fragments EXCEPT !.active = FALSE]
  BY DEF Closed
<1>2. FlowTypes'
  <2>1. /\ DOMAIN fragments' = {"active", "left", "number", "count", "last"}
        /\ fragments'.active = FALSE /\ fragments'.last = fragments.last /\ fragments'.count = fragments.count
    BY <1>1 DEF FlowInv, FlowTypes
  <2>2. <<>> \in Seq(Sent)
    BY EmptySeq
  <2>3. QED
    BY <1>1, <2>1, <2>2 DEF FlowInv, FlowTypes
<1>3. TypeOK' /\ Overdrawn'
  BY <1>1, StreamAssumption DEF TypeOK, Overdrawn
<1>4. QED
  BY <1>1, <1>2, <1>3, FlowStopped

\* A step that leaves the flow control alone.
LEMMA FlowQuiet ==
  ASSUME FlowInv,
         UNCHANGED <<input, paused, pending, requested, accepting, buffer, fragments, sending, thrown, history>>,
         callback' \in {callback, "none"}, back' \in Seq(Grant),
         grace' \in {"none", "waiting", "timedout", "stuck", "over"}
  PROVE  FlowInv'
<1>1. FlowTypes' /\ TypeOK' /\ Overdrawn'
  BY DEF FlowInv, FlowTypes, TypeOK, Overdrawn, history
<1>2. Gate' /\ PendingCounts'
  BY DEF FlowInv, Gate, PendingCounts, fragmenting
<1>3. CreditsAccounted' /\ HeldBack'
  BY DEF FlowInv, CreditsAccounted, HeldBack, Charged, Ordinary, fragmenting, history
<1>4. QED
  BY <1>1, <1>2, <1>3 DEF FlowInv

-----------------------------------------------------------------------------
(* Scheduling. *)

\* The payload that is fragmented and not yet paid for.
Unpaid == IF fragmenting /\ ~fragments.last THEN 1 ELSE 0

LEMMA ChargedIs ==
  ASSUME FlowTypes
  PROVE  /\ Charged = Ordinary(accepted) - Ordinary(input) - Unpaid
         /\ Ordinary(accepted) \in Nat /\ Ordinary(input) \in Nat /\ Unpaid \in 0 .. 1
<1>1. Charged = Ordinary(accepted) - Ordinary(input) - Unpaid
  BY DEF Charged, Unpaid
<1>2. Ordinary(accepted) \in Nat /\ Ordinary(input) \in Nat
  BY OrdinaryType DEF FlowTypes
<1>3. Unpaid \in 0 .. 1
  BY DEF Unpaid
<1>4. QED
  BY <1>1, <1>2, <1>3

LEMMA ScheduleFlow ==
  ASSUME FlowInv, NEW p \in Item, accepting, Schedule(p),
         \/ accepted' = Append(accepted, p)
         \/ p.last /\ accepted' = accepted
  PROVE  FlowInv'
<1>1. /\ input' = Append(input, p) /\ pending' = pending + 1 /\ accepting' = ~p.last
      /\ requested' = (IF p.last /\ requested # Infinity THEN requested + 1 ELSE requested)
      /\ paused' = (IF requested' > 0 /\ ~fragmenting /\ sending THEN Resumed ELSE paused)
      /\ UNCHANGED <<buffer, fragments, callback, thrown, sending, grace, back, granted, ignored>>
  BY DEF Schedule, fragmentVars, closeVars, netVars
<1>2. FlowTypes /\ TypeOK /\ Gate /\ Overdrawn /\ PendingCounts /\ CreditsAccounted
  BY DEF FlowInv
<1>3. p.last \in BOOLEAN /\ Infinity \in Nat /\ Infinity > 0
  BY StreamAssumption DEF Item
<1>4. /\ requested \in Int /\ requested' \in -1 .. Infinity /\ requested <= requested'
      /\ (requested = Infinity => requested' = Infinity)
  BY <1>1, <1>2, <1>3 DEF TypeOK
<1>5. paused \in 0 .. 1 /\ paused' \in 0 .. 1 /\ Resumed = 0 /\ pending' \in Nat
  BY <1>1, <1>2 DEF TypeOK, Resumed
<1>6. /\ input' \in Seq(Item) /\ Len(input') = Len(input) + 1 /\ Len(input) \in Nat /\ Len(buffer) \in Nat
      /\ accepted' \in Seq(Item) /\ input' # <<>>
  <2>1. input \in Seq(Item) /\ accepted \in Seq(Item) /\ Len(input) \in Nat /\ Len(buffer) \in Nat
    BY <1>2 DEF FlowTypes
  <2>2. input' \in Seq(Item) /\ Len(input') = Len(input) + 1 /\ input' # <<>>
    BY <1>1, <2>1
  <2>3. accepted' \in Seq(Item)
    BY <2>1
  <2>4. QED
    BY <2>1, <2>2, <2>3
<1>7. FlowTypes'
  BY <1>1, <1>2, <1>3, <1>6 DEF FlowTypes
<1>8. TypeOK' /\ Overdrawn'
  BY <1>1, <1>2, <1>4, <1>5 DEF TypeOK, Overdrawn
<1>9. fragmenting' = fragmenting /\ Unpaid' = Unpaid
  BY <1>1 DEF fragmenting, Unpaid
<1>10. Gate'
  BY <1>1, <1>2, <1>4, <1>5, <1>9 DEF Gate
<1>11. PendingCounts'
  <2>1. pending \in Nat
    BY <1>2 DEF TypeOK
  <2>2. QED
    BY <1>1, <1>2, <1>6, <1>9, <2>1 DEF PendingCounts
<1>12. HeldBack'
  BY <1>6 DEF HeldBack
<1>13. CreditsAccounted'
  <2>1. SUFFICES ASSUME sending, ~thrown, requested' # Infinity
                 PROVE  /\ requested' + Charged' - (granted - ignored) \in 0 .. 1
                        /\ accepting' => requested' + Charged' = granted - ignored
    BY <1>1 DEF CreditsAccounted
  <2>2. requested + Charged = granted - ignored /\ requested # Infinity
    BY <1>2, <1>4, <2>1 DEF CreditsAccounted
  <2>3. Ordinary(input') = IF p.last THEN Ordinary(input) ELSE Ordinary(input) + 1
    BY <1>1, <1>2, OrdinaryAppend DEF FlowTypes
  <2>4. Ordinary(accepted') = IF p.last THEN Ordinary(accepted) ELSE Ordinary(accepted) + 1
    BY <1>1, <1>2, OrdinaryAppend DEF FlowTypes
  <2>5. /\ Charged = Ordinary(accepted) - Ordinary(input) - Unpaid
        /\ Charged' = Ordinary(accepted') - Ordinary(input') - Unpaid'
        /\ Ordinary(accepted) \in Nat /\ Ordinary(input) \in Nat /\ Unpaid \in 0 .. 1
    BY <1>2, <1>7, ChargedIs DEF Charged, Unpaid
  <2>6. Charged' = Charged /\ Charged \in Int
    BY <1>9, <2>3, <2>4, <2>5
  <2>7. granted - ignored \in Int
    BY <1>2 DEF FlowTypes
  <2>8. PICK q \in Int, c \in Int, g \in Int : q = requested /\ c = Charged /\ g = granted - ignored
    BY <1>4, <2>6, <2>7
  <2>9. q + c = g
    BY <2>2, <2>8
  <2>10. requested' = IF p.last THEN q + 1 ELSE q
    BY <1>1, <2>2, <2>8
  <2>11. requested' + c - g \in 0 .. 1 /\ (~p.last => requested' + c = g)
    <3>1. CASE p.last
      BY <2>9, <2>10, <3>1
    <3>2. CASE ~p.last
      BY <2>9, <2>10, <3>2
    <3>3. QED
      BY <3>1, <3>2
  <2>12. QED
    BY <1>1, <2>6, <2>8, <2>11
<1>14. QED
  BY <1>7, <1>8, <1>10, <1>11, <1>12, <1>13 DEF FlowInv

WantedOK == wanted \in Seq(Item)

\* A payload that is scheduled.
LEMMA PayloadIs ==
  ASSUME WantedOK, NEW size \in UNION Range(Sizes), NEW complete \in BOOLEAN
  PROVE  /\ size \in Nat /\ Payload(Len(wanted) + 1, size, complete) \in Item
<1>1. size \in Nat
  BY StreamAssumption DEF Range
<1>2. PICK n \in Nat : n = Len(wanted) + 1
  BY DEF WantedOK
<1>3. [i \in 1 .. size |-> <<n, i>>] \in Seq(Nat \X Nat)
  <2>1. \A i \in 1 .. size : <<n, i>> \in Nat \X Nat
    BY <1>1
  <2>2. QED
    BY <1>1, <2>1
<1>4. QED
  BY <1>1, <1>2, <1>3 DEF Payload, Item

LEMMA WantedTypes == ReactiveSpec => []WantedOK
<1>1. ReactiveInit => WantedOK
  BY EmptySeq DEF WantedOK, ReactiveInit, Init
<1>2. ASSUME WantedOK, [ReactiveNext]_<<part, vars, readerVars>>
      PROVE  WantedOK'
  <2>1. CASE UNCHANGED wanted
    BY <1>2, <2>1 DEF WantedOK
  <2>2. ASSUME NEW size \in UNION Range(Sizes), NEW complete \in BOOLEAN, SchedulePayload(size, complete)
        PROVE  WantedOK'
    <3>1. PICK p \in Item : p = Payload(Len(wanted) + 1, size, complete)
      BY <1>2, PayloadIs
    <3>2. wanted' = wanted \/ wanted' = Append(wanted, p)
      BY <2>2, <3>1 DEF SchedulePayload
    <3>3. QED
      BY <1>2, <3>1, <3>2 DEF WantedOK
  <2>3. CASE Next
    <3>1. CASE Send \/ WriteDone
      BY <2>1, <3>1 DEF Send, WriteDone, history
    <3>2. CASE Close \/ CloseGracefully \/ Timeout \/ CloseEnds \/ Break \/ HandleBack \/ Receive \/ EndByPeer
      BY <2>1, <3>2 DEF Close, CloseGracefully, Timeout, CloseEnds, Break, HandleBack, Receive, EndByPeer, history
    <3>3. CASE \E count \in Grants : Request(count)
      BY <2>1, <3>3 DEF Request, history
    <3>4. CASE \E kind \in {"error", "cancel"} : ScheduleControl(kind)
      BY <2>1, <3>4 DEF ScheduleControl
    <3>5. QED
      BY <2>2, <2>3, <3>1, <3>2, <3>3, <3>4 DEF Next
  <2>4. QED
    <3>1. Next \/ UNCHANGED wanted
      BY <1>2 DEF ReactiveNext, vars, history
    <3>2. QED
      BY <2>1, <2>3, <3>1
<1>3. QED
  BY <1>1, <1>2, PTL DEF ReactiveSpec

LEMMA SchedulesFlow ==
  ASSUME FlowInv, WantedOK,
         \/ \E size \in UNION Range(Sizes), complete \in BOOLEAN : SchedulePayload(size, complete)
         \/ \E kind \in {"error", "cancel"} : ScheduleControl(kind)
  PROVE  FlowInv'
<1>1. ASSUME NEW size \in UNION Range(Sizes), NEW complete \in BOOLEAN, SchedulePayload(size, complete)
      PROVE  FlowInv'
  <2>1. PICK p \in Item : p = Payload(Len(wanted) + 1, size, complete)
    BY <1>1, PayloadIs
  <2>2. accepting /\ accepted' = Append(accepted, p) /\ Schedule(p)
    BY <1>1, <2>1 DEF SchedulePayload
  <2>3. QED
    BY <2>1, <2>2, ScheduleFlow
<1>2. ASSUME NEW kind \in {"error", "cancel"}, ScheduleControl(kind)
      PROVE  FlowInv'
  <2>1. PICK p : p = ControlFrame(kind)
    OBVIOUS
  <2>2. accepting /\ accepted' = accepted /\ Schedule(p)
    BY <1>2, <2>1 DEF ScheduleControl
  <2>3. <<>> \in Seq(Nat \X Nat)
    BY EmptySeq
  <2>4. p \in Item /\ p.last
    BY <2>1, <2>3 DEF ControlFrame, Item
  <2>5. QED
    BY <2>2, <2>4, ScheduleFlow
<1>3. QED
  BY <1>1, <1>2

-----------------------------------------------------------------------------
(* Sending. *)

\* The effect of Write, Await and the next batch on the flow control.
LEMMA FragmentateIs ==
  ASSUME NEW chain, fragmentate(chain),
         DOMAIN chain = {"active", "left", "number", "count", "last"}
  PROVE  /\ callback' \in {"none", "next"} /\ buffer' = <<>> /\ pending' = pending
         /\ DOMAIN fragments' = {"active", "left", "number", "count", "last"}
         /\ fragments'.active = chain.active /\ fragments'.last = chain.last
         /\ fragments'.count = chain.count
<1>1. callback' \in {"none", "next"} /\ buffer' = <<>> /\ pending' = pending
  BY DEF fragmentate, Await
<1>2. PICK l, n : fragments' = [chain EXCEPT !.left = l, !.number = n]
  BY DEF fragmentate
<1>3. QED
  BY <1>1, <1>2

LEMMA ChainIs ==
  ASSUME NEW s \in Seq(Nat \X Nat), Len(s) > FrameMaxSize, Divides(s)
  PROVE  Len(disassemble(s)) \in Nat \ {0}
<1>1. PICK n \in Nat, f \in Nat : n = Len(s) /\ f = FragmentSize /\ f > 0
  BY StreamAssumption
<1>2. n > 0 /\ n % f = 0
  BY <1>1, StreamAssumption DEF Divides
<1>3. n \div f \in Nat /\ n \div f # 0
  <2>1. PICK q \in Int : q = n \div f
    BY <1>1
  <2>2. n = f * q + 0 /\ f * q = q * f
    BY <1>1, <1>2, <2>1
  <2>3. q # 0
    BY <1>2, <2>2
  <2>4. q >= 0
    BY <1>1, <1>2, <2>1
  <2>5. QED
    BY <2>1, <2>3, <2>4
<1>4. disassemble(s) = [i \in 1 .. n \div f |-> SubSeq(s, ((i - 1) * f) + 1, i * f)]
  BY <1>1 DEF disassemble
<1>5. Len(disassemble(s)) = n \div f
  BY <1>3, <1>4
<1>6. QED
  BY <1>3, <1>5

\* What is known of the payload that is sent next.
LEMMA SendIs ==
  ASSUME FlowInv, Send
  PROVE  /\ FlowTypes /\ TypeOK /\ Gate /\ Overdrawn /\ PendingCounts /\ CreditsAccounted /\ HeldBack
         /\ input # <<>> /\ paused = 0 /\ input' = Tail(input) /\ input' \in Seq(Item)
         /\ Head(input) \in Item /\ Len(input) \in Nat /\ Len(input') = Len(input) - 1
         /\ Len(Head(input).data) \in Nat /\ Head(input).last \in BOOLEAN
         /\ Len(buffer) \in Nat /\ requested \in Int /\ pending \in Nat
         /\ sending => requested > 0 /\ ~fragmenting /\ callback = "none"
         /\ UNCHANGED <<back, accepted, granted, ignored>>
<1>1. FlowTypes /\ TypeOK /\ Gate /\ Overdrawn /\ PendingCounts /\ CreditsAccounted /\ HeldBack
  BY DEF FlowInv
<1>2. input # <<>> /\ paused = 0 /\ input' = Tail(input) /\ UNCHANGED <<back, accepted, granted, ignored>>
  BY DEF Send, history
<1>3. /\ input \in Seq(Item) /\ Len(buffer) \in Nat /\ Len(input) \in Nat
  BY <1>1 DEF FlowTypes
<1>4. Head(input) \in Item /\ input' \in Seq(Item) /\ Len(input') = Len(input) - 1
  BY <1>2, <1>3
<1>5. Head(input).last \in BOOLEAN /\ Head(input).data \in Seq(Nat \X Nat)
  BY <1>4 DEF Item
<1>6. Len(Head(input).data) \in Nat
  BY <1>5
<1>7. requested \in Int /\ pending \in Nat
  BY <1>1, StreamAssumption DEF TypeOK
<1>8. sending => requested > 0 /\ ~fragmenting /\ callback = "none"
  BY <1>1, <1>2 DEF Gate
<1>9. QED
  BY <1>1, <1>2, <1>3, <1>4, <1>5, <1>6, <1>7, <1>8

\* A requester that was stopped drops what is queued.
LEMMA DropFlow ==
  ASSUME FlowInv, Send, ~sending
  PROVE  FlowInv'
<1>1. /\ FlowTypes /\ TypeOK /\ Overdrawn /\ input' \in Seq(Item)
      /\ UNCHANGED <<back, accepted, granted, ignored>>
  BY SendIs
<1>2. UNCHANGED <<paused, pending, requested, accepting, buffer, fragments, callback, thrown, sending, grace>>
  BY DEF Send, fragmentVars, closeVars
<1>3. FlowTypes' /\ TypeOK' /\ Overdrawn' /\ ~sending'
  BY <1>1, <1>2 DEF FlowTypes, TypeOK, Overdrawn
<1>4. QED
  BY <1>3, FlowStopped

LEMMA SendLastFlow ==
  ASSUME FlowInv, Send, SendLast(Head(input))
  PROVE  FlowInv'
<1>1. /\ FlowTypes /\ TypeOK /\ input' \in Seq(Item)
      /\ UNCHANGED <<back, accepted, granted, ignored>>
  BY SendIs
<1>2. Closed /\ UNCHANGED <<paused, pending, callback, thrown, grace>>
  BY DEF SendLast
<1>3. /\ back' \in Seq(Grant) /\ paused' \in 0 .. 1 /\ pending' \in Nat
      /\ callback' \in {"none", "fragmentate", "next"}
      /\ grace' \in {"none", "waiting", "timedout", "stuck", "over"}
  BY <1>1, <1>2 DEF FlowTypes, TypeOK
<1>4. QED
  BY <1>1, <1>2, <1>3, FlowClosed

\* The queue gives up one payload, which is fragmented or costs a credit.
LEMMA SendFragmentedFlow ==
  ASSUME FlowInv, Send, sending, SendFragmented(Head(input))
  PROVE  FlowInv'
<1>1. PICK p \in Item : p = Head(input)
  BY SendIs
<1>2. /\ Len(p.data) > FrameMaxSize /\ paused' = paused + 1
      /\ thrown' = (thrown \/ ~Divides(p.data))
      /\ UNCHANGED <<requested, accepting, sending, grace>>
  BY <1>1 DEF SendFragmented, closeVars
<1>3. /\ FlowTypes /\ TypeOK /\ Gate /\ PendingCounts /\ CreditsAccounted
      /\ input # <<>> /\ input' \in Seq(Item) /\ input' = Tail(input) /\ paused = 0
      /\ Len(input) \in Nat /\ Len(input') = Len(input) - 1
      /\ Len(buffer) \in Nat /\ requested \in Int /\ pending \in Nat
      /\ requested > 0 /\ ~fragmenting /\ callback = "none"
      /\ UNCHANGED <<back, accepted, granted, ignored>>
  BY SendIs
<1>4. /\ p.data \in Seq(Nat \X Nat) /\ p.last \in BOOLEAN
  BY DEF Item
<1>5. /\ DOMAIN fragments' = {"active", "left", "number", "count", "last"}
      /\ fragments'.active = TRUE /\ fragments'.last \in BOOLEAN /\ fragments'.count \in Nat
      /\ Divides(p.data) => fragments'.last = p.last
      /\ callback' \in {"none", "fragmentate", "next"} /\ (callback' # "none" => fragments'.count > 0)
      /\ buffer' \in Seq(Sent) /\ pending' \in Nat /\ pending' >= Len(input') + Len(buffer')
  <2>1. pending >= Len(input) + Len(buffer) /\ <<>> \in Seq(Sent) /\ Len(<<>>) = 0
    BY <1>3, EmptySeq DEF PendingCounts
  <2>2. CASE ~Divides(p.data)
    <3>1. fragments' = [fragments EXCEPT !.active = TRUE] /\ UNCHANGED <<callback, pending, buffer>>
      BY <1>1, <2>2 DEF SendFragmented
    <3>2. QED
      BY <1>3, <2>1, <2>2, <3>1 DEF FlowTypes, TypeOK
  <2>3. CASE Divides(p.data)
    <3>1. PICK all, chain :
            /\ all = disassemble(p.data)
            /\ chain = [active |-> TRUE, left |-> all, number |-> 0, count |-> Len(all), last |-> p.last]
            /\ \/ buffer = <<>> /\ fragmentate(chain)
               \/ /\ buffer # <<>> /\ fragments' = chain
                  /\ Await("fragmentate")
                  /\ pending' = pending - Len(buffer) /\ buffer' = <<>>
      BY <1>1, <2>3 DEF SendFragmented
    <3>2. Len(all) \in Nat \ {0}
      BY <1>2, <1>4, <2>3, <3>1, ChainIs
    <3>3. /\ DOMAIN chain = {"active", "left", "number", "count", "last"}
          /\ chain.active = TRUE /\ chain.last = p.last /\ chain.count \in Nat /\ chain.count > 0
      BY <3>1, <3>2
    <3>4. CASE buffer = <<>> /\ fragmentate(chain)
      <4>1. /\ callback' \in {"none", "next"} /\ buffer' = <<>> /\ pending' = pending
            /\ DOMAIN fragments' = {"active", "left", "number", "count", "last"}
            /\ fragments'.active = chain.active /\ fragments'.last = chain.last
            /\ fragments'.count = chain.count
        BY <3>3, <3>4, FragmentateIs
      <4>2. QED
        BY <1>3, <1>4, <2>1, <3>3, <4>1
    <3>5. CASE /\ buffer # <<>> /\ fragments' = chain
               /\ Await("fragmentate")
               /\ pending' = pending - Len(buffer) /\ buffer' = <<>>
      <4>1. callback' \in {"none", "fragmentate"}
        BY <3>5 DEF Await
      <4>2. pending' \in Nat /\ pending' >= Len(input') + 0
        BY <1>3, <2>1, <3>5
      <4>3. QED
        BY <1>4, <2>1, <3>3, <3>5, <4>1, <4>2
    <3>6. QED
      BY <3>1, <3>4, <3>5
  <2>4. QED
    BY <2>2, <2>3
<1>6. FlowTypes'
  <2>1. thrown' \in BOOLEAN
    BY <1>2, <1>3 DEF FlowTypes
  <2>2. QED
    BY <1>2, <1>3, <1>5, <2>1 DEF FlowTypes
<1>7. TypeOK' /\ Overdrawn'
  BY <1>2, <1>3, <1>5 DEF TypeOK, Overdrawn
<1>8. fragmenting' /\ Gate'
  BY <1>2, <1>3, <1>5 DEF fragmenting, Gate
<1>9. PendingCounts' /\ HeldBack'
  BY <1>5, <1>8 DEF PendingCounts, HeldBack
<1>10. CreditsAccounted'
  <2>1. SUFFICES ASSUME ~thrown, Divides(p.data), requested # Infinity
                 PROVE  Charged' = Charged
    BY <1>2, <1>3 DEF CreditsAccounted
  <2>2. Ordinary(input') = IF p.last THEN Ordinary(input) ELSE Ordinary(input) - 1
    BY <1>1, <1>3, OrdinaryTail DEF FlowTypes
  <2>3. Unpaid = 0 /\ Unpaid' = IF p.last THEN 0 ELSE 1
    BY <1>3, <1>5, <1>8, <2>1 DEF Unpaid
  <2>4. /\ Charged = Ordinary(accepted) - Ordinary(input) - Unpaid
        /\ Charged' = Ordinary(accepted) - Ordinary(input') - Unpaid'
        /\ Ordinary(accepted) \in Nat /\ Ordinary(input) \in Nat
    BY <1>3, ChargedIs DEF Charged, Unpaid
  <2>5. QED
    BY <2>2, <2>3, <2>4
<1>11. QED
  BY <1>6, <1>7, <1>8, <1>9, <1>10 DEF FlowInv

LEMMA SendNextFlow ==
  ASSUME FlowInv, Send, sending, SendNext(Head(input))
  PROVE  FlowInv'
<1>1. PICK p \in Item : p = Head(input)
  BY SendIs
<1>2. PICK frames, credit :
        /\ frames = Append(buffer, Frame(p))
        /\ credit = (IF requested = Infinity THEN Infinity ELSE requested - 1)
        /\ requested' = credit
        /\ paused' = (IF credit = 0 THEN paused + 1 ELSE paused)
        /\ \/ /\ Flushes(frames, credit) /\ pending' = pending - Len(frames) /\ buffer' = <<>>
           \/ ~Flushes(frames, credit) /\ buffer' = frames /\ UNCHANGED pending
  BY <1>1 DEF SendNext
<1>3. ~p.last /\ UNCHANGED <<accepting, fragments, callback, thrown, sending, grace>>
  BY <1>1 DEF SendNext, fragmentVars, closeVars
<1>4. /\ FlowTypes /\ TypeOK /\ Gate /\ PendingCounts /\ CreditsAccounted
      /\ input # <<>> /\ input' \in Seq(Item) /\ input' = Tail(input) /\ paused = 0
      /\ Len(input) \in Nat /\ Len(input') = Len(input) - 1
      /\ Len(buffer) \in Nat /\ requested \in Int /\ pending \in Nat
      /\ requested > 0 /\ ~fragmenting /\ callback = "none"
      /\ UNCHANGED <<back, accepted, granted, ignored>>
  BY SendIs
<1>5. frames \in Seq(Sent) /\ Len(frames) = Len(buffer) + 1
  <2>1. /\ p.data \in Seq(Nat \X Nat) /\ p.last \in BOOLEAN /\ p.frame \in {"payload", "error", "cancel"}
    BY DEF Item
  <2>2. <<>> \in Seq(Nat \X Nat)
    BY EmptySeq
  <2>3. Frame(p) \in Sent
    BY <2>1, <2>2 DEF Frame, writePayloadFrame, Sent
  <2>4. QED
    BY <1>2, <1>4, <2>3 DEF FlowTypes
<1>6. Infinity \in Nat /\ Infinity > 0 /\ requested <= Infinity
  BY <1>4, StreamAssumption DEF TypeOK
<1>7. /\ requested' \in 0 .. Infinity /\ paused' \in 0 .. 1
      /\ paused' = 0 <=> requested' > 0
      /\ (requested' # Infinity => requested # Infinity /\ requested' = requested - 1)
  BY <1>2, <1>4, <1>6
<1>8. /\ buffer' \in Seq(Sent) /\ pending' \in Nat
      /\ pending' >= Len(input') + Len(buffer')
      /\ fragments.count = 0 => pending' = Len(input') + Len(buffer') /\ (buffer' # <<>> => input' # <<>>)
  <2>1. /\ pending >= Len(input) + Len(buffer)
        /\ fragments.count = 0 => pending = Len(input) + Len(buffer)
    BY <1>4 DEF PendingCounts
  <2>2. <<>> \in Seq(Sent) /\ Len(<<>>) = 0
    BY EmptySeq
  <2>3. CASE pending' = pending - Len(frames) /\ buffer' = <<>>
    BY <1>4, <1>5, <2>1, <2>2, <2>3
  <2>4. CASE ~Flushes(frames, credit) /\ buffer' = frames /\ UNCHANGED pending
    <3>1. pending - Len(frames) # 0
      BY <2>4 DEF Flushes
    <3>2. pending' >= Len(input') + Len(buffer') /\ (fragments.count = 0 => pending' = Len(input') + Len(buffer'))
      BY <1>4, <1>5, <2>1, <2>4
    <3>3. fragments.count = 0 => Len(input') # 0
      BY <1>4, <1>5, <2>1, <3>1
    <3>4. Len(input') # 0 => input' # <<>>
      BY <2>2
    <3>5. QED
      BY <1>4, <1>5, <2>4, <3>2, <3>3, <3>4
  <2>5. QED
    BY <1>2, <2>3, <2>4
<1>9. FlowTypes'
  BY <1>3, <1>4, <1>8 DEF FlowTypes
<1>10. TypeOK' /\ Overdrawn'
  BY <1>3, <1>4, <1>7, <1>8 DEF TypeOK, Overdrawn
<1>11. ~fragmenting' /\ fragments'.count = fragments.count
  BY <1>3, <1>4 DEF fragmenting
<1>12. Gate'
  BY <1>3, <1>4, <1>7, <1>11 DEF Gate
<1>13. PendingCounts' /\ HeldBack'
  <2>1. fragments.count \in Nat
    BY <1>4 DEF FlowTypes
  <2>2. QED
    BY <1>8, <1>11, <2>1 DEF PendingCounts, HeldBack
<1>14. CreditsAccounted'
  <2>1. SUFFICES ASSUME ~thrown, requested' # Infinity
                 PROVE  Charged' = Charged + 1 /\ Charged \in Int
    <3>1. PICK q \in Int, g \in Int : q = requested /\ g = granted - ignored
      BY <1>4 DEF FlowTypes
    <3>2. SUFFICES ASSUME ~thrown, requested' # Infinity
                   PROVE  /\ requested' + Charged' - g \in 0 .. 1
                          /\ accepting => requested' + Charged' = g
      BY <1>3, <1>4, <3>1 DEF CreditsAccounted
    <3>3. q + Charged - g \in 0 .. 1 /\ (accepting => q + Charged = g) /\ requested' = q - 1
      BY <1>4, <1>7, <3>1, <3>2 DEF CreditsAccounted
    <3>4. PICK c \in Int : c = Charged /\ Charged' = c + 1
      BY <2>1, <3>2
    <3>5. q + c - g \in 0 .. 1 /\ (accepting => q + c = g)
      BY <3>3, <3>4
    <3>6. (q - 1) + (c + 1) - g \in 0 .. 1 /\ (accepting => (q - 1) + (c + 1) = g)
      BY <3>5
    <3>7. QED
      BY <3>3, <3>4, <3>6
  <2>2. Ordinary(input') = Ordinary(input) - 1
    BY <1>1, <1>3, <1>4, OrdinaryTail DEF FlowTypes
  <2>3. Unpaid = 0 /\ Unpaid' = 0
    BY <1>4, <1>11 DEF Unpaid
  <2>4. /\ Charged = Ordinary(accepted) - Ordinary(input) - Unpaid
        /\ Charged' = Ordinary(accepted) - Ordinary(input') - Unpaid'
        /\ Ordinary(accepted) \in Nat /\ Ordinary(input) \in Nat
    BY <1>4, ChargedIs DEF Charged, Unpaid
  <2>5. QED
    BY <2>2, <2>3, <2>4
<1>15. QED
  BY <1>9, <1>10, <1>12, <1>13, <1>14 DEF FlowInv

LEMMA SendFlow ==
  ASSUME FlowInv, Send
  PROVE  FlowInv'
<1>1. CASE ~sending
  BY <1>1, DropFlow
<1>2. CASE sending
  <2>1. SendFragmented(Head(input)) \/ SendLast(Head(input)) \/ SendNext(Head(input))
    BY <1>2 DEF Send
  <2>2. QED
    BY <1>2, <2>1, SendFragmentedFlow, SendLastFlow, SendNextFlow
<1>3. QED
  BY <1>1, <1>2 DEF FlowInv, FlowTypes

-----------------------------------------------------------------------------
(* The chain of fragments goes on or ends. *)

\* The next batch of the chain that is under way.
LEMMA BatchFlow ==
  ASSUME FlowInv, callback # "none", fragmentate(fragments),
         UNCHANGED <<input, paused, requested, accepting, sending, grace, thrown, back, history>>
  PROVE  FlowInv'
<1>1. FlowTypes /\ TypeOK /\ Gate /\ Overdrawn /\ PendingCounts /\ CreditsAccounted
  BY DEF FlowInv
<1>2. UNCHANGED <<accepted, granted, ignored>>
  BY DEF history
<1>3. /\ callback' \in {"none", "next"} /\ buffer' = <<>> /\ pending' = pending
      /\ DOMAIN fragments' = {"active", "left", "number", "count", "last"}
      /\ fragments'.active = fragments.active /\ fragments'.last = fragments.last
      /\ fragments'.count = fragments.count
  BY <1>1, FragmentateIs DEF FlowTypes
<1>4. <<>> \in Seq(Sent) /\ Len(<<>>) = 0
  BY EmptySeq
<1>5. FlowTypes'
  BY <1>1, <1>2, <1>3, <1>4 DEF FlowTypes
<1>6. TypeOK' /\ Overdrawn'
  BY <1>1, <1>3 DEF TypeOK, Overdrawn
<1>7. fragmenting' = fragmenting /\ Unpaid' = Unpaid
  BY <1>3 DEF fragmenting, Unpaid
<1>8. Gate'
  BY <1>1, <1>3, <1>7 DEF Gate
<1>9. PendingCounts' /\ HeldBack'
  <2>1. sending => fragmenting /\ pending >= Len(input) + Len(buffer)
    BY <1>1 DEF Gate, PendingCounts
  <2>2. Len(input) \in Nat /\ Len(buffer) \in Nat /\ pending \in Nat
    BY <1>1 DEF FlowTypes, TypeOK
  <2>3. sending => pending' >= Len(input') + Len(buffer')
    BY <1>3, <1>4, <2>1, <2>2
  <2>4. QED
    BY <1>7, <2>1, <2>3 DEF PendingCounts, HeldBack
<1>10. CreditsAccounted'
  <2>1. Charged' = Charged
    BY <1>2, <1>7 DEF Charged, Unpaid
  <2>2. QED
    BY <1>1, <1>2, <2>1 DEF CreditsAccounted
<1>11. QED
  BY <1>5, <1>6, <1>8, <1>9, <1>10 DEF FlowInv

\* The chain is written: its payload is paid for.
LEMMA ContinueFlow ==
  ASSUME FlowInv, callback # "none", callback' = "none", ~fragments.last, Continue,
         UNCHANGED <<input, pending, accepting, buffer, sending, grace, thrown, back, history>>
  PROVE  FlowInv'
<1>1. FlowTypes /\ TypeOK /\ Gate /\ Overdrawn /\ PendingCounts /\ CreditsAccounted
  BY DEF FlowInv
<1>2. UNCHANGED <<accepted, granted, ignored>>
  BY DEF history
<1>3. /\ fragments' = [fragments EXCEPT !.active = FALSE]
      /\ requested' = (IF requested = Infinity THEN requested ELSE requested - 1)
      /\ paused' = (IF requested' > 0 THEN Resumed ELSE paused)
  BY DEF Continue
<1>4. /\ DOMAIN fragments' = {"active", "left", "number", "count", "last"}
      /\ fragments'.active = FALSE /\ fragments'.last = fragments.last
      /\ fragments'.count = fragments.count
  BY <1>1, <1>3 DEF FlowTypes
<1>5. /\ requested \in 0 .. Infinity /\ Infinity \in Nat /\ Infinity > 0
      /\ paused \in 0 .. 1
  BY <1>1, StreamAssumption DEF TypeOK, Overdrawn
<1>6. /\ requested' \in -1 .. Infinity /\ paused' \in 0 .. 1 /\ (requested' > 0 => paused' = 0)
      /\ (requested' <= 0 => paused' = paused)
  BY <1>3, <1>5 DEF Resumed
<1>7. FlowTypes'
  BY <1>1, <1>2, <1>4 DEF FlowTypes
<1>8. TypeOK' /\ Overdrawn'
  BY <1>1, <1>6 DEF TypeOK, Overdrawn
<1>9. CASE ~sending
  BY <1>7, <1>8, <1>9, FlowStopped
<1>10. CASE sending
  <2>1. fragmenting /\ fragments.count > 0 /\ requested > 0 /\ paused # 0
    BY <1>1, <1>10 DEF Gate
  <2>2. ~fragmenting'
    BY <1>4 DEF fragmenting
  <2>3. Gate'
    BY <1>3, <1>5, <1>6, <2>1, <2>2 DEF Gate
  <2>4. PendingCounts' /\ HeldBack'
    <3>1. fragments.count # 0
      BY <1>1, <2>1 DEF FlowTypes
    <3>2. QED
      BY <1>1, <1>4, <1>10, <2>1, <3>1 DEF PendingCounts, HeldBack
  <2>5. CreditsAccounted'
    <3>1. PICK q \in Int, g \in Int : q = requested /\ g = granted - ignored
      BY <1>1, <1>5 DEF FlowTypes
    <3>2. SUFFICES ASSUME ~thrown, requested' # Infinity
                   PROVE  /\ requested' + Charged' - g \in 0 .. 1
                          /\ accepting => requested' + Charged' = g
      BY <1>2, <3>1 DEF CreditsAccounted
    <3>3. q + Charged - g \in 0 .. 1 /\ (accepting => q + Charged = g) /\ requested' = q - 1
      BY <1>1, <1>3, <1>10, <3>1, <3>2 DEF CreditsAccounted
    <3>4. Unpaid = 1 /\ Unpaid' = 0
      BY <2>1, <2>2 DEF Unpaid
    <3>5. /\ Charged = Ordinary(accepted) - Ordinary(input) - Unpaid
          /\ Charged' = Ordinary(accepted) - Ordinary(input) - Unpaid'
          /\ Ordinary(accepted) \in Nat /\ Ordinary(input) \in Nat
      BY <1>1, <1>2, ChargedIs DEF Charged, Unpaid
    <3>6. Charged \in Int /\ Charged' = Charged + 1
      BY <3>4, <3>5
    <3>7. PICK c \in Int : c = Charged /\ Charged' = c + 1
      BY <3>6
    <3>8. q + c - g \in 0 .. 1 /\ (accepting => q + c = g)
      BY <3>3, <3>7
    <3>9. (q - 1) + (c + 1) - g \in 0 .. 1 /\ (accepting => (q - 1) + (c + 1) = g)
      BY <3>8
    <3>10. QED
      BY <3>3, <3>7, <3>9
  <2>6. QED
    BY <1>7, <1>8, <2>3, <2>4, <2>5 DEF FlowInv
<1>11. QED
  BY <1>9, <1>10

LEMMA WriteDoneFlow ==
  ASSUME FlowInv, WriteDone
  PROVE  FlowInv'
<1>1. UNCHANGED <<input, thrown, back, history>> /\ callback # "none"
  BY DEF WriteDone
<1>2. CASE fragmentate(fragments) /\ UNCHANGED <<paused, requested, accepting, closeVars>>
  BY <1>1, <1>2, BatchFlow DEF closeVars
<1>3. CASE callback' = "none" /\ Closed /\ UNCHANGED <<paused, grace, pending>>
  <2>1. UNCHANGED <<accepted, granted, ignored>>
    BY <1>1 DEF history
  <2>2. /\ input' \in Seq(Item) /\ back' \in Seq(Grant) /\ paused' \in 0 .. 1 /\ pending' \in Nat
        /\ grace' \in {"none", "waiting", "timedout", "stuck", "over"}
    BY <1>1, <1>3 DEF FlowInv, FlowTypes, TypeOK
  <2>3. QED
    BY <1>1, <1>3, <2>1, <2>2, FlowClosed
<1>4. CASE callback' = "none" /\ ~fragments.last /\ Continue /\ UNCHANGED <<accepting, buffer, closeVars, pending>>
  BY <1>1, <1>4, ContinueFlow DEF closeVars
<1>5. QED
  BY <1>2, <1>3, <1>4 DEF WriteDone, fragmentateNext

-----------------------------------------------------------------------------
(* Closing, and the frames of the peer. *)

LEMMA CloseFlow ==
  ASSUME FlowInv, Close \/ CloseEnds \/ (Break /\ grace = "none")
  PROVE  FlowInv'
<1>1. /\ Closed /\ grace' = "over" /\ callback' \in {callback, "none"}
      /\ UNCHANGED <<input, paused, pending, thrown, history>>
  BY DEF Close, CloseEnds, Break
<1>2. back' \in Seq(Grant)
  <2>1. back' = back \/ back' = <<>>
    BY DEF Close, CloseEnds, Break, netVars
  <2>2. QED
    BY <2>1, EmptySeq DEF FlowInv, FlowTypes
<1>3. UNCHANGED <<accepted, granted, ignored>>
  BY <1>1 DEF history
<1>4. input' \in Seq(Item) /\ paused' \in 0 .. 1 /\ pending' \in Nat /\ callback' \in {"none", "fragmentate", "next"}
  BY <1>1 DEF FlowInv, FlowTypes, TypeOK
<1>5. QED
  BY <1>1, <1>2, <1>3, <1>4, FlowClosed

LEMMA BreakFlow ==
  ASSUME FlowInv, Break, grace # "none"
  PROVE  FlowInv'
<1>1. UNCHANGED <<input, paused, pending, requested, accepting, buffer, fragments, sending, thrown, history, grace>>
  BY DEF Break, closeVars
<1>2. callback' = "none" /\ back' = <<>>
  BY DEF Break
<1>3. back' \in Seq(Grant)
  BY <1>2, EmptySeq
<1>4. grace' \in {"none", "waiting", "timedout", "stuck", "over"}
  BY <1>1 DEF FlowInv, TypeOK
<1>5. QED
  BY <1>1, <1>2, <1>3, <1>4, FlowQuiet

\* A close that waits takes no more payloads.
LEMMA CloseGracefullyFlow ==
  ASSUME FlowInv, CloseGracefully
  PROVE  FlowInv'
<1>1. /\ accepting' = FALSE /\ grace' = "waiting"
      /\ UNCHANGED <<input, paused, pending, requested, buffer, fragments, callback, thrown, sending, back,
                     accepted, granted, ignored>>
  BY DEF CloseGracefully, fragmentVars, netVars, history
<1>2. FlowTypes' /\ TypeOK' /\ Overdrawn'
  BY <1>1 DEF FlowInv, FlowTypes, TypeOK, Overdrawn
<1>3. Gate' /\ PendingCounts'
  BY <1>1 DEF FlowInv, Gate, PendingCounts, fragmenting
<1>4. CreditsAccounted' /\ HeldBack'
  BY <1>1 DEF FlowInv, CreditsAccounted, HeldBack, Charged, Ordinary, fragmenting
<1>5. QED
  BY <1>2, <1>3, <1>4 DEF FlowInv

LEMMA TimeoutFlow ==
  ASSUME FlowInv, Timeout
  PROVE  FlowInv'
<1>1. /\ sending' = FALSE /\ grace' \in {"stuck", "timedout"}
      /\ UNCHANGED <<input, paused, pending, requested, accepting, buffer, fragments, callback, thrown, back,
                     accepted, granted, ignored>>
  BY DEF Timeout, queueVars, fragmentVars, netVars, history
<1>2. FlowTypes' /\ TypeOK' /\ Overdrawn'
  BY <1>1 DEF FlowInv, FlowTypes, TypeOK, Overdrawn
<1>3. QED
  BY <1>1, <1>2, FlowStopped

\* Credit that arrives is added, or ignored behind a chain of fragments.
LEMMA ResumeFlow ==
  ASSUME FlowInv, NEW count \in 1 .. Infinity, Resume(count), back' \in Seq(Grant),
         UNCHANGED <<input, pending, callback, thrown, accepted>>
  PROVE  FlowInv'
<1>1. /\ granted' = granted + count
      /\ UNCHANGED <<accepting, buffer, fragments, sending, grace>>
  BY DEF Resume, closeVars
<1>2. FlowTypes /\ TypeOK /\ Gate /\ Overdrawn /\ PendingCounts /\ CreditsAccounted /\ HeldBack
  BY DEF FlowInv
<1>3. Infinity \in Nat /\ count \in Nat /\ granted \in Nat /\ ignored \in Nat /\ granted' \in Nat
  BY <1>1, <1>2, StreamAssumption DEF FlowTypes
<1>4. fragmenting' = fragmenting /\ Unpaid' = Unpaid /\ Charged' = Charged
  BY <1>1 DEF fragmenting, Unpaid, Charged
<1>5. PendingCounts' /\ HeldBack'
  BY <1>1, <1>2, <1>4 DEF PendingCounts, HeldBack
<1>6. Charged \in Int /\ requested \in -1 .. Infinity
  BY <1>2, ChargedIs DEF TypeOK
<1>7. CASE ~sending \/ fragmenting
  <2>1. ignored' = ignored + count /\ UNCHANGED <<requested, paused>>
    BY <1>7 DEF Resume
  <2>2. granted' - ignored' = granted - ignored /\ ignored' \in Nat
    BY <1>1, <1>3, <2>1
  <2>3. FlowTypes' /\ TypeOK' /\ Overdrawn'
    BY <1>1, <1>2, <1>3, <2>1, <2>2 DEF FlowTypes, TypeOK, Overdrawn
  <2>4. Gate'
    BY <1>1, <1>2, <1>4, <2>1 DEF Gate
  <2>5. CreditsAccounted'
    BY <1>1, <1>2, <1>4, <2>1, <2>2 DEF CreditsAccounted
  <2>6. QED
    BY <1>5, <2>3, <2>4, <2>5 DEF FlowInv
<1>8. CASE sending /\ ~fragmenting
  <2>1. requested' = Sum(count) /\ paused' = Resumed /\ ignored' = ignored
    BY <1>8 DEF Resume
  <2>2. requested \in 0 .. Infinity /\ callback = "none" /\ paused \in 0 .. 1 /\ Infinity > 0
    BY StreamAssumption, <1>2, <1>6, <1>8 DEF Gate, TypeOK
  <2>3. /\ requested' \in 1 .. Infinity /\ paused' = 0
        /\ (requested' # Infinity => requested # Infinity /\ requested' = requested + count)
    BY <1>3, <2>1, <2>2 DEF Sum, Resumed
  <2>4. FlowTypes' /\ TypeOK' /\ Overdrawn'
    BY <1>1, <1>2, <1>3, <2>1, <2>2, <2>3 DEF FlowTypes, TypeOK, Overdrawn
  <2>5. Gate'
    BY <1>1, <1>4, <1>8, <2>2, <2>3 DEF Gate
  <2>6. CreditsAccounted'
    <3>1. SUFFICES ASSUME ~thrown, requested' # Infinity
                   PROVE  /\ requested' + Charged - (granted' - ignored') \in 0 .. 1
                          /\ accepting => requested' + Charged = granted' - ignored'
      BY <1>1, <1>4 DEF CreditsAccounted
    <3>2. /\ requested + Charged - (granted - ignored) \in 0 .. 1
          /\ accepting => requested + Charged = granted - ignored
      BY <1>2, <1>8, <2>3, <3>1 DEF CreditsAccounted
    <3>3. requested' = requested + count /\ granted' = granted + count /\ ignored' = ignored
      BY <1>1, <2>1, <2>3, <3>1
    <3>4. QED
      BY <1>3, <1>6, <3>2, <3>3
  <2>7. QED
    BY <1>5, <2>4, <2>5, <2>6 DEF FlowInv
<1>9. QED
  BY <1>7, <1>8

LEMMA HandleBackFlow ==
  ASSUME FlowInv, HandleBack
  PROVE  FlowInv'
<1>1. /\ back # <<>> /\ back' = Tail(back)
      /\ UNCHANGED <<input, pending, callback, thrown, accepted>>
  BY DEF HandleBack
<1>2. back' \in Seq(Grant) /\ Head(back) \in Grant
  BY <1>1 DEF FlowInv, FlowTypes
<1>3. CASE Head(back).kind = "request" /\ Resume(Head(back).count)
  <2>1. PICK count \in 1 .. Infinity : count = Head(back).count
    BY <1>2, <1>3 DEF Grant
  <2>2. QED
    BY <1>1, <1>2, <1>3, <2>1, ResumeFlow
<1>4. CASE Closed /\ grace' \in {"over", grace} /\ UNCHANGED <<paused, granted, ignored>>
  <2>1. /\ input' \in Seq(Item) /\ paused' \in 0 .. 1 /\ pending' \in Nat
        /\ callback' \in {"none", "fragmentate", "next"}
        /\ grace' \in {"none", "waiting", "timedout", "stuck", "over"}
    BY <1>1, <1>4 DEF FlowInv, FlowTypes, TypeOK
  <2>2. QED
    BY <1>1, <1>2, <1>4, <2>1, FlowClosed
<1>5. QED
  BY <1>3, <1>4 DEF HandleBack

\* What the peer does is not yet known to the requester.
LEMMA PeerFlow ==
  ASSUME FlowInv, Receive \/ EndByPeer \/ (\E count \in Grants : Request(count))
  PROVE  FlowInv'
<1>1. UNCHANGED <<input, paused, pending, requested, accepting, buffer, fragments, sending, thrown, history,
                  callback, grace>>
  BY DEF Receive, EndByPeer, Request, queueVars, fragmentVars, closeVars
<1>2. \/ back' = back
      \/ \E g \in Grant : back' = Append(back, g)
  <2>1. CASE Receive
    BY <2>1 DEF Receive
  <2>2. CASE EndByPeer
    <3>1. back' = Append(back, [kind |-> "end", count |-> 0])
      BY <2>2 DEF EndByPeer
    <3>2. [kind |-> "end", count |-> 0] \in Grant
      BY StreamAssumption DEF Grant
    <3>3. QED
      BY <3>1, <3>2
  <2>3. ASSUME NEW count \in Grants, Request(count)
        PROVE  \E g \in Grant : back' = Append(back, g)
    <3>1. back' = Append(back, [kind |-> "request", count |-> count])
      BY <2>3 DEF Request
    <3>2. count \in 1 .. Infinity
      BY StreamAssumption
    <3>3. [kind |-> "request", count |-> count] \in Grant
      BY <3>2 DEF Grant
    <3>4. QED
      BY <3>1, <3>3
  <2>4. QED
    BY <2>1, <2>2, <2>3
<1>3. back' \in Seq(Grant) /\ grace' \in {"none", "waiting", "timedout", "stuck", "over"}
  <2>1. back \in Seq(Grant) /\ grace \in {"none", "waiting", "timedout", "stuck", "over"}
    BY DEF FlowInv, FlowTypes, TypeOK
  <2>2. back' \in Seq(Grant)
    BY <1>2, <2>1
  <2>3. QED
    BY <1>1, <2>1, <2>2
<1>4. QED
  BY <1>1, <1>3, FlowQuiet

LEMMA FlowStep ==
  ASSUME FlowInv, WantedOK, Next
  PROVE  FlowInv'
<1>1. CASE Break
  BY <1>1, CloseFlow, BreakFlow
<1>2. QED
  BY <1>1, SchedulesFlow, SendFlow, WriteDoneFlow, CloseFlow, CloseGracefullyFlow, TimeoutFlow,
     HandleBackFlow, PeerFlow DEF Next

LEMMA FlowInvariant == ReactiveSpec => []FlowInv
<1>1. ASSUME ReactiveInit PROVE FlowInv
  <2>1. /\ input = <<>> /\ paused = 1 /\ pending = 0 /\ requested = 0 /\ accepting = TRUE
        /\ buffer = <<>> /\ fragments = NoFragments /\ callback = "none" /\ thrown = FALSE
        /\ sending = TRUE /\ grace = "none" /\ back = <<>> /\ accepted = <<>> /\ granted = 0 /\ ignored = 0
    BY <1>1 DEF ReactiveInit, Init
  <2>2. <<>> \in Seq(Item) /\ <<>> \in Seq(Sent) /\ <<>> \in Seq(Grant) /\ Len(<<>>) = 0
    BY EmptySeq
  <2>3. /\ DOMAIN fragments = {"active", "left", "number", "count", "last"}
        /\ fragments.active = FALSE /\ fragments.last = FALSE /\ fragments.count = 0
    BY <2>1 DEF NoFragments
  <2>4. FlowTypes
    <3>1. input \in Seq(Item) /\ accepted \in Seq(Item) /\ buffer \in Seq(Sent) /\ back \in Seq(Grant)
      BY <2>1, <2>2, Zenon
    <3>2. sending \in BOOLEAN /\ thrown \in BOOLEAN /\ accepting \in BOOLEAN /\ granted \in Nat /\ ignored \in Nat
      BY <2>1
    <3>3. fragments.active \in BOOLEAN /\ fragments.last \in BOOLEAN
      BY <2>3, Zenon
    <3>4. fragments.count \in Nat
      BY <2>3
    <3>5. QED
      BY <2>3, <3>1, <3>2, <3>3, <3>4, Zenon DEF FlowTypes
  <2>5. TypeOK /\ Overdrawn
    BY <2>1, StreamAssumption DEF TypeOK, Overdrawn
  <2>6. Gate /\ PendingCounts /\ HeldBack
    BY <2>1, <2>2, <2>3 DEF Gate, PendingCounts, HeldBack, fragmenting
  <2>7. Charged = 0
    BY <2>1, <2>3, OrdinaryEmpty DEF Charged, fragmenting
  <2>8. CreditsAccounted
    BY <2>1, <2>7 DEF CreditsAccounted
  <2>9. QED
    BY <2>4, <2>5, <2>6, <2>8 DEF FlowInv
<1>2. ASSUME FlowInv, WantedOK, [ReactiveNext]_<<part, vars, readerVars>>
      PROVE  FlowInv'
  <2>1. Next \/ UNCHANGED vars
    BY <1>2 DEF ReactiveNext
  <2>2. CASE UNCHANGED vars
    <3>1. UNCHANGED <<input, paused, pending, requested, accepting, buffer, fragments, sending, thrown, history,
                      callback, back, grace>>
      BY <2>2 DEF vars, queueVars, fragmentVars, closeVars, netVars
    <3>2. back' \in Seq(Grant) /\ grace' \in {"none", "waiting", "timedout", "stuck", "over"}
      BY <1>2, <3>1 DEF FlowInv, FlowTypes, TypeOK
    <3>3. QED
      BY <1>2, <3>1, <3>2, FlowQuiet
  <2>3. QED
    BY <1>2, <2>1, <2>2, FlowStep
<1>3. QED
  BY <1>1, <1>2, WantedTypes, PTL DEF ReactiveSpec

\* However REQUEST_N frames, chains of fragments, the end of the stream, a
\* close and a broken connection interleave, the requester counts its credits
\* exactly: each is spent on one payload, still there, or ignored behind a
\* chain of fragments; with credit and payloads it is not paused, and what it
\* paid for is written.
THEOREM CreditsHold == ReactiveSpec => []CreditsInv
<1>1. ASSUME FlowInv PROVE CreditsInv
  <2>1. NoLostCredit
    BY <1>1 DEF FlowInv, Gate, NoLostCredit
  <2>2. QED
    BY <1>1, <2>1 DEF FlowInv, CreditsInv
<1>2. QED
  BY <1>1, FlowInvariant, PTL

-----------------------------------------------------------------------------
(* Runs of frames: what the frames of a sequence add to the payloads.  A      *)
(* position is the number of payloads complete and of the units of the next.  *)

Position == Nat \X Nat

\* Frame f takes the peer from position s to position t: it has no data, or
\* the units that come next, and unless another follows it ends the payload.
Moves(w, s, f, t) ==
  \/ f.data = <<>> /\ t = s
  \/ /\ f.data # <<>> /\ f.kind = "payload" /\ s[1] + 1 \in DOMAIN w
     /\ f.data = [i \in 1 .. Len(f.data) |-> <<s[1] + 1, s[2] + i>>]
     /\ \/ f.follow /\ ~f.completed /\ t = <<s[1], s[2] + Len(f.data)>>
        \/ ~f.follow /\ s[2] + Len(f.data) = Len(w[s[1] + 1].data) /\ t = <<s[1] + 1, 0>>

Run(w, S, s, t) ==
  \E h \in [0 .. Len(S) -> Position] :
    h[0] = s /\ h[Len(S)] = t /\ \A i \in 1 .. Len(S) : Moves(w, h[i - 1], S[i], h[i])

LEMMA RunEmpty ==
  ASSUME NEW w, NEW s \in Position
  PROVE  Run(w, <<>>, s, s)
<1> DEFINE h == [i \in 0 .. 0 |-> s]
<1>1. Len(<<>>) = 0 /\ h \in [0 .. Len(<<>>) -> Position] /\ h[0] = s
  OBVIOUS
<1> HIDE DEF h
<1>2. \A i \in 1 .. Len(<<>>) : Moves(w, h[i - 1], <<>>[i], h[i])
  BY <1>1
<1>3. h[Len(<<>>)] = s
  BY <1>1
<1>4. QED
  BY <1>1, <1>2, <1>3 DEF Run

LEMMA RunOne ==
  ASSUME NEW w, NEW f \in Sent, NEW s \in Position, NEW t \in Position, Moves(w, s, f, t)
  PROVE  Run(w, <<f>>, s, t)
<1> DEFINE h == [i \in 0 .. 1 |-> IF i = 0 THEN s ELSE t]
<1>1. Len(<<f>>) = 1 /\ <<f>>[1] = f
  OBVIOUS
<1>2. h \in [0 .. Len(<<f>>) -> Position] /\ h[0] = s /\ h[1] = t
  BY <1>1
<1> HIDE DEF h
<1>3. \A i \in 1 .. Len(<<f>>) : Moves(w, h[i - 1], <<f>>[i], h[i])
  BY <1>1, <1>2
<1>4. QED
  BY <1>1, <1>2, <1>3 DEF Run

\* Two runs make one.
LEMMA RunConcat ==
  ASSUME NEW w, NEW S \in Seq(Sent), NEW T \in Seq(Sent), NEW s, NEW t, NEW r,
         Run(w, S, s, t), Run(w, T, t, r)
  PROVE  Run(w, S \o T, s, r)
<1>1. PICK n \in Nat : n = Len(S)
  OBVIOUS
<1>2. PICK m \in Nat : m = Len(T)
  OBVIOUS
<1>3. PICK g \in [0 .. n -> Position] :
        g[0] = s /\ g[n] = t /\ \A i \in 1 .. n : Moves(w, g[i - 1], S[i], g[i])
  BY <1>1 DEF Run
<1>4. PICK h \in [0 .. m -> Position] :
        h[0] = t /\ h[m] = r /\ \A i \in 1 .. m : Moves(w, h[i - 1], T[i], h[i])
  BY <1>2 DEF Run
<1>5. /\ Len(S \o T) = n + m
      /\ \A i \in 1 .. n : (S \o T)[i] = S[i]
      /\ \A i \in n + 1 .. n + m : (S \o T)[i] = T[i - n]
  BY <1>1, <1>2
<1> DEFINE j == [i \in 0 .. n + m |-> IF i <= n THEN g[i] ELSE h[i - n]]
<1>6. \A i \in 0 .. n + m : i > n => i - n \in 0 .. m /\ i - n \in 1 .. m
  OBVIOUS
<1>7. j \in [0 .. n + m -> Position]
  <2>1. ASSUME NEW i \in 0 .. n + m PROVE j[i] \in Position
    <3>1. CASE i <= n
      BY <1>3, <3>1
    <3>2. CASE i > n
      BY <1>4, <1>6, <3>2
    <3>3. QED
      BY <3>1, <3>2
  <2>2. QED
    BY <2>1
<1>8. j[0] = s /\ j[n + m] = r
  <2>1. j[0] = g[0]
    OBVIOUS
  <2>2. CASE m = 0
    <3>1. n + m \in 0 .. n + m /\ n + m <= n /\ n + m = n
      BY <2>2
    <3>2. j[n + m] = g[n]
      BY <3>1
    <3>3. QED
      BY <1>3, <1>4, <2>1, <2>2, <3>2
  <2>3. CASE m > 0
    <3>1. n + m \in 0 .. n + m /\ ~(n + m <= n) /\ (n + m) - n = m
      BY <2>3
    <3>2. j[n + m] = h[m]
      BY <3>1
    <3>3. QED
      BY <1>3, <1>4, <2>1, <3>2
  <2>4. QED
    BY <1>3, <2>1, <2>2, <2>3
<1>9. ASSUME NEW i \in 1 .. n + m PROVE Moves(w, j[i - 1], (S \o T)[i], j[i])
  <2>1. CASE i <= n
    <3>1. j[i] = g[i] /\ j[i - 1] = g[i - 1] /\ i \in 1 .. n
      BY <2>1
    <3>2. QED
      BY <1>3, <1>5, <3>1
  <2>2. CASE i > n
    <3>1. PICK k \in 1 .. m : k = i - n /\ i = n + k
      BY <1>6, <2>2
    <3>2. j[i] = h[k]
      BY <2>2, <3>1
    <3>3. j[i - 1] = h[k - 1]
      <4>1. CASE k = 1
        <5>1. i - 1 = n /\ n \in 0 .. n + m
          BY <3>1, <4>1
        <5>2. j[i - 1] = g[n]
          BY <5>1
        <5>3. QED
          BY <1>3, <1>4, <4>1, <5>2
      <4>2. CASE k > 1
        <5>1. i - 1 \in 0 .. n + m /\ ~(i - 1 <= n) /\ (i - 1) - n = k - 1
          BY <3>1, <4>2
        <5>2. QED
          BY <5>1
      <4>3. QED
        BY <4>1, <4>2
    <3>4. (S \o T)[i] = T[k]
      BY <1>5, <3>1
    <3>5. QED
      BY <1>4, <3>2, <3>3, <3>4
  <2>3. i <= n \/ i > n
    OBVIOUS
  <2>4. QED
    BY <2>1, <2>2, <2>3, Zenon
<1> HIDE DEF j
<1>10. QED
  BY <1>5, <1>7, <1>8, <1>9 DEF Run

\* A run can be cut anywhere.
LEMMA RunSplit ==
  ASSUME NEW w, NEW S \in Seq(Sent), NEW T \in Seq(Sent), NEW s, NEW r,
         Run(w, S \o T, s, r)
  PROVE  \E t \in Position : Run(w, S, s, t) /\ Run(w, T, t, r)
<1>1. PICK n \in Nat : n = Len(S)
  OBVIOUS
<1>2. PICK m \in Nat : m = Len(T)
  OBVIOUS
<1>3. /\ Len(S \o T) = n + m
      /\ \A i \in 1 .. n : (S \o T)[i] = S[i]
      /\ \A k \in 1 .. m : (S \o T)[n + k] = T[k]
  BY <1>1, <1>2
<1>4. PICK h \in [0 .. n + m -> Position] :
        h[0] = s /\ h[n + m] = r /\ \A i \in 1 .. n + m : Moves(w, h[i - 1], (S \o T)[i], h[i])
  BY <1>3 DEF Run
<1> DEFINE g == [i \in 0 .. n |-> h[i]]
           j == [k \in 0 .. m |-> h[n + k]]
<1>5. h[n] \in Position
  BY <1>4
<1>6. Run(w, S, s, h[n])
  <2>1. g \in [0 .. n -> Position] /\ g[0] = s /\ g[n] = h[n]
    BY <1>4
  <2>2. \A i \in 1 .. n : Moves(w, g[i - 1], S[i], g[i])
    <3>1. ASSUME NEW i \in 1 .. n PROVE Moves(w, g[i - 1], S[i], g[i])
      <4>1. i \in 1 .. n + m /\ g[i] = h[i] /\ g[i - 1] = h[i - 1] /\ (S \o T)[i] = S[i]
        BY <1>3
      <4>2. QED
        BY <1>4, <4>1
    <3>2. QED
      BY <3>1
  <2> HIDE DEF g
  <2>3. QED
    BY <1>1, <2>1, <2>2 DEF Run
<1>7. Run(w, T, h[n], r)
  <2>1. j \in [0 .. m -> Position] /\ j[0] = h[n] /\ j[m] = r
    BY <1>4
  <2>2. \A k \in 1 .. m : Moves(w, j[k - 1], T[k], j[k])
    <3>1. ASSUME NEW k \in 1 .. m PROVE Moves(w, j[k - 1], T[k], j[k])
      <4>1. /\ n + k \in 1 .. n + m /\ j[k] = h[n + k] /\ (S \o T)[n + k] = T[k]
            /\ (n + k) - 1 = n + (k - 1) /\ j[k - 1] = h[n + (k - 1)]
        <5>1. n + k \in 1 .. n + m /\ (n + k) - 1 = n + (k - 1) /\ k \in 0 .. m /\ k - 1 \in 0 .. m
          OBVIOUS
        <5>2. QED
          BY <1>3, <5>1
      <4>2. Moves(w, h[(n + k) - 1], (S \o T)[n + k], h[n + k])
        BY <1>4, <4>1
      <4>3. QED
        BY <4>1, <4>2
    <3>2. QED
      BY <3>1
  <2> HIDE DEF j
  <2>3. QED
    BY <1>2, <2>1, <2>2 DEF Run
<1>8. QED
  BY <1>5, <1>6, <1>7

LEMMA RunHead ==
  ASSUME NEW w, NEW f \in Sent, NEW s, NEW t, Run(w, <<f>>, s, t)
  PROVE  s \in Position /\ t \in Position /\ Moves(w, s, f, t)
<1>1. Len(<<f>>) = 1 /\ <<f>>[1] = f
  OBVIOUS
<1>2. PICK h \in [0 .. 1 -> Position] :
        h[0] = s /\ h[1] = t /\ \A i \in 1 .. 1 : Moves(w, h[i - 1], <<f>>[i], h[i])
  BY <1>1 DEF Run
<1>3. Moves(w, h[1 - 1], <<f>>[1], h[1])
  BY <1>2
<1>4. 1 - 1 = 0
  OBVIOUS
<1>5. QED
  BY <1>1, <1>2, <1>3, <1>4

LEMMA RunTypes ==
  ASSUME NEW w, NEW S \in Seq(Sent), NEW s, NEW t, Run(w, S, s, t)
  PROVE  s \in Position /\ t \in Position
<1>1. PICK h \in [0 .. Len(S) -> Position] : h[0] = s /\ h[Len(S)] = t
  BY DEF Run
<1>2. 0 \in 0 .. Len(S) /\ Len(S) \in 0 .. Len(S)
  OBVIOUS
<1>3. QED
  BY <1>1, <1>2

\* A further payload changes nothing for what is on its way.
LEMMA RunMore ==
  ASSUME NEW w \in Seq(Item), NEW p \in Item, NEW S \in Seq(Sent), NEW s, NEW t, Run(w, S, s, t)
  PROVE  Run(Append(w, p), S, s, t)
<1>1. PICK n \in Nat : n = Len(w) /\ DOMAIN w = 1 .. n
  OBVIOUS
<1>2. DOMAIN Append(w, p) = 1 .. n + 1 /\ \A k \in 1 .. n : Append(w, p)[k] = w[k]
  BY <1>1
<1>3. \A a, f, b : Moves(w, a, f, b) => Moves(Append(w, p), a, f, b)
  BY <1>1, <1>2 DEF Moves
<1>4. QED
  BY <1>3 DEF Run

-----------------------------------------------------------------------------
(* What is on its way to the peer, in the order in which it will be read. *)

Chunks == Seq(Nat \X Nat)

\* The frames of the fragments of c that are not yet written.
FramesOf(c) ==
  [i \in 1 .. Len(c.left) |->
     writePayloadFrame(c.left[i], ~(c.number + i < c.count) /\ c.last, c.number + i < c.count)]

ChainFrames == IF callback # "none" THEN FramesOf(fragments) ELSE <<>>

FramesIn(s) == [i \in DOMAIN s |-> Frame(s[i])]

QueueFrames == IF sending /\ ~thrown THEN buffer \o FramesIn(input) ELSE <<>>

Pipe == (wire \o ChainFrames) \o QueueFrames

\* A chain with the fragments that are left of it.
IsChain(c) ==
  /\ DOMAIN c = {"active", "left", "number", "count", "last"}
  /\ c.left \in Seq(Chunks) /\ c.number \in Nat /\ c.count \in Nat /\ c.last \in BOOLEAN
  /\ c.number + Len(c.left) = c.count

LEMMA MinIs ==
  ASSUME NEW a \in Nat, NEW b \in Nat
  PROVE  Min({a, b}) \in Nat /\ Min({a, b}) <= a /\ Min({a, b}) <= b /\ Min({a, b}) \in {a, b}
  BY DEF Min

LEMMA FrameTypes ==
  ASSUME NEW d \in Chunks, NEW completed \in BOOLEAN, NEW follow \in BOOLEAN
  PROVE  writePayloadFrame(d, completed, follow) \in Sent
  BY DEF writePayloadFrame, Sent, Chunks

LEMMA FramesOfType ==
  ASSUME NEW c, IsChain(c)
  PROVE  FramesOf(c) \in Seq(Sent) /\ Len(FramesOf(c)) = Len(c.left)
<1>1. PICK n \in Nat : n = Len(c.left)
  BY DEF IsChain
<1>2. \A i \in 1 .. n :
        writePayloadFrame(c.left[i], ~(c.number + i < c.count) /\ c.last, c.number + i < c.count) \in Sent
  <2>1. \A i \in 1 .. n : c.left[i] \in Chunks
    BY <1>1 DEF IsChain
  <2>2. \A i \in 1 .. n : (~(c.number + i < c.count) /\ c.last) \in BOOLEAN /\ (c.number + i < c.count) \in BOOLEAN
    OBVIOUS
  <2>3. QED
    BY <2>1, <2>2, FrameTypes, Zenon
<1>3. FramesOf(c) = [i \in 1 .. n |->
        writePayloadFrame(c.left[i], ~(c.number + i < c.count) /\ c.last, c.number + i < c.count)]
  BY <1>1 DEF FramesOf
<1>4. QED
  BY <1>1, <1>2, <1>3

\* A batch is the head of the frames of its chain: fragmentate sets the same
\* flags whatever ChunksLimit is.
LEMMA BatchIs ==
  ASSUME NEW c, IsChain(c), fragmentate(c), connected
  PROVE  \E batch \in Seq(Sent) :
           /\ IsChain(fragments') /\ FramesOf(c) = batch \o FramesOf(fragments')
           /\ wire' = wire \o (buffer \o batch)
           /\ callback' = "next" /\ buffer' = <<>>
<1> DEFINE chunks == Min({ChunksLimit, Len(c.left)})
           follow(i) == Follow(c, i, chunks)
           batch == [i \in 1 .. chunks |-> writePayloadFrame(c.left[i], ~follow(i) /\ c.last, follow(i))]
<1>1. PICK n \in Nat : n = Len(c.left) /\ c.left \in Seq(Chunks)
  BY DEF IsChain
<1>2. PICK k \in Nat : k = chunks /\ k <= n
  BY <1>1, MinIs, StreamAssumption
<1>3. /\ wire' = wire \o (buffer \o batch) /\ callback' = "next" /\ buffer' = <<>>
      /\ fragments' = [c EXCEPT !.left = SubSeq(c.left, k + 1, n), !.number = c.number + k]
  BY <1>1, <1>2 DEF fragmentate, Write, Await, IsChain
<1> HIDE DEF chunks
<1>4. /\ SubSeq(c.left, k + 1, n) \in Seq(Chunks) /\ Len(SubSeq(c.left, k + 1, n)) = n - k
      /\ \A i \in 1 .. n - k : SubSeq(c.left, k + 1, n)[i] = c.left[k + i]
  BY <1>1, <1>2
<1>5. /\ DOMAIN fragments' = {"active", "left", "number", "count", "last"}
      /\ fragments'.left = SubSeq(c.left, k + 1, n) /\ fragments'.number = c.number + k
      /\ fragments'.count = c.count /\ fragments'.last = c.last
  BY <1>3 DEF IsChain
<1>6. IsChain(fragments')
  <2>1. c.number \in Nat /\ c.number + n = c.count
    BY <1>1 DEF IsChain
  <2>2. c.number + k \in Nat /\ (c.number + k) + (n - k) = c.count
    BY <2>1, <1>2
  <2>3. QED
    BY <1>4, <1>5, <2>2 DEF IsChain
<1>7. ASSUME NEW i \in 1 .. k
      PROVE  /\ follow(i) = (c.number + i < c.count)
             /\ batch[i] = FramesOf(c)[i] /\ batch[i] \in Sent
  <2>1. c.number \in Nat /\ c.number + n = c.count /\ i \in 1 .. n
    BY <1>1, <1>2 DEF IsChain
  <2>2. follow(i) = (c.number + k < c.count \/ i # k)
    BY <1>2 DEF Follow
  <2>3. follow(i) = (c.number + i < c.count)
    BY <1>2, <2>1, <2>2
  <2>4. batch[i] = FramesOf(c)[i]
    BY <1>1, <1>2, <2>1, <2>3 DEF FramesOf
  <2>5. FramesOf(c)[i] \in Sent
    BY <1>1, <2>1, FramesOfType
  <2>6. QED
    BY <2>3, <2>4, <2>5
<1> HIDE DEF follow
<1>8. batch \in Seq(Sent) /\ Len(batch) = k
  BY <1>2, <1>7
<1>9. FramesOf(c) = batch \o FramesOf(fragments')
  <2>1. /\ FramesOf(c) \in Seq(Sent) /\ Len(FramesOf(c)) = n
        /\ FramesOf(fragments') \in Seq(Sent) /\ Len(FramesOf(fragments')) = n - k
    BY <1>1, <1>4, <1>5, <1>6, FramesOfType
  <2>2. ASSUME NEW j \in 1 .. n - k
        PROVE  FramesOf(fragments')[j] = FramesOf(c)[k + j]
    <3>1. k + j \in 1 .. n /\ c.number \in Nat /\ (c.number + k) + j = c.number + (k + j)
      BY <1>2 DEF IsChain
    <3>2. FramesOf(c)[k + j] =
            writePayloadFrame(c.left[k + j], ~(c.number + (k + j) < c.count) /\ c.last, c.number + (k + j) < c.count)
      BY <1>1, <3>1 DEF FramesOf
    <3>3. FramesOf(fragments')[j] =
            writePayloadFrame(fragments'.left[j], ~(fragments'.number + j < fragments'.count) /\ fragments'.last,
                              fragments'.number + j < fragments'.count)
      BY <1>4, <1>5 DEF FramesOf
    <3>4. QED
      BY <1>4, <1>5, <3>1, <3>2, <3>3
  <2> HIDE DEF batch
  <2>3. /\ batch \o FramesOf(fragments') \in Seq(Sent) /\ Len(batch \o FramesOf(fragments')) = n
        /\ \A i \in 1 .. n : (batch \o FramesOf(fragments'))[i] =
                                 IF i <= k THEN batch[i] ELSE FramesOf(fragments')[i - k]
    BY <1>2, <1>8, <2>1
  <2>4. ASSUME NEW i \in 1 .. n PROVE FramesOf(c)[i] = (batch \o FramesOf(fragments'))[i]
    <3>1. CASE i <= k
      BY <1>7, <2>3, <3>1
    <3>2. CASE i > k
      <4>1. i - k \in 1 .. n - k /\ k + (i - k) = i /\ ~(i <= k)
        BY <1>2, <3>2
      <4>2. FramesOf(fragments')[i - k] = FramesOf(c)[k + (i - k)]
        BY <2>2, <4>1
      <4>3. QED
        BY <2>3, <4>1, <4>2
    <3>3. i <= k \/ i > k
      BY <1>2
    <3>4. QED
      BY <3>1, <3>2, <3>3, Zenon
  <2>5. QED
    BY <2>1, <2>3, <2>4, SeqEqual
<1> HIDE DEF batch
<1>10. QED
  BY <1>3, <1>6, <1>8, <1>9

LEMMA MoveIs ==
  ASSUME NEW w, NEW a, NEW b, NEW f,
         f.data # <<>>, f.kind = "payload", a + 1 \in DOMAIN w,
         f.data = [i \in 1 .. Len(f.data) |-> <<a + 1, b + i>>]
  PROVE  /\ f.follow /\ ~f.completed => Moves(w, <<a, b>>, f, <<a, b + Len(f.data)>>)
         /\ ~f.follow /\ b + Len(f.data) = Len(w[a + 1].data) => Moves(w, <<a, b>>, f, <<a + 1, 0>>)
<1>1. <<a, b>>[1] = a /\ <<a, b>>[2] = b
  OBVIOUS
<1>2. QED
  BY <1>1 DEF Moves

\* A payload cut into fragments takes the peer where the payload would.
LEMMA FragmentsRun ==
  ASSUME NEW w, NEW s \in Position, NEW t \in Position, NEW c, IsChain(c), c.number = 0,
         NEW d \in Chunks, Len(d) > FrameMaxSize, Divides(d), c.left = disassemble(d),
         NEW f \in Sent, f.data = d, ~f.follow, Moves(w, s, f, t)
  PROVE  Run(w, FramesOf(c), s, t)
<1>1. PICK L \in Nat, F \in Nat : L = Len(d) /\ F = FragmentSize /\ F > 0 /\ L > 0
  BY StreamAssumption DEF Chunks
<1>2. PICK n \in Nat : n = L \div F /\ n * F = L /\ n > 0
  <2>1. L % F = 0
    BY <1>1 DEF Divides
  <2>2. PICK q \in Int : q = L \div F
    BY <1>1
  <2>3. L = F * q + 0 /\ F * q = q * F
    BY <1>1, <2>1, <2>2
  <2>4. q > 0
    BY <1>1, <2>3
  <2>5. QED
    BY <2>2, <2>3, <2>4
<1>3. c.left = [i \in 1 .. n |-> SubSeq(d, ((i - 1) * F) + 1, i * F)] /\ Len(c.left) = n /\ c.count = n
  <2>1. c.left = [i \in 1 .. n |-> SubSeq(d, ((i - 1) * F) + 1, i * F)]
    BY <1>1, <1>2 DEF disassemble
  <2>2. Len(c.left) = n
    BY <2>1
  <2>3. QED
    BY <2>1, <2>2 DEF IsChain
<1>4. d # <<>> /\ f.kind = "payload" /\ s[1] + 1 \in DOMAIN w
      /\ d = [i \in 1 .. L |-> <<s[1] + 1, s[2] + i>>]
      /\ s[2] + L = Len(w[s[1] + 1].data) /\ t = <<s[1] + 1, 0>>
  BY <1>1 DEF Moves, Chunks
<1>5. PICK a \in Nat, b \in Nat : s = <<a, b>> /\ s[1] = a /\ s[2] = b
  BY DEF Position
\* The i-th fragment.
<1>6. ASSUME NEW i \in 1 .. n
      PROVE  /\ (i - 1) * F \in Nat /\ i * F = (i - 1) * F + F /\ i * F <= L /\ (i < n => i * F < L)
             /\ Len(FramesOf(c)[i].data) = F /\ FramesOf(c)[i].data # <<>>
             /\ FramesOf(c)[i].data = [k \in 1 .. F |-> <<a + 1, (b + (i - 1) * F) + k>>]
             /\ FramesOf(c)[i].kind = "payload"
             /\ FramesOf(c)[i].follow = (i < n)
             /\ FramesOf(c)[i].completed => ~(i < n)
  <2>1. /\ (i - 1) * F \in Nat /\ i * F = (i - 1) * F + F
    BY <1>1
  <2>2. /\ i * F <= L /\ (i < n => i * F < L)
    <3>1. PICK m \in Nat : m = n - i
      OBVIOUS
    <3>2. n * F = i * F + m * F /\ m * F \in Nat /\ i * F \in Nat
      BY <1>1, <3>1
    <3>3. m > 0 => m * F > 0
      BY <1>1
    <3>4. PICK u \in Nat, v \in Nat : u = i * F /\ v = m * F /\ L = u + v
      BY <1>2, <3>2
    <3>5. u <= L /\ (m > 0 => u < L)
      BY <3>3, <3>4
    <3>6. i < n => m > 0
      BY <3>1
    <3>7. QED
      BY <3>4, <3>5, <3>6
  <2>3. PICK x \in Nat, y \in Nat : x = (i - 1) * F /\ y = i * F /\ y = x + F /\ y <= L
    BY <1>1, <2>1, <2>2
  <2>4. c.left[i] = SubSeq(d, x + 1, y)
    BY <1>3, <2>3
  <2>5. c.left[i] = [k \in 1 .. F |-> <<a + 1, (b + x) + k>>]
    <3>1. d \in Seq(Nat \X Nat) /\ Len(d) = L
      BY <1>1 DEF Chunks
    <3>2. SubSeq(d, x + 1, y) = [k \in 1 .. F |-> d[x + k]]
      <4>1. SubSeq(d, x + 1, y) = [k \in 1 .. (1 + y - (x + 1)) |-> d[k + (x + 1) - 1]]
        BY <2>3, <3>1
      <4>2. 1 + y - (x + 1) = F
        BY <1>1, <2>3
      <4>3. \A k \in 1 .. F : k + (x + 1) - 1 = x + k
        OBVIOUS
      <4>4. QED
        BY <4>1, <4>2, <4>3
    <3>3. \A k \in 1 .. F : x + k \in 1 .. L /\ b + (x + k) = (b + x) + k
      BY <1>1, <2>3
    <3>4. \A k \in 1 .. F : d[x + k] = <<a + 1, (b + x) + k>>
      BY <1>4, <1>5, <3>3
    <3>5. QED
      BY <2>4, <3>2, <3>4
  <2>6. FramesOf(c)[i] = writePayloadFrame(c.left[i], ~(i < n) /\ c.last, i < n)
    BY <1>3 DEF FramesOf
  <2>7. Len(c.left[i]) = F /\ c.left[i] # <<>>
    BY <1>1, <2>5
  <2>8. /\ FramesOf(c)[i].data = c.left[i] /\ FramesOf(c)[i].kind = "payload"
        /\ FramesOf(c)[i].follow = (i < n) /\ (FramesOf(c)[i].completed => ~(i < n))
    <3>1. PICK z \in BOOLEAN, e \in BOOLEAN : z = (i < n) /\ e = c.last
      <4>1. (i < n) \in BOOLEAN /\ c.last \in BOOLEAN
        BY DEF IsChain
      <4>2. QED
        BY <4>1, Zenon
    <3>2. FramesOf(c)[i] = writePayloadFrame(c.left[i], ~z /\ e, z)
      BY <2>6, <3>1
    <3>3. FramesOf(c)[i].follow = (~(~z /\ e) /\ z) /\ FramesOf(c)[i].completed = (~z /\ e)
      BY <3>2 DEF writePayloadFrame
    <3>4. FramesOf(c)[i].data = c.left[i] /\ FramesOf(c)[i].kind = "payload"
      BY <3>2 DEF writePayloadFrame
    <3>5. (~(~z /\ e) /\ z) = z /\ ((~z /\ e) => ~z)
      OBVIOUS
    <3>6. FramesOf(c)[i].follow = z /\ (FramesOf(c)[i].completed => ~z)
      BY <3>3, <3>5
    <3>7. QED
      BY <3>1, <3>4, <3>6
  <2>9. c.left[i] = [k \in 1 .. F |-> <<a + 1, (b + (i - 1) * F) + k>>]
    BY <2>3, <2>5
  <2>10. QED
    BY <2>1, <2>2, <2>7, <2>8, <2>9, Zenon
<1> DEFINE h == [i \in 0 .. n |-> IF i < n THEN <<a, b + i * F>> ELSE t]
<1>7. /\ h \in [0 .. n -> Position] /\ h[0] = s /\ h[n] = t
      /\ \A i \in 0 .. n - 1 : h[i] = <<a, b + i * F>>
  <2>1. ASSUME NEW i \in 0 .. n PROVE b + i * F \in Nat
    <3>1. i * F \in Nat
      BY <1>1
    <3>2. QED
      BY <3>1
  <2>2. h \in [0 .. n -> Position]
    BY <2>1 DEF Position
  <2>3. 0 * F = 0 /\ b + 0 = b
    BY <1>1
  <2>4. h[0] = s
    BY <1>2, <1>5, <2>3
  <2>5. h[n] = t
    OBVIOUS
  <2>6. \A i \in 0 .. n - 1 : h[i] = <<a, b + i * F>>
    OBVIOUS
  <2>7. QED
    BY <2>2, <2>4, <2>5, <2>6
<1> HIDE DEF h
<1>8. ASSUME NEW i \in 1 .. n
      PROVE  Moves(w, h[i - 1], FramesOf(c)[i], h[i])
  <2>1. PICK x \in Nat, y \in Nat : x = (i - 1) * F /\ y = i * F /\ y = x + F
    BY <1>6, <1>1
  <2>2. h[i - 1] = <<a, b + x>>
    BY <1>7, <2>1
  <2>3. PICK g : g = FramesOf(c)[i]
    OBVIOUS
  <2>4. /\ Len(g.data) = F /\ g.data # <<>> /\ g.kind = "payload" /\ a + 1 \in DOMAIN w
        /\ g.data = [k \in 1 .. F |-> <<a + 1, (b + x) + k>>]
        /\ g.follow = (i < n)
        /\ (g.completed => ~(i < n))
    BY <1>4, <1>5, <1>6, <2>1, <2>3
  <2>5. /\ <<a, b + x>>[1] = a /\ <<a, b + x>>[2] = b + x
        /\ g.data = [k \in 1 .. Len(g.data) |-> <<a + 1, (b + x) + k>>]
    BY <2>4
  <2>6. CASE i < n
    <3>1. h[i] = <<a, b + y>> /\ b + y = (b + x) + F
      BY <1>1, <1>7, <2>1, <2>6
    <3>2. g.follow /\ ~g.completed /\ h[i] = <<a, (b + x) + Len(g.data)>>
      BY <2>4, <2>6, <3>1
    <3>3. Moves(w, <<a, b + x>>, g, <<a, (b + x) + Len(g.data)>>)
      BY <2>4, <2>5, <3>2, MoveIs
    <3>4. QED
      BY <2>2, <2>3, <3>2, <3>3
  <2>7. CASE ~(i < n)
    <3>1. i = n /\ y = L /\ (b + x) + F = b + L
      BY <1>1, <1>2, <2>1, <2>7
    <3>2. h[i] = <<a + 1, 0>> /\ (b + x) + F = Len(w[a + 1].data)
      BY <1>4, <1>5, <1>7, <3>1
    <3>3. ~g.follow /\ (b + x) + Len(g.data) = Len(w[a + 1].data)
      BY <2>4, <2>7, <3>2
    <3>4. Moves(w, <<a, b + x>>, g, <<a + 1, 0>>)
      BY <2>4, <2>5, <3>3, MoveIs
    <3>5. QED
      BY <2>2, <2>3, <3>2, <3>4
  <2>8. QED
    BY <2>6, <2>7, Zenon
<1>9. Len(FramesOf(c)) = n
  BY <1>3, FramesOfType
<1>10. QED
  BY <1>7, <1>8, <1>9 DEF Run

-----------------------------------------------------------------------------
(* The frames of the payloads that are queued. *)

LEMMA FrameIs ==
  ASSUME NEW p \in Item
  PROVE  /\ Frame(p) \in Sent /\ ~Frame(p).follow
         /\ p.frame = "payload" => Frame(p).kind = "payload" /\ Frame(p).data = p.data
         /\ p.frame # "payload" => Frame(p).data = <<>>
<1>1. /\ p.data \in Chunks /\ p.last \in BOOLEAN /\ p.frame \in {"payload", "error", "cancel"}
  BY DEF Item, Chunks
<1>2. CASE p.frame = "payload"
  <2>1. Frame(p) = writePayloadFrame(p.data, p.last, FALSE)
    BY <1>2 DEF Frame
  <2>2. Frame(p) \in Sent
    BY <1>1, <2>1, FrameTypes
  <2>3. Frame(p).kind = "payload" /\ Frame(p).data = p.data /\ Frame(p).follow = (~p.last /\ FALSE)
    BY <2>1 DEF writePayloadFrame
  <2>4. ~Frame(p).follow
    BY <2>3
  <2>5. QED
    BY <1>2, <2>2, <2>3, <2>4
<1>3. CASE p.frame # "payload"
  <2>1. Frame(p) = [kind |-> p.frame, data |-> <<>>, completed |-> FALSE, follow |-> FALSE]
    BY <1>3 DEF Frame
  <2>2. <<>> \in Seq(Nat \X Nat)
    BY EmptySeq
  <2>3. Frame(p) \in Sent
    BY <1>1, <2>1, <2>2 DEF Sent
  <2>4. QED
    BY <1>3, <2>1, <2>3
<1>4. QED
  BY <1>2, <1>3

LEMMA FramesInType ==
  ASSUME NEW s \in Seq(Item)
  PROVE  FramesIn(s) \in Seq(Sent) /\ Len(FramesIn(s)) = Len(s)
<1>1. PICK n \in Nat : n = Len(s) /\ DOMAIN s = 1 .. n
  OBVIOUS
<1>2. \A i \in 1 .. n : Frame(s[i]) \in Sent
  BY <1>1, FrameIs
<1>3. FramesIn(s) = [i \in 1 .. n |-> Frame(s[i])]
  BY <1>1 DEF FramesIn
<1>4. QED
  BY <1>1, <1>2, <1>3

LEMMA FramesInAppend ==
  ASSUME NEW s \in Seq(Item), NEW p \in Item
  PROVE  FramesIn(Append(s, p)) = FramesIn(s) \o <<Frame(p)>>
<1>1. PICK n \in Nat : n = Len(s) /\ DOMAIN s = 1 .. n
  OBVIOUS
<1>2. /\ Append(s, p) \in Seq(Item) /\ Len(Append(s, p)) = n + 1 /\ DOMAIN Append(s, p) = 1 .. n + 1
      /\ \A i \in 1 .. n : Append(s, p)[i] = s[i]
      /\ Append(s, p)[n + 1] = p
  BY <1>1
<1>3. /\ FramesIn(s) \in Seq(Sent) /\ Len(FramesIn(s)) = n /\ Frame(p) \in Sent
      /\ FramesIn(Append(s, p)) \in Seq(Sent) /\ Len(FramesIn(Append(s, p))) = n + 1
  BY <1>1, <1>2, FramesInType, FrameIs
<1>4. /\ \A i \in 1 .. n : FramesIn(s)[i] = Frame(s[i])
      /\ \A i \in 1 .. n + 1 : FramesIn(Append(s, p))[i] = Frame(Append(s, p)[i])
  BY <1>1, <1>2 DEF FramesIn
<1> DEFINE u == FramesIn(s) \o <<Frame(p)>>
<1>5. /\ u \in Seq(Sent) /\ Len(u) = n + 1
      /\ \A i \in 1 .. n : u[i] = FramesIn(s)[i]
      /\ u[n + 1] = Frame(p)
  BY <1>3
<1> HIDE DEF u
<1>6. ASSUME NEW i \in 1 .. n + 1 PROVE FramesIn(Append(s, p))[i] = u[i]
  <2>1. CASE i = n + 1
    BY <1>2, <1>4, <1>5, <2>1
  <2>2. CASE i \in 1 .. n
    BY <1>2, <1>4, <1>5, <2>2
  <2>3. i = n + 1 \/ i \in 1 .. n
    OBVIOUS
  <2>4. QED
    BY <2>1, <2>2, <2>3
<1>7. FramesIn(Append(s, p)) = u
  BY <1>3, <1>5, <1>6, SeqEqual
<1>8. QED
  BY <1>7 DEF u

LEMMA FramesInTail ==
  ASSUME NEW s \in Seq(Item), s # <<>>
  PROVE  FramesIn(s) = <<Frame(Head(s))>> \o FramesIn(Tail(s))
<1>1. PICK n \in Nat : n = Len(s) /\ DOMAIN s = 1 .. n /\ n > 0
  OBVIOUS
<1>2. /\ Tail(s) \in Seq(Item) /\ Len(Tail(s)) = n - 1 /\ DOMAIN Tail(s) = 1 .. n - 1
      /\ \A i \in 1 .. n - 1 : Tail(s)[i] = s[i + 1]
      /\ Head(s) = s[1] /\ Head(s) \in Item
  BY <1>1
<1>3. /\ FramesIn(s) \in Seq(Sent) /\ Len(FramesIn(s)) = n /\ Frame(Head(s)) \in Sent
      /\ FramesIn(Tail(s)) \in Seq(Sent) /\ Len(FramesIn(Tail(s))) = n - 1
  BY <1>1, <1>2, FramesInType, FrameIs
<1>4. /\ \A i \in 1 .. n : FramesIn(s)[i] = Frame(s[i])
      /\ \A i \in 1 .. n - 1 : FramesIn(Tail(s))[i] = Frame(Tail(s)[i])
  BY <1>1, <1>2 DEF FramesIn
<1> DEFINE u == <<Frame(Head(s))>> \o FramesIn(Tail(s))
<1>5. /\ u \in Seq(Sent) /\ Len(u) = n
      /\ u[1] = Frame(Head(s))
      /\ \A i \in 1 .. n - 1 : u[i + 1] = FramesIn(Tail(s))[i]
  BY <1>1, <1>3
<1> HIDE DEF u
<1>6. ASSUME NEW i \in 1 .. n PROVE FramesIn(s)[i] = u[i]
  <2>1. CASE i = 1
    BY <1>1, <1>2, <1>4, <1>5, <2>1
  <2>2. CASE i # 1
    <3>1. PICK k \in 1 .. n - 1 : i = k + 1
      <4>1. i - 1 \in 1 .. n - 1 /\ i = (i - 1) + 1
        BY <2>2
      <4>2. QED
        BY <4>1
    <3>2. QED
      BY <1>2, <1>4, <1>5, <3>1
  <2>3. QED
    BY <2>1, <2>2
<1>7. FramesIn(s) = u
  BY <1>3, <1>5, <1>6, SeqEqual
<1>8. QED
  BY <1>7 DEF u

-----------------------------------------------------------------------------
(* The inductive invariant. *)

Flowing == sending /\ ~thrown

\* Where the peer is.
Here == <<Len(delivered), Len(peer.fragments)>>

WholeTypes ==
  /\ wire \in Seq(Sent) /\ connected \in BOOLEAN
  /\ delivered \in Seq(Chunks)
  /\ peer \in [live : BOOLEAN, accepting : BOOLEAN, requests : Nat, fragments : Chunks]

\* The k-th payload wanted has the units <<k, 1>>, <<k, 2>>, ...
WantedPart ==
  \A k \in DOMAIN wanted :
    wanted[k].data # <<>> /\ wanted[k].data = [i \in 1 .. Len(wanted[k].data) |-> <<k, i>>]

\* Only payloads have data.
ControlPart == \A i \in DOMAIN input : input[i].frame # "payload" => input[i].data = <<>>

\* A requester whose fragmentation threw stays paused behind it.
ThrownPart == thrown /\ sending => fragmenting /\ callback = "none"

\* Nothing waits in the buffer behind a chain that is being written.
ChainPart == callback # "none" => buffer = <<>> /\ IsChain(fragments)

\* What is on its way continues what the peer has, and brings it to the end
\* of what the producer gave, unless the requester stopped.
InFlight ==
  connected /\ peer.live =>
    /\ peer.fragments = [i \in 1 .. Len(peer.fragments) |-> <<Len(delivered) + 1, i>>]
    /\ \E t \in Position : Run(wanted, Pipe, Here, t) /\ (Flowing => t = <<Len(wanted), 0>>)

\* A broken connection holds nothing.
GoneWire == ~connected => wire = <<>>

WholeInv ==
  /\ FlowInv /\ WantedOK /\ WholeTypes /\ WantedPart /\ ControlPart /\ ThrownPart /\ ChainPart
  /\ InFlight /\ GoneWire /\ DeliveredWhole

LEMMA PipeTypes ==
  ASSUME FlowInv, WholeTypes, ChainPart
  PROVE  /\ wire \in Seq(Sent) /\ ChainFrames \in Seq(Sent) /\ QueueFrames \in Seq(Sent)
         /\ buffer \in Seq(Sent) /\ input \in Seq(Item) /\ FramesIn(input) \in Seq(Sent)
         /\ Pipe \in Seq(Sent) /\ wire \o ChainFrames \in Seq(Sent)
<1>1. wire \in Seq(Sent) /\ buffer \in Seq(Sent) /\ input \in Seq(Item) /\ <<>> \in Seq(Sent)
  BY EmptySeq DEF FlowInv, FlowTypes, WholeTypes
<1>2. FramesIn(input) \in Seq(Sent)
  BY <1>1, FramesInType
<1>3. ChainFrames \in Seq(Sent)
  BY <1>1, FramesOfType DEF ChainFrames, ChainPart
<1>4. QueueFrames \in Seq(Sent)
  <2>1. buffer \o FramesIn(input) \in Seq(Sent)
    BY <1>1, <1>2
  <2>2. QED
    BY <1>1, <2>1 DEF QueueFrames
<1>5. wire \o ChainFrames \in Seq(Sent)
  BY <1>1, <1>3
<1>6. Pipe \in Seq(Sent)
  BY <1>4, <1>5 DEF Pipe
<1>7. QED
  BY <1>1, <1>2, <1>3, <1>4, <1>5, <1>6

\* A step that leaves on its way what is, or drops the end of it for good.
LEMMA FlightKept ==
  ASSUME InFlight, WantedOK, connected' => connected,
         NEW P \in Seq(Sent), NEW B \in Seq(Sent), Pipe = P \o B, Pipe' = P,
         Flowing' => Flowing /\ B = <<>>,
         UNCHANGED <<wanted, delivered>>, peer'.live = peer.live, peer'.fragments = peer.fragments
  PROVE  InFlight'
<1>1. SUFFICES ASSUME connected', peer'.live
               PROVE  \E t \in Position : Run(wanted, P, Here, t) /\ (Flowing' => t = <<Len(wanted), 0>>)
  <2>1. Here' = Here
    BY DEF Here
  <2>2. connected' /\ peer'.live =>
          peer'.fragments = [i \in 1 .. Len(peer'.fragments) |-> <<Len(delivered') + 1, i>>]
    BY DEF InFlight
  <2>3. QED
    BY <2>1, <2>2 DEF InFlight
<1>2. PICK t \in Position : Run(wanted, P \o B, Here, t) /\ (Flowing => t = <<Len(wanted), 0>>)
  BY <1>1 DEF InFlight
<1>3. CASE Flowing'
  <2>1. P \o B = P
    BY <1>3
  <2>2. QED
    BY <1>2, <1>3, <2>1
<1>4. CASE ~Flowing'
  <2>1. \E u \in Position : Run(wanted, P, Here, u) /\ Run(wanted, B, u, t)
    BY <1>2, RunSplit
  <2>2. QED
    BY <1>4, <2>1
<1>5. QED
  BY <1>3, <1>4

\* A step that leaves all of it alone.
LEMMA FlightSame ==
  ASSUME WholeInv, connected' => connected,
         Pipe' = Pipe, Flowing' => Flowing,
         UNCHANGED <<wanted, delivered>>, peer'.live = peer.live, peer'.fragments = peer.fragments
  PROVE  InFlight'
<1>1. InFlight /\ WantedOK /\ Pipe \in Seq(Sent) /\ <<>> \in Seq(Sent)
  BY PipeTypes, EmptySeq DEF WholeInv
<1>2. Pipe = Pipe \o <<>>
  BY <1>1
<1>3. PICK P \in Seq(Sent) : P = Pipe
  BY <1>1
<1>4. PICK B \in Seq(Sent) : B = <<>>
  BY <1>1
<1>5. Pipe = P \o B /\ Pipe' = P
  BY <1>2, <1>3, <1>4
<1>6. QED
  BY <1>1, <1>4, <1>5, FlightKept

\* A step that stops the requester, or leaves it alone, and what is written
\* and its chain as well.
LEMMA FlightStops ==
  ASSUME WholeInv, connected' => connected,
         wire' = wire, ChainFrames' = ChainFrames, QueueFrames' = <<>>, ~Flowing',
         UNCHANGED <<wanted, delivered>>, peer'.live = peer.live, peer'.fragments = peer.fragments
  PROVE  InFlight'
<1>1. /\ InFlight /\ WantedOK /\ wire \o ChainFrames \in Seq(Sent) /\ QueueFrames \in Seq(Sent)
  BY PipeTypes DEF WholeInv
<1>2. Pipe = (wire \o ChainFrames) \o QueueFrames
  BY DEF Pipe
<1>3. Pipe' = wire \o ChainFrames
  <2>1. Pipe' = (wire \o ChainFrames) \o <<>>
    BY DEF Pipe
  <2>2. QED
    BY <1>1, <2>1
<1>4. QED
  BY <1>1, <1>2, <1>3, FlightKept

LEMMA SeqAssoc3 ==
  \A a, b, c \in Seq(Sent) : (a \o b) \o c = a \o (b \o c)
<1>1. SUFFICES ASSUME NEW a \in Seq(Sent), NEW b \in Seq(Sent), NEW c \in Seq(Sent)
               PROVE  (a \o b) \o c = a \o (b \o c)
  OBVIOUS
<1>2. QED
  BY ConcatAssociative

LEMMA SeqShift ==
  \A a, b, c, d \in Seq(Sent) : a \o (b \o (c \o d)) = (a \o (b \o c)) \o d
<1>1. SUFFICES ASSUME NEW a \in Seq(Sent), NEW b \in Seq(Sent), NEW c \in Seq(Sent), NEW d \in Seq(Sent)
               PROVE  a \o (b \o (c \o d)) = (a \o (b \o c)) \o d
  OBVIOUS
<1>2. PICK x \in Seq(Sent) : x = b \o c
  <2>1. b \o c \in Seq(Sent)
    OBVIOUS
  <2>2. QED
    BY <2>1, Zenon
<1>3. (a \o x) \o d = a \o (x \o d)
  BY SeqAssoc3, Zenon
<1>4. (b \o c) \o d = b \o (c \o d)
  BY SeqAssoc3, Zenon
<1>5. QED
  BY <1>2, <1>3, <1>4, Zenon

-----------------------------------------------------------------------------
(* The steps of the producer. *)

LEMMA ScheduleWhole ==
  ASSUME WholeInv, NEW p \in Item, Schedule(p), p.frame # "payload" => p.data = <<>>,
         \/ wanted' = wanted /\ Frame(p).data = <<>>
         \/ /\ wanted' = Append(wanted, p) /\ p.frame = "payload" /\ p.data # <<>>
            /\ p.data = [i \in 1 .. Len(p.data) |-> <<Len(wanted) + 1, i>>]
  PROVE  WholeTypes' /\ WantedPart' /\ ControlPart' /\ ThrownPart' /\ ChainPart' /\ InFlight' /\ DeliveredWhole'
<1>1. /\ input' = Append(input, p)
      /\ UNCHANGED <<buffer, fragments, callback, thrown, sending, connected, wire, peer, delivered>>
  BY DEF Schedule, fragmentVars, closeVars, netVars, peerVars
<1>2. /\ WantedOK /\ WantedPart /\ ControlPart /\ ThrownPart /\ ChainPart /\ InFlight /\ DeliveredWhole
      /\ WholeTypes /\ input \in Seq(Item)
  BY DEF WholeInv, FlowInv, FlowTypes
<1>3. WholeTypes' /\ ThrownPart' /\ ChainPart'
  BY <1>1, <1>2 DEF WholeTypes, ThrownPart, ChainPart, fragmenting
<1>4. ControlPart'
  <2>1. PICK n \in Nat : n = Len(input) /\ DOMAIN input = 1 .. n
    BY <1>2
  <2>2. DOMAIN input' = 1 .. n + 1 /\ (\A i \in 1 .. n : input'[i] = input[i]) /\ input'[n + 1] = p
    BY <1>1, <1>2, <2>1
  <2>3. \A i \in 1 .. n + 1 : i \in 1 .. n \/ i = n + 1
    OBVIOUS
  <2>4. QED
    BY <1>2, <2>1, <2>2, <2>3 DEF ControlPart
<1>5. PICK n \in Nat : n = Len(wanted) /\ DOMAIN wanted = 1 .. n
  BY <1>2 DEF WantedOK
<1>6. wanted' = Append(wanted, p) =>
        DOMAIN wanted' = 1 .. n + 1 /\ Len(wanted') = n + 1 /\ (\A k \in 1 .. n : wanted'[k] = wanted[k]) /\ wanted'[n + 1] = p
  BY <1>2, <1>5 DEF WantedOK
<1>7. WantedPart'
  <2>1. CASE wanted' = wanted
    BY <1>2, <2>1 DEF WantedPart
  <2>2. CASE wanted' = Append(wanted, p) /\ p.data # <<>> /\ p.data = [i \in 1 .. Len(p.data) |-> <<Len(wanted) + 1, i>>]
    <3>1. \A k \in 1 .. n + 1 : k \in 1 .. n \/ k = n + 1
      OBVIOUS
    <3>2. ASSUME NEW k \in 1 .. n
          PROVE  /\ wanted'[k].data # <<>>
                 /\ wanted'[k].data = [i \in 1 .. Len(wanted'[k].data) |-> <<k, i>>]
      <4>1. wanted'[k] = wanted[k]
        BY <1>6, <2>2
      <4>2. wanted[k].data # <<>> /\ wanted[k].data = [i \in 1 .. Len(wanted[k].data) |-> <<k, i>>]
        BY <1>2, <1>5, Zenon DEF WantedPart
      <4>3. QED
        BY <4>1, <4>2, Zenon
    <3>3. /\ wanted'[n + 1].data # <<>>
          /\ wanted'[n + 1].data = [i \in 1 .. Len(wanted'[n + 1].data) |-> <<n + 1, i>>]
      <4>1. wanted'[n + 1] = p /\ Len(wanted) = n
        BY <1>5, <1>6, <2>2
      <4>2. QED
        BY <2>2, <4>1, Zenon
    <3>4. DOMAIN wanted' = 1 .. n + 1
      BY <1>6, <2>2
    <3>5. QED
      BY <3>1, <3>2, <3>3, <3>4, Zenon DEF WantedPart
  <2>3. QED
    BY <2>1, <2>2
<1>8. DeliveredWhole'
  <2>1. Len(delivered) \in Nat /\ DOMAIN delivered = 1 .. Len(delivered) /\ Len(delivered) <= n
    BY <1>2, <1>5 DEF WholeTypes, DeliveredWhole
  <2>2. \A i \in DOMAIN delivered : i \in 1 .. n /\ delivered[i] = wanted[i].data
    BY <1>2, <2>1 DEF DeliveredWhole
  <2>3. QED
    BY <1>1, <1>5, <1>6, <2>1, <2>2 DEF DeliveredWhole
<1>9. /\ wire \o ChainFrames \in Seq(Sent) /\ buffer \in Seq(Sent) /\ FramesIn(input) \in Seq(Sent)
      /\ Pipe \in Seq(Sent) /\ Frame(p) \in Sent /\ ~Frame(p).follow
  BY PipeTypes, FrameIs DEF WholeInv
<1>10. ChainFrames' = ChainFrames /\ Flowing' = Flowing /\ Here' = Here
  BY <1>1 DEF ChainFrames, Flowing, Here
<1>11. CASE ~Flowing
  <2>1. Pipe' = Pipe
    BY <1>1, <1>10, <1>11 DEF Pipe, QueueFrames, Flowing
  <2>2. ASSUME NEW t, Run(wanted, Pipe, Here, t) PROVE Run(wanted', Pipe, Here, t)
    BY <1>2, <1>9, <2>2, RunMore DEF WantedOK
  <2>3. QED
    BY <1>1, <1>2, <1>3, <1>4, <1>7, <1>8, <1>10, <1>11, <2>1, <2>2 DEF InFlight
<1>12. CASE Flowing
  <2>1. Pipe' = Pipe \o <<Frame(p)>>
    <3>1. FramesIn(input') = FramesIn(input) \o <<Frame(p)>>
      BY <1>1, <1>2, FramesInAppend
    <3>2. Pipe = (wire \o ChainFrames) \o (buffer \o FramesIn(input))
      BY <1>12 DEF Pipe, QueueFrames, Flowing
    <3>3. Pipe' = (wire \o ChainFrames) \o (buffer \o (FramesIn(input) \o <<Frame(p)>>))
      BY <1>1, <1>10, <1>12, <3>1 DEF Pipe, QueueFrames, Flowing
    <3>4. PICK a \in Seq(Sent), b \in Seq(Sent), c \in Seq(Sent), d \in Seq(Sent) :
            a = wire \o ChainFrames /\ b = buffer /\ c = FramesIn(input) /\ d = <<Frame(p)>>
      <4>1. <<Frame(p)>> \in Seq(Sent)
        BY <1>9
      <4>2. QED
        BY <1>9, <4>1, Zenon
    <3>5. a \o (b \o (c \o d)) = (a \o (b \o c)) \o d
      <4>1. a \in Seq(Sent) /\ b \in Seq(Sent) /\ c \in Seq(Sent) /\ d \in Seq(Sent)
        BY <3>4
      <4>2. \A x, y \in Seq(Sent) : a \o (b \o (x \o y)) = (a \o (b \o x)) \o y
        BY <4>1, SeqShift, Zenon
      <4>3. QED
        BY <4>1, <4>2, Zenon
    <3>6. QED
      BY <3>2, <3>3, <3>4, <3>5, Zenon
  <2>2. SUFFICES ASSUME connected, peer.live
                 PROVE  Run(wanted', Pipe \o <<Frame(p)>>, Here, <<Len(wanted'), 0>>)
    <3>1. <<Len(wanted'), 0>> \in Position
      BY <1>5, <1>6 DEF Position
    <3>2. QED
      BY <1>1, <1>2, <1>3, <1>4, <1>7, <1>8, <1>10, <1>12, <2>1, <3>1 DEF InFlight
  <2>3. Run(wanted, Pipe, Here, <<n, 0>>) /\ <<n, 0>> \in Position
    BY <1>2, <1>5, <1>12, <2>2 DEF InFlight
  <2>4. Run(wanted', Pipe, Here, <<n, 0>>)
    BY <1>2, <1>9, <2>3, RunMore DEF WantedOK
  <2>5. Moves(wanted', <<n, 0>>, Frame(p), <<Len(wanted'), 0>>) /\ <<Len(wanted'), 0>> \in Position
    <3>1. CASE wanted' = wanted /\ Frame(p).data = <<>>
      BY <1>5, <2>3, <3>1 DEF Moves
    <3>2. CASE /\ wanted' = Append(wanted, p) /\ p.frame = "payload" /\ p.data # <<>>
               /\ p.data = [i \in 1 .. Len(p.data) |-> <<Len(wanted) + 1, i>>]
      <4>1. Frame(p).data = p.data /\ Frame(p).kind = "payload"
        BY <3>2, FrameIs
      <4>2. Len(p.data) \in Nat
        BY DEF Item
      <4>3. p.data = [i \in 1 .. Len(p.data) |-> <<n + 1, 0 + i>>]
        <5>1. PICK m \in Nat : m = Len(p.data)
          BY <4>2
        <5>2. \A i \in 1 .. m : 0 + i = i
          OBVIOUS
        <5>3. [i \in 1 .. m |-> <<n + 1, i>>] = [i \in 1 .. m |-> <<n + 1, 0 + i>>]
          BY <5>2
        <5>4. p.data = [i \in 1 .. m |-> <<n + 1, i>>]
          BY <1>5, <3>2, <5>1, Zenon
        <5>5. QED
          BY <5>1, <5>3, <5>4, Zenon
      <4>4. n + 1 \in DOMAIN wanted' /\ 0 + Len(p.data) = Len(wanted'[n + 1].data) /\ Len(wanted') = n + 1
        BY <1>6, <3>2, <4>2
      <4>5. Moves(wanted', <<n, 0>>, Frame(p), <<n + 1, 0>>)
        BY <1>9, <3>2, <4>1, <4>3, <4>4, MoveIs
      <4>6. QED
        BY <4>4, <4>5 DEF Position
    <3>3. QED
      BY <3>1, <3>2
  <2>6. Run(wanted', <<Frame(p)>>, <<n, 0>>, <<Len(wanted'), 0>>)
    BY <1>9, <2>3, <2>5, RunOne
  <2>7. <<Frame(p)>> \in Seq(Sent)
    BY <1>9
  <2>8. QED
    BY <1>9, <2>4, <2>6, <2>7, RunConcat
<1>13. QED
  BY <1>11, <1>12

-----------------------------------------------------------------------------
(* The steps of _send. *)

LEMMA SeqEmpty ==
  \A a \in Seq(Sent) : a \o <<>> = a /\ <<>> \o a = a
  BY ConcatEmptySeq

\* Without a chain the queue follows what is written.
LEMMA PipeQuiet ==
  ASSUME NEW a \in Seq(Sent), NEW q \in Seq(Sent)
  PROVE  /\ callback = "none" /\ wire = a /\ QueueFrames = q => Pipe = a \o q
         /\ callback' = "none" /\ wire' = a /\ QueueFrames' = q => Pipe' = a \o q
<1>1. a \o <<>> = a
  BY SeqEmpty
<1>2. QED
  BY <1>1 DEF Pipe, ChainFrames

\* What a requester that sends has before it takes the next payload.
LEMMA SendQueue ==
  ASSUME WholeInv, Send, sending
  PROVE  \E p \in Item, a, b, r \in Seq(Sent) :
           /\ p = Head(input) /\ a = wire /\ b = buffer /\ r = FramesIn(input')
           /\ <<Frame(p)>> \in Seq(Sent) /\ Pipe = a \o (b \o (<<Frame(p)>> \o r))
           /\ p.frame # "payload" => p.data = <<>>
           /\ callback = "none" /\ ~fragmenting /\ ~thrown /\ Flowing
           /\ ControlPart'
           /\ UNCHANGED <<connected, peer, wanted, delivered>>
<1>1. /\ input # <<>> /\ input' = Tail(input) /\ input' \in Seq(Item) /\ Head(input) \in Item
      /\ ~fragmenting /\ callback = "none"
  BY SendIs DEF WholeInv
<1>2. UNCHANGED <<connected, peer, wanted, delivered>>
  BY DEF Send, peerVars, history
<1>3. ~thrown /\ Flowing
  BY <1>1 DEF WholeInv, ThrownPart, Flowing
<1>4. wire \in Seq(Sent) /\ buffer \in Seq(Sent) /\ input \in Seq(Item) /\ QueueFrames \in Seq(Sent)
  BY PipeTypes DEF WholeInv
<1>5. PICK p \in Item : p = Head(input)
  BY <1>1
<1>6. FramesIn(input') \in Seq(Sent) /\ Frame(p) \in Sent
  BY <1>1, FramesInType, FrameIs
<1>7. FramesIn(input) = <<Frame(p)>> \o FramesIn(input')
  BY <1>1, <1>4, <1>5, FramesInTail
<1>8. QueueFrames = buffer \o (<<Frame(p)>> \o FramesIn(input'))
  BY <1>3, <1>7 DEF QueueFrames, Flowing
<1>9. Pipe = wire \o (buffer \o (<<Frame(p)>> \o FramesIn(input')))
  BY <1>1, <1>4, <1>8, PipeQuiet
<1>10. ControlPart' /\ (p.frame # "payload" => p.data = <<>>)
  <2>1. PICK n \in Nat : n = Len(input) /\ DOMAIN input = 1 .. n /\ n > 0
    BY <1>1, <1>4
  <2>2. DOMAIN input' = 1 .. n - 1 /\ (\A i \in 1 .. n - 1 : input'[i] = input[i + 1]) /\ p = input[1]
    BY <1>1, <1>4, <1>5, <2>1
  <2>3. 1 \in 1 .. n /\ \A i \in 1 .. n - 1 : i + 1 \in 1 .. n
    BY <2>1
  <2>4. ControlPart
    BY DEF WholeInv
  <2>5. QED
    BY <2>1, <2>2, <2>3, <2>4 DEF ControlPart
<1>11. <<Frame(p)>> \in Seq(Sent)
  BY <1>6
<1>12. QED
  BY <1>1, <1>2, <1>3, <1>4, <1>5, <1>6, <1>9, <1>10, <1>11, Zenon

\* The parts of the invariant besides InFlight, behind a step that writes no chain.
LEMMA PartsKept ==
  ASSUME WholeInv, wire' \in Seq(Sent), UNCHANGED <<connected, peer, delivered>>,
         callback' = "none" \/ (callback' = callback /\ buffer' = buffer /\ fragments' = fragments),
         thrown' /\ sending' => fragments'.active /\ callback' = "none"
  PROVE  WholeTypes' /\ ThrownPart' /\ ChainPart'
  BY DEF WholeInv, WholeTypes, ThrownPart, ChainPart, fragmenting

LEMMA DropWhole ==
  ASSUME WholeInv, Send, ~sending
  PROVE  WholeTypes' /\ ControlPart' /\ ThrownPart' /\ ChainPart' /\ InFlight'
<1>1. /\ UNCHANGED <<buffer, fragments, callback, thrown, sending, wire, connected, peer, wanted, delivered>>
      /\ input # <<>> /\ input' = Tail(input)
  BY DEF Send, fragmentVars, closeVars, peerVars, history
<1>2. wire' \in Seq(Sent) /\ input \in Seq(Item)
  BY <1>1, PipeTypes DEF WholeInv
<1>3. WholeTypes' /\ ThrownPart' /\ ChainPart'
  BY <1>1, <1>2, PartsKept
<1>4. ControlPart'
  <2>1. PICK n \in Nat : n = Len(input) /\ DOMAIN input = 1 .. n /\ n > 0
    BY <1>1, <1>2
  <2>2. DOMAIN input' = 1 .. n - 1 /\ (\A i \in 1 .. n - 1 : input'[i] = input[i + 1])
    BY <1>1, <1>2, <2>1
  <2>3. \A i \in 1 .. n - 1 : i + 1 \in 1 .. n
    BY <2>1
  <2>4. ControlPart
    BY DEF WholeInv
  <2>5. QED
    BY <2>1, <2>2, <2>3, <2>4 DEF ControlPart
<1>5. ~Flowing /\ ~Flowing' /\ QueueFrames = <<>> /\ QueueFrames' = <<>> /\ ChainFrames' = ChainFrames
  BY <1>1 DEF Flowing, QueueFrames, ChainFrames
<1>6. InFlight'
  BY <1>1, <1>5, FlightStops
<1>7. QED
  BY <1>3, <1>4, <1>6

\* The last payload: nothing is written behind it.
LEMMA SendLastWhole ==
  ASSUME WholeInv, Send, sending, SendLast(Head(input))
  PROVE  WholeTypes' /\ ControlPart' /\ ThrownPart' /\ ChainPart' /\ InFlight'
<1>1. PICK p \in Item, a \in Seq(Sent), b \in Seq(Sent), r \in Seq(Sent) :
        /\ p = Head(input) /\ a = wire /\ b = buffer /\ r = FramesIn(input')
        /\ <<Frame(p)>> \in Seq(Sent) /\ Pipe = a \o (b \o (<<Frame(p)>> \o r))
        /\ callback = "none" /\ Flowing
        /\ ControlPart'
        /\ UNCHANGED <<connected, peer, wanted, delivered>>
  BY SendQueue
<1>2. /\ Write(Append(buffer, Frame(p))) /\ sending' = FALSE /\ callback' = callback
  BY <1>1 DEF SendLast, Closed
<1>3. PICK f \in Seq(Sent) : f = <<Frame(p)>> /\ Append(b, Frame(p)) = b \o f
  <2>1. Append(b, Frame(p)) = b \o <<Frame(p)>>
    BY <1>1, FrameIs
  <2>2. QED
    BY <1>1, <2>1, Zenon
<1>4. a \o (b \o f) \in Seq(Sent) /\ wire' = IF connected THEN a \o (b \o f) ELSE a
  <2>1. a \o (b \o f) \in Seq(Sent)
    BY <1>1, <1>3
  <2>2. wire' = IF connected THEN a \o (b \o f) ELSE a
    BY <1>1, <1>2, <1>3 DEF Write
  <2>3. QED
    BY <2>1, <2>2
<1>5. WholeTypes' /\ ThrownPart' /\ ChainPart'
  <2>1. wire' \in Seq(Sent)
    BY <1>1, <1>4
  <2>2. QED
    BY <1>1, <1>2, <2>1, PartsKept
<1>6. InFlight'
  <2>1. CASE ~connected
    BY <1>1, <2>1 DEF InFlight
  <2>2. CASE connected
    <3>1. PICK P \in Seq(Sent) : P = a \o (b \o f)
      BY <1>4
    <3>2. Pipe = P \o r
      <4>1. \A x, y \in Seq(Sent) : a \o (b \o (x \o y)) = (a \o (b \o x)) \o y
        BY <1>1, SeqShift, Zenon
      <4>2. a \o (b \o (f \o r)) = (a \o (b \o f)) \o r
        BY <1>1, <1>3, <4>1, Zenon
      <4>3. QED
        BY <1>1, <1>3, <3>1, <4>2
    <3>3. QueueFrames' = <<>> /\ ~Flowing'
      BY <1>2 DEF QueueFrames, Flowing
    <3>4. Pipe' = P
      <4>1. wire' = P /\ <<>> \in Seq(Sent) /\ P \o <<>> = P
        BY <1>4, <2>2, <3>1, SeqEmpty, EmptySeq
      <4>2. QED
        BY <1>1, <1>2, <3>3, <4>1, PipeQuiet
    <3>5. InFlight /\ WantedOK
      BY DEF WholeInv
    <3>6. QED
      BY <1>1, <3>2, <3>3, <3>4, <3>5, FlightKept
  <2>3. QED
    BY <2>1, <2>2
<1>7. QED
  BY <1>1, <1>5, <1>6

\* A payload that is neither last nor large waits behind the buffer.
LEMMA SendNextWhole ==
  ASSUME WholeInv, Send, sending, SendNext(Head(input))
  PROVE  WholeTypes' /\ ControlPart' /\ ThrownPart' /\ ChainPart' /\ InFlight'
<1>1. PICK p \in Item, a \in Seq(Sent), b \in Seq(Sent), r \in Seq(Sent) :
        /\ p = Head(input) /\ a = wire /\ b = buffer /\ r = FramesIn(input')
        /\ <<Frame(p)>> \in Seq(Sent) /\ Pipe = a \o (b \o (<<Frame(p)>> \o r))
        /\ callback = "none" /\ ~thrown /\ Flowing
        /\ ControlPart'
        /\ UNCHANGED <<connected, peer, wanted, delivered>>
  BY SendQueue
<1>2. UNCHANGED <<fragments, callback, thrown, sending>>
  BY <1>1 DEF SendNext, fragmentVars, closeVars
<1>3. PICK f \in Seq(Sent) : f = <<Frame(p)>> /\ Append(b, Frame(p)) = b \o f
  <2>1. Append(b, Frame(p)) = b \o <<Frame(p)>>
    BY <1>1, FrameIs
  <2>2. QED
    BY <1>1, <2>1, Zenon
<1>4. PICK g \in Seq(Sent) : g = b \o f
  <2>1. b \o f \in Seq(Sent)
    BY <1>1, <1>3
  <2>2. QED
    BY <2>1, Zenon
<1>5. \/ wire' = (IF connected THEN a \o g ELSE a) /\ buffer' = <<>>
      \/ wire' = a /\ buffer' = g
  <2>1. \/ Write(g) /\ buffer' = <<>>
        \/ buffer' = g /\ wire' = wire
    BY <1>1, <1>3, <1>4 DEF SendNext
  <2>2. QED
    BY <1>1, <2>1 DEF Write
<1>6. a \o g \in Seq(Sent) /\ g \o r \in Seq(Sent) /\ r \in Seq(Sent)
  BY <1>1, <1>4
<1>7. WholeTypes' /\ ThrownPart' /\ ChainPart'
  <2>1. wire' \in Seq(Sent)
    BY <1>1, <1>5, <1>6
  <2>2. QED
    BY <1>1, <1>2, <2>1, PartsKept
<1>8. Pipe = a \o (g \o r) /\ a \o (g \o r) = (a \o g) \o r
  <2>1. \A x, y \in Seq(Sent) : (a \o x) \o y = a \o (x \o y)
    BY <1>1, SeqAssoc3, Zenon
  <2>2. \A x, y \in Seq(Sent) : (b \o x) \o y = b \o (x \o y)
    BY <1>1, SeqAssoc3, Zenon
  <2>3. a \o (g \o r) = (a \o g) \o r
    BY <1>1, <1>4, <2>1, Zenon
  <2>4. b \o (f \o r) = (b \o f) \o r
    BY <1>1, <1>3, <2>2, Zenon
  <2>5. QED
    BY <1>1, <1>3, <1>4, <2>3, <2>4
<1>9. InFlight'
  <2>1. CASE ~connected
    BY <1>1, <2>1 DEF InFlight
  <2>2. CASE connected
    <3>1. QueueFrames' = buffer' \o r /\ Flowing'
      BY <1>1, <1>2 DEF QueueFrames, Flowing
    <3>2. CASE wire' = a \o g /\ buffer' = <<>>
      <4>1. QueueFrames' = r
        BY <1>6, <3>1, <3>2, SeqEmpty
      <4>2. PICK q \in Seq(Sent) : q = a \o g
        BY <1>6
      <4>3. Pipe' = q \o r
        BY <1>1, <1>2, <3>2, <4>1, <4>2, PipeQuiet
      <4>4. QED
        BY <1>1, <1>8, <3>1, <4>2, <4>3, FlightSame
    <3>3. CASE wire' = a /\ buffer' = g
      <4>1. PICK q \in Seq(Sent) : q = g \o r
        BY <1>6
      <4>2. Pipe' = a \o q
        BY <1>1, <1>2, <3>1, <3>3, <4>1, PipeQuiet
      <4>3. QED
        BY <1>1, <1>8, <3>1, <4>1, <4>2, FlightSame
    <3>4. QED
      BY <1>5, <2>2, <3>2, <3>3
  <2>3. QED
    BY <2>1, <2>2
<1>10. QED
  BY <1>1, <1>7, <1>9

\* A frame on its way may be replaced by frames that take the peer as far.
LEMMA RunReplace ==
  ASSUME NEW w, NEW a \in Seq(Sent), NEW f \in Sent, NEW c \in Seq(Sent), NEW r \in Seq(Sent), NEW s, NEW t,
         Run(w, a \o (<<f>> \o r), s, t),
         \A u, v \in Position : Moves(w, u, f, v) => Run(w, c, u, v)
  PROVE  Run(w, a \o (c \o r), s, t)
<1>1. <<f>> \in Seq(Sent) /\ <<f>> \o r \in Seq(Sent) /\ c \o r \in Seq(Sent)
  BY ConcatProperties
<1>2. PICK u \in Position : Run(w, a, s, u) /\ Run(w, <<f>> \o r, u, t)
  BY <1>1, RunSplit
<1>3. PICK v \in Position : Run(w, <<f>>, u, v) /\ Run(w, r, v, t)
  BY <1>1, <1>2, RunSplit
<1>4. Run(w, c, u, v)
  BY <1>2, <1>3, RunHead
<1>5. Run(w, c \o r, u, t)
  BY <1>3, <1>4, RunConcat
<1>6. QED
  BY <1>1, <1>2, <1>5, RunConcat

LEMMA ChainStarts ==
  ASSUME NEW d \in Chunks, Len(d) > FrameMaxSize, Divides(d), NEW last \in BOOLEAN, NEW c,
         c = [active |-> TRUE, left |-> disassemble(d), number |-> 0, count |-> Len(disassemble(d)), last |-> last]
  PROVE  IsChain(c)
<1>1. PICK L \in Nat, F \in Nat : L = Len(d) /\ F = FragmentSize /\ F > 0
  BY StreamAssumption DEF Chunks
<1>2. PICK n \in Nat : n = L \div F /\ n * F = L
  <2>1. L % F = 0
    BY <1>1 DEF Divides
  <2>2. PICK q \in Int : q = L \div F
    BY <1>1
  <2>3. L = F * q + 0 /\ F * q = q * F
    BY <1>1, <2>1, <2>2
  <2>4. q >= 0
    BY <1>1, <2>3
  <2>5. QED
    BY <2>2, <2>3, <2>4
<1>3. disassemble(d) = [i \in 1 .. n |-> SubSeq(d, ((i - 1) * F) + 1, i * F)]
  BY <1>1, <1>2 DEF disassemble
<1>4. ASSUME NEW i \in 1 .. n
      PROVE  SubSeq(d, ((i - 1) * F) + 1, i * F) \in Chunks
  <2>1. PICK x \in Nat, y \in Nat : x = (i - 1) * F /\ y = i * F
    BY <1>1
  <2>2. y <= L
    <3>1. PICK m \in Nat : m = n - i
      OBVIOUS
    <3>2. n * F = i * F + m * F /\ m * F \in Nat
      BY <1>1, <3>1
    <3>3. PICK z \in Nat : z = m * F
      BY <3>2
    <3>4. L = y + z
      BY <1>2, <2>1, <3>2, <3>3
    <3>5. QED
      BY <3>4
  <2>3. \A j \in x + 1 .. y : d[j] \in Nat \X Nat
    BY <1>1, <2>2 DEF Chunks
  <2>4. SubSeq(d, x + 1, y) \in Seq(Nat \X Nat)
    BY <1>1, <2>1, <2>2, <2>3 DEF Chunks
  <2>5. QED
    BY <2>1, <2>4 DEF Chunks
<1>5. disassemble(d) \in Seq(Chunks) /\ Len(disassemble(d)) = n
  BY <1>3, <1>4
<1>6. QED
  BY <1>5 DEF IsChain

\* A large payload becomes a chain of fragments, written behind the buffer.
LEMMA SendFragmentedWhole ==
  ASSUME WholeInv, Send, sending, SendFragmented(Head(input))
  PROVE  WholeTypes' /\ ControlPart' /\ ThrownPart' /\ ChainPart' /\ InFlight'
<1>1. PICK p \in Item, a \in Seq(Sent), b \in Seq(Sent), r \in Seq(Sent) :
        /\ p = Head(input) /\ a = wire /\ b = buffer /\ r = FramesIn(input')
        /\ <<Frame(p)>> \in Seq(Sent) /\ Pipe = a \o (b \o (<<Frame(p)>> \o r))
        /\ p.frame # "payload" => p.data = <<>>
        /\ callback = "none" /\ ~thrown /\ Flowing
        /\ ControlPart'
        /\ UNCHANGED <<connected, peer, wanted, delivered>>
  BY SendQueue
<1>2. Len(p.data) > FrameMaxSize /\ thrown' = (thrown \/ ~Divides(p.data)) /\ sending' = sending
  BY <1>1 DEF SendFragmented, closeVars
<1>3. p.data \in Chunks /\ p.last \in BOOLEAN
  BY DEF Item, Chunks
<1>4. CASE ~Divides(p.data)
  <2>1. /\ fragments' = [fragments EXCEPT !.active = TRUE] /\ thrown' = TRUE
        /\ UNCHANGED <<wire, callback, pending, buffer>>
    BY <1>1, <1>2, <1>4 DEF SendFragmented
  <2>2. fragments'.active = TRUE
    BY <2>1 DEF WholeInv, FlowInv, FlowTypes
  <2>3. WholeTypes' /\ ThrownPart' /\ ChainPart'
    BY <1>1, <2>1, <2>2, PartsKept
  <2>4. ChainFrames' = ChainFrames /\ QueueFrames' = <<>> /\ ~Flowing'
    BY <1>1, <2>1 DEF ChainFrames, QueueFrames, Flowing
  <2>5. InFlight'
    BY <1>1, <2>1, <2>4, FlightStops
  <2>6. QED
    BY <1>1, <2>3, <2>5
<1>5. CASE Divides(p.data)
  <2>1. PICK c : c = [active |-> TRUE, left |-> disassemble(p.data), number |-> 0,
                      count |-> Len(disassemble(p.data)), last |-> p.last]
    OBVIOUS
  <2>2. \/ buffer = <<>> /\ fragmentate(c)
        \/ fragments' = c /\ Write(buffer) /\ Await("fragmentate") /\ buffer' = <<>>
    BY <1>1, <1>5, <2>1 DEF SendFragmented
  <2>3. IsChain(c) /\ c.number = 0 /\ c.left = disassemble(p.data)
    BY <1>2, <1>3, <1>5, <2>1, ChainStarts
  <2>4. ~thrown' /\ Flowing'
    BY <1>1, <1>2, <1>5 DEF Flowing
  <2>5. CASE ~connected
    <3>1. wire' = wire /\ callback' = "none"
      BY <2>2, <2>5 DEF fragmentate, Write, Await
    <3>2. wire' \in Seq(Sent)
      BY <1>1, <3>1
    <3>3. WholeTypes' /\ ThrownPart' /\ ChainPart'
      BY <1>1, <2>4, <3>1, <3>2, PartsKept
    <3>4. QED
      BY <1>1, <2>5, <3>3 DEF InFlight
  <2>6. CASE connected
    <3>1. PICK g \in Seq(Sent), h \in Seq(Sent) : g = a \o b /\ h = FramesOf(c)
      <4>1. a \o b \in Seq(Sent) /\ FramesOf(c) \in Seq(Sent)
        BY <1>1, <2>3, FramesOfType
      <4>2. QED
        BY <4>1, Zenon
    <3>2. /\ wire' \in Seq(Sent) /\ IsChain(fragments') /\ callback' # "none" /\ buffer' = <<>>
          /\ wire' \o FramesOf(fragments') = g \o h
      <4>1. CASE buffer = <<>> /\ fragmentate(c)
        <5>1. PICK batch \in Seq(Sent) :
                /\ IsChain(fragments') /\ FramesOf(c) = batch \o FramesOf(fragments')
                /\ wire' = wire \o (buffer \o batch)
                /\ callback' = "next" /\ buffer' = <<>>
          BY <2>3, <2>6, <4>1, BatchIs
        <5>2. buffer \o batch = batch /\ g = a
          BY <1>1, <3>1, <4>1, <5>1, SeqEmpty
        <5>3. PICK rest \in Seq(Sent) : rest = FramesOf(fragments')
          BY <5>1, FramesOfType
        <5>4. (a \o batch) \o rest = a \o (batch \o rest) /\ a \o batch \in Seq(Sent)
          <6>1. \A x, y \in Seq(Sent) : (a \o x) \o y = a \o (x \o y)
            BY <1>1, SeqAssoc3, Zenon
          <6>2. (a \o batch) \o rest = a \o (batch \o rest)
            BY <5>1, <5>3, <6>1, Zenon
          <6>3. a \o batch \in Seq(Sent)
            BY <1>1, <5>1
          <6>4. QED
            BY <6>2, <6>3
        <5>5. QED
          BY <1>1, <3>1, <5>1, <5>2, <5>3, <5>4
      <4>2. CASE fragments' = c /\ Write(buffer) /\ Await("fragmentate") /\ buffer' = <<>>
        <5>1. wire' = a \o b /\ callback' = "fragmentate"
          BY <1>1, <2>6, <4>2 DEF Write, Await
        <5>2. QED
          BY <2>3, <3>1, <4>2, <5>1
      <4>3. QED
        BY <2>2, <4>1, <4>2
    <3>3. WholeTypes' /\ ThrownPart' /\ ChainPart'
      BY <1>1, <2>4, <3>2 DEF WholeInv, WholeTypes, ThrownPart, ChainPart
    <3>4. Pipe' = g \o (h \o r)
      <4>1. QueueFrames' = r
        <5>1. QueueFrames' = <<>> \o r
          BY <1>1, <2>4, <3>2 DEF QueueFrames, Flowing
        <5>2. QED
          BY <1>1, <5>1, SeqEmpty
      <4>2. ChainFrames' = FramesOf(fragments')
        BY <3>2 DEF ChainFrames
      <4>3. Pipe' = (g \o h) \o r
        BY <3>2, <4>1, <4>2 DEF Pipe
      <4>4. \A x, y \in Seq(Sent) : (g \o x) \o y = g \o (x \o y)
        BY <3>1, SeqAssoc3, Zenon
      <4>5. (g \o h) \o r = g \o (h \o r)
        BY <1>1, <3>1, <4>4, Zenon
      <4>6. QED
        BY <4>3, <4>5
    <3>5. Pipe = g \o (<<Frame(p)>> \o r)
      <4>1. PICK f \in Seq(Sent), e \in Seq(Sent) : f = <<Frame(p)>> /\ e = f \o r
        <5>1. <<Frame(p)>> \o r \in Seq(Sent)
          BY <1>1
        <5>2. QED
          BY <1>1, <5>1, Zenon
      <4>2. a \in Seq(Sent) /\ b \in Seq(Sent)
        BY <1>1, Zenon
      <4>21. \A x, y \in Seq(Sent) : (a \o x) \o y = a \o (x \o y)
        BY <4>2, SeqAssoc3, Zenon
      <4>3. (a \o b) \o e = a \o (b \o e)
        BY <4>1, <4>2, <4>21, Zenon
      <4>4. QED
        BY <1>1, <3>1, <4>1, <4>3
    <3>6. ASSUME NEW u \in Position, NEW v \in Position, Moves(wanted, u, Frame(p), v)
          PROVE  Run(wanted, h, u, v)
      <4>1. p.frame = "payload"
        <5>1. Len(p.data) > 0
          BY <1>2, <1>3, StreamAssumption DEF Chunks
        <5>2. QED
          BY <1>1, <5>1
      <4>2. Frame(p) \in Sent /\ Frame(p).data = p.data /\ ~Frame(p).follow
        BY <4>1, FrameIs
      <4>3. PICK f \in Sent : f = Frame(p)
        BY <4>2
      <4>4. Run(wanted, FramesOf(c), u, v)
        BY <1>2, <1>3, <1>5, <2>3, <3>6, <4>2, <4>3, FragmentsRun
      <4>5. QED
        BY <3>1, <4>4
    <3>7. InFlight'
      <4>1. SUFFICES ASSUME peer.live
                     PROVE  Run(wanted, g \o (h \o r), Here, <<Len(wanted), 0>>)
        <5>1. Here' = Here /\ <<Len(wanted), 0>> \in Position
          BY <1>1 DEF Here, WholeInv, WantedOK, Position
        <5>2. InFlight
          BY DEF WholeInv
        <5>3. QED
          BY <1>1, <2>4, <2>6, <3>4, <5>1, <5>2 DEF InFlight
      <4>2. Run(wanted, g \o (<<Frame(p)>> \o r), Here, <<Len(wanted), 0>>)
        BY <1>1, <2>6, <3>5, <4>1 DEF WholeInv, InFlight
      <4>3. QED
        BY <1>1, <3>1, <3>6, <4>2, FrameIs, RunReplace
    <3>8. QED
      BY <1>1, <3>3, <3>7
  <2>7. QED
    BY <2>5, <2>6
<1>6. QED
  BY <1>4, <1>5

LEMMA SendWhole ==
  ASSUME WholeInv, Send
  PROVE  /\ WholeTypes' /\ ControlPart' /\ ThrownPart' /\ ChainPart' /\ InFlight'
         /\ UNCHANGED <<wanted, delivered>>
<1>1. UNCHANGED <<wanted, delivered>>
  BY DEF Send, peerVars, history
<1>2. CASE ~sending
  BY <1>1, <1>2, DropWhole
<1>3. CASE sending
  <2>1. SendFragmented(Head(input)) \/ SendLast(Head(input)) \/ SendNext(Head(input))
    BY <1>3 DEF Send
  <2>2. QED
    BY <1>1, <1>3, <2>1, SendFragmentedWhole, SendLastWhole, SendNextWhole
<1>4. QED
  BY <1>2, <1>3

-----------------------------------------------------------------------------
(* The chain goes on or ends. *)

LEMMA BatchWhole ==
  ASSUME WholeInv, callback # "none", fragmentate(fragments),
         UNCHANGED <<input, sending, thrown, connected, peer, wanted, delivered>>
  PROVE  WholeTypes' /\ ThrownPart' /\ ChainPart' /\ InFlight'
<1>1. /\ WholeTypes /\ ThrownPart /\ ChainPart /\ InFlight /\ buffer = <<>> /\ IsChain(fragments)
  BY DEF WholeInv, ChainPart
<1>2. ~(thrown /\ sending)
  BY <1>1 DEF ThrownPart
<1>3. CASE ~connected
  <2>1. wire' = wire /\ callback' = "none"
    BY <1>3 DEF fragmentate, Write, Await
  <2>2. QED
    BY <1>1, <1>2, <1>3, <2>1 DEF WholeTypes, ThrownPart, ChainPart, InFlight
<1>4. CASE connected
  <2>1. PICK batch \in Seq(Sent) :
          /\ IsChain(fragments') /\ FramesOf(fragments) = batch \o FramesOf(fragments')
          /\ wire' = wire \o (buffer \o batch)
          /\ callback' = "next" /\ buffer' = <<>>
    BY <1>1, <1>4, BatchIs
  <2>2. PICK a \in Seq(Sent), rest \in Seq(Sent) : a = wire /\ rest = FramesOf(fragments')
    BY <1>1, <2>1, FramesOfType DEF WholeTypes
  <2>3. wire' = a \o batch /\ wire' \in Seq(Sent)
    <3>1. buffer \o batch = batch
      BY <1>1, <2>1, SeqEmpty
    <3>2. a \o batch \in Seq(Sent)
      BY <2>1, <2>2
    <3>3. QED
      BY <2>1, <2>2, <3>1, <3>2
  <2>4. WholeTypes' /\ ThrownPart' /\ ChainPart'
    BY <1>1, <1>2, <2>1, <2>3 DEF WholeTypes, ThrownPart, ChainPart
  <2>5. Pipe' = Pipe
    <3>1. \A x, y \in Seq(Sent) : (a \o x) \o y = a \o (x \o y)
      BY <2>2, SeqAssoc3, Zenon
    <3>2. (a \o batch) \o rest = a \o (batch \o rest)
      BY <2>1, <2>2, <3>1, Zenon
    <3>3. ChainFrames = batch \o rest /\ ChainFrames' = rest
      BY <2>1, <2>2 DEF ChainFrames
    <3>4. QueueFrames' = QueueFrames
      BY <1>1, <2>1 DEF QueueFrames
    <3>5. QED
      BY <2>2, <2>3, <3>2, <3>3, <3>4 DEF Pipe
  <2>6. InFlight'
    BY <2>5, FlightSame DEF Flowing
  <2>7. QED
    BY <2>4, <2>6
<1>5. QED
  BY <1>3, <1>4

\* The last batch is written.
LEMMA ChainEnds ==
  ASSUME WholeInv, callback = "next", fragments.number >= fragments.count
  PROVE  ChainFrames = <<>> /\ buffer = <<>>
<1>1. buffer = <<>> /\ IsChain(fragments)
  BY DEF WholeInv, ChainPart
<1>2. PICK n \in Nat : n = Len(fragments.left) /\ fragments.number + n = fragments.count /\ fragments.number \in Nat
  BY <1>1 DEF IsChain
<1>3. n = 0
  BY <1>2
<1>4. FramesOf(fragments) \in Seq(Sent) /\ Len(FramesOf(fragments)) = 0
  BY <1>1, <1>2, <1>3, FramesOfType
<1>5. FramesOf(fragments) = <<>>
  BY <1>4, EmptySeq
<1>6. QED
  BY <1>1, <1>5 DEF ChainFrames

LEMMA WriteDoneWhole ==
  ASSUME WholeInv, WriteDone
  PROVE  /\ WholeTypes' /\ ControlPart' /\ ThrownPart' /\ ChainPart' /\ InFlight'
         /\ UNCHANGED <<wanted, delivered>>
<1>1. /\ UNCHANGED <<input, thrown, connected, peer, wanted, delivered>> /\ callback # "none"
  BY DEF WriteDone, peerVars, history
<1>2. ControlPart'
  BY <1>1 DEF WholeInv, ControlPart
<1>3. CASE fragmentate(fragments) /\ UNCHANGED closeVars
  BY <1>1, <1>2, <1>3, BatchWhole DEF closeVars
<1>4. CASE callback = "next" /\ fragments.number >= fragments.count /\ callback' = "none" /\ wire' = wire
           /\ ((Closed /\ sending' = FALSE) \/ (Continue /\ UNCHANGED <<buffer, sending>>))
  <2>1. ChainFrames = <<>> /\ ChainFrames' = <<>> /\ buffer = <<>>
    BY <1>4, ChainEnds DEF ChainFrames
  <2>2. ~(thrown /\ sending) /\ wire' \in Seq(Sent)
    BY <1>1, <1>4 DEF WholeInv, ThrownPart, WholeTypes
  <2>3. ~(thrown' /\ sending')
    BY <1>1, <1>4, <2>2
  <2>4. WholeTypes' /\ ThrownPart' /\ ChainPart'
    BY <1>1, <1>4, <2>2, <2>3, PartsKept
  <2>5. InFlight'
    <3>1. CASE sending' = FALSE
      <4>1. QueueFrames' = <<>> /\ ~Flowing'
        BY <3>1 DEF QueueFrames, Flowing
      <4>2. QED
        BY <1>1, <1>4, <2>1, <4>1, FlightStops
    <3>2. CASE UNCHANGED <<buffer, sending>>
      <4>1. Pipe' = Pipe /\ Flowing' = Flowing
        BY <1>1, <1>4, <2>1, <3>2 DEF Pipe, QueueFrames, Flowing
      <4>2. QED
        BY <1>1, <4>1, FlightSame
    <3>3. QED
      BY <1>4, <3>1, <3>2
  <2>6. QED
    BY <1>1, <1>2, <2>4, <2>5
<1>5. QED
  <2>1. CASE callback = "next" /\ fragmentateNext
    <3>1. CASE fragmentate(fragments) /\ UNCHANGED closeVars
      BY <1>3, <3>1
    <3>2. CASE ~(fragmentate(fragments) /\ UNCHANGED closeVars)
      <4>1. fragments.number >= fragments.count /\ callback' = "none" /\ wire' = wire
        BY <2>1, <3>2 DEF fragmentateNext
      <4>2. Closed \/ (Continue /\ UNCHANGED <<buffer, sending>>)
        BY <2>1, <3>2 DEF fragmentateNext, closeVars
      <4>3. Closed => sending' = FALSE
        BY DEF Closed
      <4>4. QED
        BY <1>4, <2>1, <4>1, <4>2, <4>3
    <3>3. QED
      BY <3>1, <3>2
  <2>2. QED
    BY <1>3, <2>1 DEF WriteDone

-----------------------------------------------------------------------------
(* Closing, and the peer. *)

LEMMA StopWhole ==
  ASSUME WholeInv, sending' = FALSE,
         UNCHANGED <<input, thrown, wire, callback, connected, peer, wanted, delivered>>,
         \/ buffer' = <<>> /\ fragments' = [fragments EXCEPT !.active = FALSE]
         \/ UNCHANGED <<buffer, fragments>>
  PROVE  WholeTypes' /\ ControlPart' /\ ThrownPart' /\ ChainPart' /\ InFlight'
<1>1. WholeTypes /\ ControlPart /\ ChainPart /\ FlowTypes
  BY DEF WholeInv, FlowInv
<1>2. WholeTypes' /\ ControlPart' /\ ThrownPart'
  BY <1>1 DEF WholeTypes, ControlPart, ThrownPart
<1>3. /\ DOMAIN fragments' = {"active", "left", "number", "count", "last"}
      /\ fragments'.left = fragments.left /\ fragments'.number = fragments.number
      /\ fragments'.count = fragments.count /\ fragments'.last = fragments.last
  BY <1>1 DEF FlowTypes
<1>4. FramesOf(fragments') = FramesOf(fragments)
  BY <1>3 DEF FramesOf
<1>5. IsChain(fragments) => IsChain(fragments')
  BY <1>3 DEF IsChain
<1>6. ChainPart'
  BY <1>1, <1>5 DEF ChainPart
<1>7. ChainFrames' = ChainFrames /\ QueueFrames' = <<>> /\ ~Flowing'
  BY <1>4 DEF ChainFrames, QueueFrames, Flowing
<1>8. InFlight'
  BY <1>7, FlightStops
<1>9. QED
  BY <1>2, <1>6, <1>8

LEMMA QuietWhole ==
  ASSUME WholeInv,
         UNCHANGED <<input, buffer, fragments, callback, thrown, sending, connected, wire, wanted, delivered>>,
         peer' \in [live : BOOLEAN, accepting : BOOLEAN, requests : Nat, fragments : Chunks],
         peer'.live = peer.live, peer'.fragments = peer.fragments
  PROVE  WholeTypes' /\ ControlPart' /\ ThrownPart' /\ ChainPart' /\ InFlight'
<1>1. WholeTypes /\ ControlPart /\ ThrownPart /\ ChainPart
  BY DEF WholeInv
<1>2. WholeTypes' /\ ControlPart' /\ ThrownPart' /\ ChainPart'
  BY <1>1 DEF WholeTypes, ControlPart, ThrownPart, ChainPart, fragmenting
<1>3. Pipe' = Pipe /\ Flowing' = Flowing
  BY DEF Pipe, ChainFrames, QueueFrames, Flowing
<1>4. InFlight'
  BY <1>3, FlightSame
<1>5. QED
  BY <1>2, <1>4

LEMMA PeerType ==
  ASSUME WholeInv
  PROVE  peer \in [live : BOOLEAN, accepting : BOOLEAN, requests : Nat, fragments : Chunks]
  BY DEF WholeInv, WholeTypes

LEMMA BreakWhole ==
  ASSUME WholeInv, Break
  PROVE  WholeTypes' /\ ControlPart' /\ ThrownPart' /\ ChainPart' /\ InFlight'
<1>1. /\ connected' = FALSE /\ wire' = <<>> /\ callback' = "none"
      /\ UNCHANGED <<input, thrown, peer, wanted, delivered>>
      /\ sending' = FALSE \/ UNCHANGED <<fragments, sending>>
  BY DEF Break, Closed, closeVars, peerVars, history
<1>2. WholeTypes'
  BY <1>1, EmptySeq DEF WholeInv, WholeTypes
<1>3. ControlPart' /\ ThrownPart' /\ ChainPart' /\ InFlight'
  BY <1>1 DEF WholeInv, ControlPart, ThrownPart, ChainPart, InFlight, fragmenting
<1>4. QED
  BY <1>2, <1>3

LEMMA ClosingWhole ==
  ASSUME WholeInv, Close \/ CloseEnds \/ Timeout \/ CloseGracefully \/ HandleBack \/ Break \/ EndByPeer
                   \/ (\E count \in Grants : Request(count)) \/ UNCHANGED vars
  PROVE  /\ WholeTypes' /\ ControlPart' /\ ThrownPart' /\ ChainPart' /\ InFlight'
         /\ UNCHANGED <<wanted, delivered>>
<1>1. UNCHANGED <<wanted, delivered>>
  BY DEF Close, CloseEnds, Timeout, CloseGracefully, HandleBack, Break, EndByPeer, Request, Resume, vars, peerVars, history
<1>2. CASE Break
  BY <1>1, <1>2, BreakWhole
<1>3. CASE Closed /\ UNCHANGED <<input, thrown, wire, callback, connected, peer>>
  BY <1>1, <1>3, StopWhole DEF Closed
<1>4. CASE sending' = FALSE /\ UNCHANGED <<input, thrown, wire, callback, connected, peer, buffer, fragments>>
  BY <1>1, <1>4, StopWhole
<1>5. CASE /\ UNCHANGED <<input, buffer, fragments, callback, thrown, sending, connected, wire>>
           /\ \/ peer' = peer
              \/ peer' = [peer EXCEPT !.requests = @ + 1]
              \/ peer' = [peer EXCEPT !.accepting = FALSE]
  <2>1. /\ peer' \in [live : BOOLEAN, accepting : BOOLEAN, requests : Nat, fragments : Chunks]
        /\ peer'.live = peer.live /\ peer'.fragments = peer.fragments
    <3>1. DOMAIN peer = {"live", "accepting", "requests", "fragments"} /\ peer.requests \in Nat
      BY PeerType
    <3>2. CASE peer' = peer
      BY <3>2, PeerType
    <3>3. CASE peer' = [peer EXCEPT !.requests = @ + 1]
      BY <3>1, <3>3, PeerType
    <3>4. CASE peer' = [peer EXCEPT !.accepting = FALSE]
      BY <3>1, <3>4, PeerType
    <3>5. QED
      BY <1>5, <3>2, <3>3, <3>4
  <2>2. QED
    BY <1>1, <1>5, <2>1, QuietWhole
<1>6. CASE Close \/ CloseEnds
  <2>1. Closed /\ UNCHANGED <<input, thrown, wire, callback, connected, peer>>
    BY <1>6 DEF Close, CloseEnds, netVars, peerVars
  <2>2. QED
    BY <1>3, <2>1
<1>7. CASE Timeout
  <2>1. sending' = FALSE /\ UNCHANGED <<input, thrown, wire, callback, connected, peer, buffer, fragments>>
    BY <1>7 DEF Timeout, netVars, peerVars, queueVars, fragmentVars
  <2>2. QED
    BY <1>4, <2>1
<1>8. CASE CloseGracefully \/ UNCHANGED vars
  <2>1. UNCHANGED <<input, buffer, fragments, callback, thrown, sending, connected, wire, peer>>
    BY <1>8 DEF CloseGracefully, vars, netVars, peerVars, queueVars, fragmentVars, closeVars
  <2>2. QED
    BY <1>5, <2>1
<1>9. CASE HandleBack
  <2>1. UNCHANGED <<input, thrown, wire, callback, connected, peer>>
    BY <1>9 DEF HandleBack, peerVars
  <2>2. Closed \/ UNCHANGED <<buffer, fragments, sending>>
    BY <1>9 DEF HandleBack, Resume, closeVars
  <2>3. QED
    BY <1>3, <1>5, <2>1, <2>2
<1>10. CASE EndByPeer \/ (\E count \in Grants : Request(count))
  <2>1. UNCHANGED <<input, buffer, fragments, callback, thrown, sending, connected, wire>>
    BY <1>10 DEF EndByPeer, Request, queueVars, fragmentVars, closeVars
  <2>2. peer' = [peer EXCEPT !.requests = @ + 1] \/ peer' = [peer EXCEPT !.accepting = FALSE]
    BY <1>10 DEF EndByPeer, Request
  <2>3. QED
    BY <1>5, <2>1, <2>2
<1>11. QED
  BY <1>2, <1>6, <1>7, <1>8, <1>9, <1>10

\* The connection, once broken, holds nothing.
LEMMA GoneStep ==
  ASSUME GoneWire, Next \/ UNCHANGED vars
  PROVE  GoneWire'
<1>1. CASE Break
  BY <1>1 DEF Break, GoneWire
<1>2. CASE Receive
  BY <1>2 DEF Receive, GoneWire
<1>3. CASE ~Break /\ ~Receive
  <2>1. connected' = connected /\ (~connected => wire' = wire)
    <3>1. CASE Send \/ WriteDone
      <4>1. connected' = connected
        BY <3>1 DEF Send, WriteDone
      <4>2. ASSUME ~connected, NEW c, fragmentate(c) PROVE wire' = wire
        BY <4>2 DEF fragmentate, Write
      <4>3. ASSUME ~connected, NEW p, SendFragmented(p) \/ SendLast(p) \/ SendNext(p) PROVE wire' = wire
        BY <4>2, <4>3 DEF SendFragmented, SendLast, SendNext, Write
      <4>4. ASSUME ~connected PROVE wire' = wire
        BY <3>1, <4>2, <4>3, <4>4 DEF Send, WriteDone, fragmentateNext
      <4>5. QED
        BY <4>1, <4>4
    <3>2. CASE ~(Send \/ WriteDone)
      BY <1>3, <3>2 DEF Next, SchedulePayload, ScheduleControl, Schedule, Close, CloseGracefully, Timeout, CloseEnds,
         HandleBack, EndByPeer, Request, vars, netVars
    <3>3. QED
      BY <3>1, <3>2
  <2>2. QED
    BY <2>1 DEF GoneWire
<1>4. QED
  BY <1>1, <1>2, <1>3

LEMMA ChunkIs ==
  \A c \in Chunks : Len(c) \in Nat /\ c = [i \in 1 .. Len(c) |-> c[i]]
  BY DEF Chunks

LEMMA FirstIs ==
  ASSUME NEW s \in Seq(Sent), s # <<>>
  PROVE  Head(s) \in Sent /\ Tail(s) \in Seq(Sent) /\ s = <<Head(s)>> \o Tail(s)
<1>1. PICK n \in Nat : n = Len(s) /\ n > 0
  OBVIOUS
<1>2. /\ Head(s) \in Sent /\ Head(s) = s[1] /\ Tail(s) \in Seq(Sent) /\ Len(Tail(s)) = n - 1
      /\ \A i \in 1 .. n - 1 : Tail(s)[i] = s[i + 1]
  BY <1>1
<1>3. PICK f \in Sent, r \in Seq(Sent) : f = Head(s) /\ r = Tail(s)
  BY <1>2
<1>4. <<f>> \o r \in Seq(Sent) /\ Len(<<f>> \o r) = n /\ (<<f>> \o r)[1] = f
      /\ \A i \in 1 .. n - 1 : (<<f>> \o r)[i + 1] = r[i]
  BY <1>1, <1>2, <1>3
<1>5. ASSUME NEW i \in 1 .. n PROVE s[i] = (<<f>> \o r)[i]
  <2>1. CASE i = 1
    BY <1>2, <1>3, <1>4, <2>1
  <2>2. CASE i # 1
    <3>1. i - 1 \in 1 .. n - 1 /\ (i - 1) + 1 = i
      BY <2>2
    <3>2. QED
      BY <1>2, <1>3, <1>4, <3>1
  <2>3. QED
    BY <2>1, <2>2
<1>6. s = <<f>> \o r
  BY <1>1, <1>4, <1>5, SeqEqual
<1>7. QED
  BY <1>2, <1>3, <1>6

\* Units of payload k that follow each other.
Starts(k, s) == s = [i \in 1 .. Len(s) |-> <<k, i>>]
Continues(k, n, s) == s = [i \in 1 .. Len(s) |-> <<k, n + i>>]

LEMMA UnitsJoin ==
  ASSUME NEW k, NEW g \in Chunks, NEW d \in Chunks, Starts(k, g), Continues(k, Len(g), d)
  PROVE  g \o d \in Chunks /\ Len(g \o d) = Len(g) + Len(d) /\ Starts(k, g \o d)
<1>1. PICK n \in Nat, m \in Nat : n = Len(g) /\ m = Len(d)
  <2>1. Len(g) \in Nat /\ Len(d) \in Nat
    BY ChunkIs
  <2>2. QED
    BY <2>1, Zenon
<1>2. g = [i \in 1 .. n |-> <<k, i>>] /\ d = [i \in 1 .. m |-> <<k, n + i>>]
  BY <1>1, Zenon DEF Starts, Continues
<1>3. g \o d \in Chunks /\ Len(g \o d) = n + m
  BY <1>1 DEF Chunks
<1>4. ASSUME NEW i \in 1 .. n + m PROVE (g \o d)[i] = <<k, i>>
  <2>1. CASE i <= n
    BY <1>1, <1>2, <2>1 DEF Chunks
  <2>2. CASE i > n
    <3>1. i - n \in 1 .. m /\ n + (i - n) = i
      BY <2>2
    <3>2. (g \o d)[i] = d[i - n]
      BY <1>1, <2>2, <3>1 DEF Chunks
    <3>3. QED
      BY <1>2, <3>1, <3>2
  <2>3. i <= n \/ i > n
    OBVIOUS
  <2>4. QED
    BY <2>1, <2>2, <2>3
<1>5. g \o d = [i \in 1 .. n + m |-> <<k, i>>]
  <2>1. PICK j \in Chunks : j = g \o d
    BY <1>3
  <2>2. j = [i \in 1 .. Len(j) |-> j[i]]
    BY ChunkIs
  <2>3. QED
    BY <1>3, <1>4, <2>1, <2>2
<1>6. QED
  BY <1>1, <1>3, <1>5, Zenon DEF Starts

\* What the peer does with the first frame on its way.
LEMMA ReceivedIs ==
  ASSUME WholeInv, Receive, connected
  PROVE  \E f \in Sent, r \in Seq(Sent), u, t \in Position :
           /\ f = Head(wire) /\ wire' = r /\ Pipe' \in Seq(Sent)
           /\ Moves(wanted, Here, f, u) /\ Run(wanted, Pipe', u, t)
           /\ Flowing => t = <<Len(wanted), 0>>
<1>1. /\ wire # <<>> /\ wire' = Tail(wire) /\ peer.live
      /\ UNCHANGED <<input, buffer, fragments, callback, thrown, sending>>
  BY DEF Receive, queueVars, fragmentVars, closeVars
<1>2. wire \in Seq(Sent) /\ ChainFrames \in Seq(Sent) /\ QueueFrames \in Seq(Sent)
  BY PipeTypes DEF WholeInv
<1>3. PICK f \in Sent, r \in Seq(Sent) : f = Head(wire) /\ r = Tail(wire) /\ wire = <<f>> \o r
  BY <1>1, <1>2, FirstIs
<1>4. PICK c \in Seq(Sent), q \in Seq(Sent), g \in Seq(Sent), rc \in Seq(Sent) :
        c = ChainFrames /\ q = QueueFrames /\ g = <<f>> /\ rc = r \o c
  <2>1. <<f>> \in Seq(Sent) /\ r \o ChainFrames \in Seq(Sent)
    BY <1>2, <1>3
  <2>2. QED
    BY <1>2, <2>1, Zenon
<1>5. ChainFrames' = c /\ QueueFrames' = q
  BY <1>1, <1>4 DEF ChainFrames, QueueFrames
<1>6. PICK P \in Seq(Sent) : P = rc \o q /\ Pipe' = P
  <2>1. rc \o q \in Seq(Sent)
    BY <1>4
  <2>2. Pipe' = rc \o q
    BY <1>1, <1>3, <1>4, <1>5 DEF Pipe
  <2>3. QED
    BY <2>1, <2>2
<1>7. Pipe = g \o P
  <2>1. Pipe = ((g \o r) \o c) \o q
    BY <1>3, <1>4 DEF Pipe
  <2>2. \A x, y \in Seq(Sent) : (g \o x) \o y = g \o (x \o y)
    BY <1>4, SeqAssoc3, Zenon
  <2>3. (g \o r) \o c = g \o rc
    BY <1>3, <1>4, <2>2, Zenon
  <2>4. (g \o rc) \o q = g \o (rc \o q)
    BY <1>4, <2>2, Zenon
  <2>5. QED
    BY <1>6, <2>1, <2>3, <2>4
<1>8. PICK t \in Position : Run(wanted, g \o P, Here, t) /\ (Flowing => t = <<Len(wanted), 0>>)
  BY <1>1, <1>7 DEF WholeInv, InFlight
<1>9. PICK u \in Position : Run(wanted, g, Here, u) /\ Run(wanted, P, u, t)
  BY <1>4, <1>6, <1>8, RunSplit
<1>10. Moves(wanted, Here, f, u)
  BY <1>3, <1>4, <1>9, RunHead
<1>11. QED
  BY <1>1, <1>3, <1>6, <1>8, <1>9, <1>10, Zenon

LEMMA ReceiveWhole ==
  ASSUME WholeInv, Receive
  PROVE  /\ WholeTypes' /\ ControlPart' /\ ThrownPart' /\ ChainPart' /\ InFlight' /\ DeliveredWhole'
         /\ UNCHANGED wanted
<1>1. /\ wire # <<>> /\ peer.live
      /\ UNCHANGED <<input, buffer, fragments, callback, thrown, sending, connected, wanted>>
  BY DEF Receive, queueVars, fragmentVars, closeVars, history
<1>2. /\ WholeTypes /\ WantedOK /\ WantedPart /\ ControlPart /\ ThrownPart /\ ChainPart /\ InFlight /\ DeliveredWhole
      /\ connected
  BY <1>1 DEF WholeInv, GoneWire
<1>3. ControlPart' /\ ThrownPart' /\ ChainPart' /\ Flowing' = Flowing
  BY <1>1, <1>2 DEF ControlPart, ThrownPart, ChainPart, fragmenting, Flowing
<1>4. PICK f \in Sent, r \in Seq(Sent), u \in Position, t \in Position :
        /\ f = Head(wire) /\ wire' = r /\ Pipe' \in Seq(Sent)
        /\ Moves(wanted, Here, f, u) /\ Run(wanted, Pipe', u, t)
        /\ Flowing => t = <<Len(wanted), 0>>
  BY <1>2, ReceivedIs
<1>5. PICK n \in Nat, g \in Chunks : n = Len(delivered) /\ g = peer.fragments
  <2>1. Len(delivered) \in Nat /\ peer.fragments \in Chunks
    BY <1>2 DEF WholeTypes
  <2>2. QED
    BY <2>1, Zenon
<1>6. PICK m \in Nat : m = Len(g)
  BY ChunkIs
<1>7. Here = <<n, m>> /\ Here[1] = n /\ Here[2] = m
  BY <1>5, <1>6 DEF Here
<1>8. g = [i \in 1 .. m |-> <<n + 1, i>>]
  BY <1>1, <1>2, <1>5, <1>6 DEF InFlight
<1>9. f.data \in Chunks /\ f.completed \in BOOLEAN /\ f.follow \in BOOLEAN
  BY DEF Sent, Chunks
\* How the step ends, once the state of the peer is known.
<1>10. ASSUME peer' \in [live : BOOLEAN, accepting : BOOLEAN, requests : Nat, fragments : Chunks],
              delivered' \in Seq(Chunks), DeliveredWhole',
              peer'.live => /\ peer'.fragments = [i \in 1 .. Len(peer'.fragments) |-> <<Len(delivered') + 1, i>>]
                            /\ <<Len(delivered'), Len(peer'.fragments)>> = u
       PROVE  WholeTypes' /\ InFlight' /\ DeliveredWhole'
  <2>1. WholeTypes'
    BY <1>1, <1>2, <1>4, <1>10 DEF WholeTypes
  <2>2. Here' = <<Len(delivered'), Len(peer'.fragments)>>
    BY DEF Here
  <2>3. InFlight'
    BY <1>1, <1>3, <1>4, <1>10, <2>2 DEF InFlight
  <2>4. QED
    BY <1>10, <2>1, <2>3
<1>11. CASE f.data = <<>>
  <2>1. /\ delivered' = delivered
        /\ \/ peer' = peer
           \/ peer' = [peer EXCEPT !.live = FALSE, !.accepting = FALSE, !.fragments = <<>>]
           \/ peer' = [peer EXCEPT !.live = FALSE, !.accepting = FALSE]
    BY <1>4, <1>11 DEF Receive, peerVars
  <2>2. u = Here
    BY <1>4, <1>11 DEF Moves
  <2>3. DeliveredWhole' /\ delivered' \in Seq(Chunks)
    BY <1>1, <1>2, <2>1 DEF DeliveredWhole, WholeTypes
  <2>4. CASE peer' = peer
    <3>1. peer' \in [live : BOOLEAN, accepting : BOOLEAN, requests : Nat, fragments : Chunks]
      BY <2>4, PeerType
    <3>2. /\ peer'.fragments = [i \in 1 .. Len(peer'.fragments) |-> <<Len(delivered') + 1, i>>]
          /\ <<Len(delivered'), Len(peer'.fragments)>> = u
      BY <1>1, <1>2, <2>1, <2>2, <2>4 DEF InFlight, Here
    <3>3. QED
      BY <1>1, <1>3, <1>10, <2>3, <3>1, <3>2
  <2>5. CASE peer' # peer
    <3>1. <<>> \in Chunks
      BY EmptySeq DEF Chunks
    <3>2. peer' \in [live : BOOLEAN, accepting : BOOLEAN, requests : Nat, fragments : Chunks] /\ peer'.live = FALSE
      <4>1. peer \in [live : BOOLEAN, accepting : BOOLEAN, requests : Nat, fragments : Chunks]
        BY PeerType
      <4>2. CASE peer' = [peer EXCEPT !.live = FALSE, !.accepting = FALSE, !.fragments = <<>>]
        BY <3>1, <4>1, <4>2
      <4>3. CASE peer' = [peer EXCEPT !.live = FALSE, !.accepting = FALSE]
        BY <4>1, <4>3
      <4>4. QED
        BY <2>1, <2>5, <4>2, <4>3
    <3>3. QED
      BY <1>1, <1>3, <1>10, <2>3, <3>2
  <2>6. QED
    BY <2>4, <2>5
<1>12. CASE f.data # <<>>
  <2>1. PICK d \in Chunks, k \in Nat : d = f.data /\ k = Len(d)
    BY <1>9, ChunkIs
  <2>2. /\ f.kind = "payload" /\ n + 1 \in DOMAIN wanted
        /\ f.data = [i \in 1 .. Len(f.data) |-> <<n + 1, m + i>>]
        /\ \/ f.follow /\ ~f.completed /\ u = <<n, m + Len(f.data)>>
           \/ ~f.follow /\ m + Len(f.data) = Len(wanted[n + 1].data) /\ u = <<n + 1, 0>>
    BY <1>4, <1>7, <1>12, Zenon DEF Moves
  <2>3. d = [i \in 1 .. k |-> <<n + 1, m + i>>]
    BY <2>1, <2>2
  <2>4. PICK j \in Chunks : /\ j = g \o d /\ Len(j) = m + k
                            /\ j = [i \in 1 .. m + k |-> <<n + 1, i>>]
    <3>1. g = [i \in 1 .. Len(g) |-> <<n + 1, i>>] /\ d = [i \in 1 .. Len(d) |-> <<n + 1, Len(g) + i>>]
      BY <1>6, <1>8, <2>1, <2>3
    <3>2. /\ g \o d \in Chunks /\ Len(g \o d) = Len(g) + Len(d)
          /\ g \o d = [i \in 1 .. Len(g) + Len(d) |-> <<n + 1, i>>]
      <4>1. Starts(n + 1, g) /\ Continues(n + 1, Len(g), d)
        BY <3>1, Zenon DEF Starts, Continues
      <4>2. g \in Chunks /\ d \in Chunks
        BY <1>5, <2>1
      <4>3. g \o d \in Chunks /\ Len(g \o d) = Len(g) + Len(d) /\ Starts(n + 1, g \o d)
        BY <4>1, <4>2, UnitsJoin
      <4>4. QED
        BY <4>3, Zenon DEF Starts
    <3>3. QED
      BY <1>6, <2>1, <3>2
  <2>5. CASE f.follow
    <3>1. ~f.completed /\ u = <<n, m + k>>
      BY <2>1, <2>2, <2>5
    <3>2. peer' = [peer EXCEPT !.fragments = j] /\ delivered' = delivered
      <4>1. peer' = [peer EXCEPT !.fragments = @ \o f.data] /\ delivered' = delivered
        BY <1>4, <1>12, <2>2, <2>5, <3>1 DEF Receive, onPayloadFragment
      <4>2. QED
        BY <1>5, <2>1, <2>4, <4>1
    <3>3. peer' \in [live : BOOLEAN, accepting : BOOLEAN, requests : Nat, fragments : Chunks] /\ peer'.fragments = j
      BY <3>2, PeerType
    <3>4. DeliveredWhole' /\ delivered' \in Seq(Chunks)
      BY <1>1, <1>2, <3>2 DEF DeliveredWhole, WholeTypes
    <3>5. /\ peer'.fragments = [i \in 1 .. Len(peer'.fragments) |-> <<Len(delivered') + 1, i>>]
          /\ <<Len(delivered'), Len(peer'.fragments)>> = u
      BY <1>5, <2>4, <3>1, <3>2, <3>3
    <3>6. QED
      BY <1>1, <1>3, <1>10, <3>3, <3>4, <3>5
  <2>6. CASE ~f.follow
    <3>1. m + k = Len(wanted[n + 1].data) /\ u = <<n + 1, 0>>
      BY <2>1, <2>2, <2>6
    <3>2. /\ delivered' = Append(delivered, j)
          /\ \/ peer' = [peer EXCEPT !.live = FALSE, !.accepting = FALSE, !.fragments = <<>>]
             \/ peer' = [peer EXCEPT !.fragments = <<>>]
      <4>1. /\ delivered' = Append(delivered, peer.fragments \o f.data)
            /\ \/ peer' = [peer EXCEPT !.live = FALSE, !.accepting = FALSE, !.fragments = <<>>]
               \/ peer' = [peer EXCEPT !.fragments = <<>>]
        BY <1>4, <1>12, <2>2, <2>6 DEF Receive, onPayloadFragment
      <4>2. QED
        BY <1>5, <2>1, <2>4, <4>1
    <3>3. <<>> \in Chunks /\ Len(<<>>) = 0
      BY EmptySeq DEF Chunks
    <3>4. peer' \in [live : BOOLEAN, accepting : BOOLEAN, requests : Nat, fragments : Chunks] /\ peer'.fragments = <<>>
      <4>1. peer \in [live : BOOLEAN, accepting : BOOLEAN, requests : Nat, fragments : Chunks]
        BY PeerType
      <4>2. CASE peer' = [peer EXCEPT !.live = FALSE, !.accepting = FALSE, !.fragments = <<>>]
        BY <3>3, <4>1, <4>2
      <4>3. CASE peer' = [peer EXCEPT !.fragments = <<>>]
        BY <3>3, <4>1, <4>3
      <4>4. QED
        BY <3>2, <4>2, <4>3
    <3>5. /\ delivered' \in Seq(Chunks) /\ Len(delivered') = n + 1 /\ DOMAIN delivered' = 1 .. n + 1
          /\ (\A i \in 1 .. n : delivered'[i] = delivered[i]) /\ delivered'[n + 1] = j
          /\ DOMAIN delivered = 1 .. n
      BY <1>2, <1>5, <3>2 DEF WholeTypes
    <3>6. wanted[n + 1].data = j /\ n + 1 <= Len(wanted)
      <4>1. wanted[n + 1].data = [i \in 1 .. Len(wanted[n + 1].data) |-> <<n + 1, i>>]
        BY <1>2, <2>2, Zenon DEF WantedPart
      <4>2. DOMAIN wanted = 1 .. Len(wanted)
        BY <1>2 DEF WantedOK
      <4>3. wanted[n + 1].data = [i \in 1 .. m + k |-> <<n + 1, i>>]
        BY <3>1, <4>1, Zenon
      <4>4. wanted[n + 1].data = j
        BY <2>4, <4>3, Zenon
      <4>5. Len(wanted) \in Nat /\ n + 1 \in 1 .. Len(wanted)
        BY <1>2, <2>2, <4>2 DEF WantedOK
      <4>6. QED
        BY <4>4, <4>5
    <3>7. DeliveredWhole'
      <4>1. \A i \in 1 .. n + 1 : i \in 1 .. n \/ i = n + 1
        OBVIOUS
      <4>2. QED
        BY <1>1, <1>2, <3>5, <3>6, <4>1 DEF DeliveredWhole
    <3>8. /\ peer'.fragments = [i \in 1 .. Len(peer'.fragments) |-> <<Len(delivered') + 1, i>>]
          /\ <<Len(delivered'), Len(peer'.fragments)>> = u
      BY <3>1, <3>3, <3>4, <3>5
    <3>9. QED
      BY <1>1, <1>3, <1>10, <3>4, <3>5, <3>7, <3>8
  <2>7. QED
    BY <2>5, <2>6
<1>13. QED
  BY <1>11, <1>12

-----------------------------------------------------------------------------
LEMMA SchedulesWhole ==
  ASSUME WholeInv,
         \/ \E size \in UNION Range(Sizes), complete \in BOOLEAN : SchedulePayload(size, complete)
         \/ \E kind \in {"error", "cancel"} : ScheduleControl(kind)
  PROVE  WholeTypes' /\ WantedPart' /\ ControlPart' /\ ThrownPart' /\ ChainPart' /\ InFlight' /\ DeliveredWhole'
<1>1. ASSUME NEW size \in UNION Range(Sizes), NEW complete \in BOOLEAN, SchedulePayload(size, complete)
      PROVE  WholeTypes' /\ WantedPart' /\ ControlPart' /\ ThrownPart' /\ ChainPart' /\ InFlight' /\ DeliveredWhole'
  <2>1. PICK p \in Item : p = Payload(Len(wanted) + 1, size, complete) /\ size \in Nat
    BY PayloadIs DEF WholeInv
  <2>2. Schedule(p) /\ wanted' = IF size = 0 THEN wanted ELSE Append(wanted, p)
    BY <1>1, <2>1 DEF SchedulePayload
  <2>3. p.frame = "payload" /\ p.data = [i \in 1 .. size |-> <<Len(wanted) + 1, i>>]
    BY <2>1 DEF Payload
  <2>4. Len(p.data) = size
    BY <2>1, <2>3
  <2>5. Frame(p).data = p.data
    BY <2>3, FrameIs
  <2>6. \/ wanted' = wanted /\ Frame(p).data = <<>>
        \/ /\ wanted' = Append(wanted, p) /\ p.frame = "payload" /\ p.data # <<>>
           /\ p.data = [i \in 1 .. Len(p.data) |-> <<Len(wanted) + 1, i>>]
    <3>1. CASE size = 0
      <4>1. p.data = <<>>
        BY <2>3, <3>1
      <4>2. QED
        BY <2>2, <2>5, <3>1, <4>1
    <3>2. CASE size # 0
      <4>1. p.data # <<>>
        BY <2>4, <3>2
      <4>2. QED
        BY <2>2, <2>3, <2>4, <3>2, <4>1
    <3>3. QED
      BY <3>1, <3>2
  <2>7. QED
    BY <2>2, <2>3, <2>6, ScheduleWhole
<1>2. ASSUME NEW kind \in {"error", "cancel"}, ScheduleControl(kind)
      PROVE  WholeTypes' /\ WantedPart' /\ ControlPart' /\ ThrownPart' /\ ChainPart' /\ InFlight' /\ DeliveredWhole'
  <2>1. PICK p : p = ControlFrame(kind)
    OBVIOUS
  <2>2. p \in Item /\ p.frame # "payload" /\ p.data = <<>>
    BY <2>1, EmptySeq DEF ControlFrame, Item
  <2>3. Schedule(p) /\ wanted' = wanted
    BY <1>2, <2>1 DEF ScheduleControl
  <2>4. Frame(p).data = <<>>
    BY <2>2, FrameIs
  <2>5. QED
    BY <2>2, <2>3, <2>4, ScheduleWhole
<1>3. QED
  BY <1>1, <1>2

LEMMA WholeStep ==
  ASSUME WholeInv, FlowInv', WantedOK', Next \/ UNCHANGED vars
  PROVE  WholeInv'
<1>1. GoneWire'
  BY GoneStep DEF WholeInv
<1>2. ASSUME UNCHANGED <<wanted, delivered>>
      PROVE  WantedPart' /\ DeliveredWhole'
  BY <1>2 DEF WholeInv, WantedPart, DeliveredWhole
<1>3. CASE Send \/ WriteDone
  BY <1>1, <1>2, <1>3, SendWhole, WriteDoneWhole DEF WholeInv
<1>4. CASE Close \/ CloseEnds \/ Timeout \/ CloseGracefully \/ HandleBack \/ Break \/ EndByPeer
           \/ (\E count \in Grants : Request(count)) \/ UNCHANGED vars
  BY <1>1, <1>2, <1>4, ClosingWhole DEF WholeInv
<1>5. CASE Receive
  <2>1. WantedPart'
    BY <1>5, ReceiveWhole DEF WholeInv, WantedPart
  <2>2. QED
    BY <1>1, <1>5, <2>1, ReceiveWhole DEF WholeInv
<1>6. CASE \/ \E size \in UNION Range(Sizes), complete \in BOOLEAN : SchedulePayload(size, complete)
           \/ \E kind \in {"error", "cancel"} : ScheduleControl(kind)
  BY <1>1, <1>6, SchedulesWhole DEF WholeInv
<1>7. QED
  BY <1>3, <1>4, <1>5, <1>6 DEF Next

LEMMA WholeInit ==
  ASSUME Init, FlowInv, WantedOK
  PROVE  WholeInv
<1>1. /\ wire = <<>> /\ delivered = <<>> /\ wanted = <<>> /\ input = <<>> /\ buffer = <<>> /\ connected = TRUE
      /\ callback = "none" /\ thrown = FALSE
      /\ peer = [live |-> TRUE, accepting |-> TRUE, requests |-> 0, fragments |-> <<>>]
  BY DEF Init
<1>2. <<>> \in Seq(Sent) /\ <<>> \in Seq(Chunks) /\ <<>> \in Chunks /\ Len(<<>>) = 0 /\ DOMAIN <<>> = {}
  BY EmptySeq DEF Chunks
<1>3. WholeTypes
  BY <1>1, <1>2 DEF WholeTypes
<1>4. WantedPart /\ ControlPart /\ ThrownPart /\ ChainPart /\ GoneWire /\ DeliveredWhole
  BY <1>1, <1>2 DEF WantedPart, ControlPart, ThrownPart, ChainPart, GoneWire, DeliveredWhole
<1>5. Pipe = <<>>
  <2>1. FramesIn(input) \in Seq(Sent) /\ Len(FramesIn(input)) = 0
    BY <1>1, <1>2, FramesInType, EmptySeq
  <2>2. FramesIn(input) = <<>>
    BY <2>1, EmptySeq
  <2>3. QueueFrames = <<>> /\ ChainFrames = <<>>
    BY <1>1, <1>2, <2>2, SeqEmpty DEF QueueFrames, ChainFrames
  <2>4. QED
    BY <1>1, <1>2, <2>3, SeqEmpty DEF Pipe
<1>6. Here = <<0, 0>> /\ <<Len(wanted), 0>> = <<0, 0>> /\ <<0, 0>> \in Position
  BY <1>1, <1>2 DEF Here, Position
<1>7. Run(wanted, <<>>, <<0, 0>>, <<0, 0>>)
  BY <1>6, RunEmpty
<1>8. InFlight
  BY <1>1, <1>2, <1>5, <1>6, <1>7 DEF InFlight
<1>9. QED
  BY <1>3, <1>4, <1>8 DEF WholeInv

\* Whatever the limits and however fragments, chunks, credits, a close and a
\* broken connection interleave, the peer's onPayload gets a prefix of the
\* payloads the producer gave, in their order, each whole and once (the empty
\* ones left out): what is buffered, queued, left of a chain and written is at
\* every moment the exact continuation of what the peer has.
THEOREM PayloadsArriveWhole == ReactiveSpec => []DeliveredWhole
<1>1. ASSUME ReactiveInit, FlowInv, WantedOK PROVE WholeInv
  BY <1>1, WholeInit DEF ReactiveInit
<1>2. ASSUME WholeInv, FlowInv', WantedOK', [ReactiveNext]_<<part, vars, readerVars>>
      PROVE  WholeInv'
  <2>1. Next \/ UNCHANGED vars
    BY <1>2 DEF ReactiveNext
  <2>2. QED
    BY <1>2, <2>1, WholeStep
<1>3. WholeInv => DeliveredWhole
  BY DEF WholeInv
<1>4. QED
  BY <1>1, <1>2, <1>3, FlowInvariant, WantedTypes, PTL DEF ReactiveSpec
=============================================================================
