---------------------------- MODULE RingHistory ----------------------------
(***************************************************************************)
(* What the two users of a ring see of it from end to end.  Two history    *)
(* variables are added to SPSCRingBuffer: all the bytes that successful    *)
(* calls of write() have ever taken, and how many of them the consumer is  *)
(* past, having read them or cleared them away.  They record steps of the  *)
(* ring and allow all of them.                                             *)
(*                                                                         *)
(* BoundedFifo says what one call does to the queue; here is what follows  *)
(* for all calls together, clears, kills and refusals in between.          *)
(***************************************************************************)
EXTENDS SPSCRingBufferProofs

VARIABLES
  produced,  \* the buffers of all successful write()s, one after the other
  position   \* how many of these bytes are behind the consumer

historyVars == <<vars, produced, position>>

HistoryInit == Init /\ produced = <<>> /\ position = 0

Passed == IF FinishRead THEN want
          ELSE IF FinishClear THEN Span(tail, seen) ELSE 0

HistoryNext ==
  /\ Next
  /\ produced' = IF FinishWrite THEN produced \o src ELSE produced
  /\ position' = position + Passed

HistorySpec == HistoryInit /\ [][HistoryNext]_historyVars

-----------------------------------------------------------------------------
(* The ring holds what has been produced and is not yet behind the         *)
(* consumer, nothing else and nothing of a write that was refused or of a  *)
(* producer that was killed.                                               *)
NothingLost ==
  /\ position <= Len(produced)
  /\ Contents = SubSeq(produced, position + 1, Len(produced))

(* A successful read() returns the bytes of the stream that follow those   *)
(* of the one before, however the producer's steps lie between the two.    *)
ReadsInOrder ==
  [][ FinishRead => /\ got' = SubSeq(produced, position + 1, position')
                    /\ Len(got') = position' - position
                    /\ position' <= Len(produced) ]_historyVars

(* Both ends of what the ring holds are frame boundaries of the stream: the*)
(* first byte of every read is one of the left channel.                    *)
FramesIntact == Aligned(position) /\ Aligned(Len(produced))

-----------------------------------------------------------------------------
(* The relation of the history to the ring, byte by byte.                  *)
HistoryInv ==
  /\ produced \in Seq(Byte) /\ position \in Nat
  /\ Len(produced) = position + AvailableRead
  /\ \A i \in 1 .. AvailableRead : Contents[i] = produced[position + i]

LEMMA HistoryOfRing == HistorySpec => Spec
<1>1. HistoryInit => Init
  BY DEF HistoryInit
<1>2. [HistoryNext]_historyVars => [Next]_vars
  BY DEF HistoryNext, historyVars
<1> QED
  BY <1>1, <1>2, PTL DEF HistorySpec, Spec

(* A step that publishes neither index changes neither the contents nor the*)
(* history.                                                                *)
LEMMA OtherStepsKeepContents ==
  ASSUME RingInv, [Next]_vars, ~FinishWrite, ~FinishRead, ~FinishClear
  PROVE  AvailableRead' = AvailableRead /\ Contents' = Contents
<1>1. CASE CopyIn
  BY <1>1, CopyInKeepsContents
<1>2. CASE ~CopyIn
  <2>1. UNCHANGED shared
    BY <1>2 DEF Next, Producer, Consumer, vars, shared,
       RefuseWrite, BeginWrite, ProducerRestart, RefuseRead, BeginRead,
       CopyOut, Probe, GiveUp, BeginClear, ConsumerRestart
  <2> QED
    BY <2>1, SharedUnchanged
<1> QED
  BY <1>1, <1>2

LEMMA HistoryInvInit == HistoryInit => HistoryInv
<1> SUFFICES ASSUME HistoryInit PROVE HistoryInv
  OBVIOUS
<1>1. AvailableRead = 0
  BY DEF HistoryInit, Init, AvailableRead
<1>2. produced \in Seq(Byte) /\ Len(produced) = 0
  BY EmptySeq DEF HistoryInit
<1> QED
  BY <1>1, <1>2 DEF HistoryInv, HistoryInit

(* Publishing a write appends the same bytes to the ring and the history.  *)
LEMMA FinishWriteHistory ==
  ASSUME RingInv, HistoryInv, HistoryNext, FinishWrite
  PROVE  HistoryInv'
<1>1. /\ produced' = produced \o src /\ src \in Seq(Byte)
      /\ position' = position
  <2>1. Passed = 0
    BY DEF Passed, FinishWrite, FinishRead, FinishClear, producer
  <2> QED
    BY <2>1 DEF HistoryNext, RingInv, TypeOK, HistoryInv
<1>2. /\ produced' \in Seq(Byte)
      /\ Len(produced') = Len(produced) + Len(src)
      /\ \A i \in 1 .. Len(produced) + Len(src) :
           produced'[i] = IF i <= Len(produced) THEN produced[i]
                          ELSE src[i - Len(produced)]
  BY <1>1, ConcatProperties DEF HistoryInv
<1>3. /\ AvailableRead \in Nat /\ Len(src) \in Nat /\ position \in Nat
      /\ Len(produced) = position + AvailableRead
  BY <1>1, HeadFromTail, RingAssumption DEF RingInv, Cells, HistoryInv
<1>4. /\ AvailableRead' = AvailableRead + Len(src)
      /\ \A i \in 1 .. AvailableRead : Contents'[i] = Contents[i]
      /\ \A i \in 1 .. Len(src) : Contents'[AvailableRead + i] = src[i]
  BY FinishWriteAppends
<1>5. ASSUME NEW i \in 1 .. AvailableRead + Len(src)
      PROVE  Contents'[i] = produced'[position + i]
  <2>1. CASE i <= AvailableRead
    <3>1. i \in 1 .. AvailableRead
      BY <1>3, <2>1
    <3>2. produced'[position + i] = produced[position + i]
      BY <1>2, <1>3, <3>1
    <3> QED
      BY <1>4, <3>1, <3>2 DEF HistoryInv
  <2>2. CASE ~(i <= AvailableRead)
    <3> DEFINE j == i - AvailableRead
    <3>1. j \in 1 .. Len(src) /\ AvailableRead + j = i
      BY <1>3, <2>2
    <3>2. Contents'[i] = src[j]
      BY <1>4, <3>1
    <3>3. /\ position + i \in 1 .. Len(produced) + Len(src)
          /\ ~(position + i <= Len(produced))
          /\ (position + i) - Len(produced) = j
      BY <1>3, <2>2
    <3>4. produced'[position + i] = src[j]
      BY <1>2, <3>3
    <3> QED
      BY <3>2, <3>4
  <2> QED
    BY <2>1, <2>2
<1>6. position' = position /\ AvailableRead' = AvailableRead + Len(src)
  BY <1>1, <1>4
<1>7. position' \in Nat
  BY <1>3, <1>6
<1>8. Len(produced') = position' + AvailableRead'
  <2>1. Len(produced') = Len(produced) + Len(src)
    BY <1>2
  <2> QED
    BY <1>3, <1>6, <2>1
<1>9. \A i \in 1 .. AvailableRead' : Contents'[i] = produced'[position' + i]
  BY <1>5, <1>6, Zenon
<1>10. produced' \in Seq(Byte)
  BY <1>2
<1> QED
  BY <1>7, <1>8, <1>9, <1>10 DEF HistoryInv

(* A read and a clear take from the ring what they pass in the history.    *)
LEMMA TailMovePasses ==
  ASSUME RingInv, HistoryInv, HistoryNext, FinishRead \/ FinishClear
  PROVE  /\ Passed \in Nat /\ Passed <= AvailableRead
         /\ tail' = Cell(tail, Passed)
         /\ UNCHANGED <<head, data, produced>>
         /\ position' = position + Passed
<1>1. ~(FinishRead /\ FinishClear) /\ ~FinishWrite
  BY DEF FinishRead, FinishClear, FinishWrite, producer, RingInv, TypeOK
<1>2. UNCHANGED <<head, data, produced>> /\ position' = position + Passed
  BY <1>1 DEF HistoryNext, FinishRead, FinishClear
<1>3. CASE FinishRead
  BY <1>2, <1>3, FinishReadMovesTail DEF Passed
<1>4. CASE FinishClear
  BY <1>1, <1>2, <1>4, FinishClearMovesTail DEF Passed
<1> QED
  BY <1>3, <1>4

LEMMA TailMoveHistory ==
  ASSUME RingInv, HistoryInv, HistoryNext, FinishRead \/ FinishClear
  PROVE  HistoryInv'
<1>1. /\ Passed \in Nat /\ Passed <= AvailableRead
      /\ tail' = Cell(tail, Passed)
      /\ UNCHANGED <<head, data, produced>>
      /\ position' = position + Passed
  BY TailMovePasses
<1>2. /\ AvailableRead' = AvailableRead - Passed
      /\ \A i \in 1 .. AvailableRead - Passed :
           Contents'[i] = Contents[Passed + i]
  BY <1>1, TailMoveDrops
<1>3. /\ AvailableRead \in Nat /\ position \in Nat
      /\ Len(produced) = position + AvailableRead
  BY HeadFromTail, RingAssumption DEF RingInv, Cells, HistoryInv
<1>4. ASSUME NEW i \in 1 .. AvailableRead - Passed
      PROVE  Contents'[i] = produced[position' + i]
  <2>1. /\ Passed + i \in 1 .. AvailableRead
        /\ position' + i = position + (Passed + i)
    BY <1>1, <1>3
  <2>2. Contents[Passed + i] = produced[position + (Passed + i)]
    BY <2>1 DEF HistoryInv
  <2> QED
    BY <1>2, <2>1, <2>2
<1>5. /\ position' \in Nat /\ Len(produced') = position' + AvailableRead'
      /\ \A i \in 1 .. AvailableRead' : Contents'[i] = produced'[position' + i]
  BY <1>1, <1>2, <1>3, <1>4
<1> QED
  BY <1>1, <1>5 DEF HistoryInv

LEMMA HistoryInvNext ==
  RingInv /\ HistoryInv /\ [HistoryNext]_historyVars => HistoryInv'
<1> SUFFICES ASSUME RingInv, HistoryInv, [HistoryNext]_historyVars
             PROVE  HistoryInv'
  OBVIOUS
<1>1. CASE HistoryNext /\ FinishWrite
  BY <1>1, FinishWriteHistory
<1>2. CASE HistoryNext /\ (FinishRead \/ FinishClear)
  BY <1>2, TailMoveHistory
<1>3. CASE HistoryNext /\ ~FinishWrite /\ ~FinishRead /\ ~FinishClear
  <2>1. Passed = 0 /\ UNCHANGED <<produced, position>>
    BY <1>3 DEF HistoryNext, Passed, HistoryInv
  <2>2. AvailableRead' = AvailableRead /\ Contents' = Contents
    BY <1>3, OtherStepsKeepContents DEF HistoryNext
  <2> QED
    BY <2>1, <2>2 DEF HistoryInv
<1>4. CASE UNCHANGED historyVars
  BY <1>4, SharedUnchanged DEF historyVars, vars, HistoryInv
<1> QED
  BY <1>1, <1>2, <1>3, <1>4

LEMMA HistoryInvariant == HistorySpec => []HistoryInv
<1>1. HistoryInit => HistoryInv
  BY HistoryInvInit
<1>2. RingInv /\ HistoryInv /\ [HistoryNext]_historyVars => HistoryInv'
  BY HistoryInvNext
<1>3. HistorySpec => []RingInv
  BY HistoryOfRing, RingInvariant, PTL
<1> QED
  BY <1>1, <1>2, <1>3, PTL DEF HistorySpec

(***************************************************************************)
(* The ring always holds the part of the producer's stream that follows    *)
(* what the consumer is past: no byte is ever lost, doubled or reordered.  *)
(***************************************************************************)
THEOREM NothingIsLost == HistorySpec => []NothingLost
<1>1. ASSUME RingInv, HistoryInv PROVE NothingLost
  <2>1. /\ Contents \in Seq(Byte) /\ Len(Contents) = AvailableRead
        /\ AvailableRead \in Nat
    BY <1>1, ContentsIsSeq, HeadFromTail, RingAssumption DEF RingInv, Cells
  <2>2. /\ produced \in Seq(Byte) /\ position \in Nat
        /\ Len(produced) = position + AvailableRead
    BY <1>1 DEF HistoryInv
  <2> DEFINE rest == SubSeq(produced, position + 1, Len(produced))
  <2>3. /\ rest \in Seq(Byte) /\ Len(rest) = AvailableRead
        /\ \A i \in 1 .. AvailableRead : rest[i] = produced[position + i]
    <3>1. \A i \in position + 1 .. Len(produced) : produced[i] \in Byte
      BY <2>1, <2>2, ElementOfSeq
    <3>2. position + 1 \in Int /\ Len(produced) \in Int
      BY <2>1, <2>2
    <3>3. /\ rest \in Seq(Byte)
          /\ Len(rest) = IF position + 1 <= Len(produced)
                         THEN Len(produced) - (position + 1) + 1 ELSE 0
          /\ \A i \in 1 .. Len(produced) - (position + 1) + 1 :
               rest[i] = produced[(position + 1) + i - 1]
      BY <2>2, <3>1, <3>2, SubSeqProperties
    <3>4. /\ Len(produced) - (position + 1) + 1 = AvailableRead
          /\ \A i \in 1 .. AvailableRead : (position + 1) + i - 1 = position + i
      BY <2>1, <2>2
    <3> HIDE DEF rest
    <3> QED
      BY <2>1, <2>2, <3>3, <3>4
  <2> HIDE DEF rest
  <2>4. \A i \in 1 .. Len(Contents) : Contents[i] = rest[i]
    BY <1>1, <2>1, <2>3 DEF HistoryInv
  <2>5. Contents = rest
    BY <2>1, <2>3, <2>4, SeqEqual
  <2> QED
    BY <2>1, <2>2, <2>5 DEF NothingLost, rest
<1>2. HistorySpec => []RingInv
  BY HistoryOfRing, RingInvariant, PTL
<1> QED
  BY <1>1, <1>2, HistoryInvariant, PTL

(***************************************************************************)
(* Read after read, the consumer gets the producer's stream in order and   *)
(* without a gap, but for what it clears.                                  *)
(***************************************************************************)
THEOREM ReadsFollowEachOther == HistorySpec => ReadsInOrder
<1> DEFINE Next2 == /\ got' = SubSeq(produced, position + 1, position')
                    /\ Len(got') = position' - position
                    /\ position' <= Len(produced)
<1>1. ASSUME RingInv, HistoryInv, [HistoryNext]_historyVars, FinishRead
      PROVE  Next2
  <2>1. HistoryNext
    BY <1>1 DEF historyVars, vars, consumer, FinishRead
  <2>2. Passed = want /\ position' = position + want
    BY <1>1, <2>1 DEF Passed, HistoryNext
  <2>3. /\ want \in Nat /\ want <= AvailableRead /\ AvailableRead \in Nat
        /\ produced \in Seq(Byte) /\ position \in Nat
        /\ Len(produced) = position + AvailableRead
    BY <1>1, FinishReadMovesTail, HeadFromTail, RingAssumption
       DEF RingInv, Cells, HistoryInv
  <2>4. /\ got' \in Seq(Byte) /\ Len(got') = want
        /\ \A i \in 1 .. want : got'[i] = Contents[i]
    BY <1>1 DEF FinishRead, RingInv, TypeOK, ReadsOldest
  <2> DEFINE part == SubSeq(produced, position + 1, position + want)
  <2>5. /\ part \in Seq(Byte) /\ Len(part) = want
        /\ \A i \in 1 .. want : part[i] = produced[position + i]
    <3>1. \A i \in position + 1 .. position + want : produced[i] \in Byte
      BY <2>3, ElementOfSeq
    <3>2. position + 1 \in Int /\ position + want \in Int
      BY <2>3
    <3>3. /\ part \in Seq(Byte)
          /\ Len(part) = IF position + 1 <= position + want
                         THEN (position + want) - (position + 1) + 1 ELSE 0
          /\ \A i \in 1 .. (position + want) - (position + 1) + 1 :
               part[i] = produced[(position + 1) + i - 1]
      BY <2>3, <3>1, <3>2, SubSeqProperties
    <3>4. /\ (position + want) - (position + 1) + 1 = want
          /\ \A i \in 1 .. want : (position + 1) + i - 1 = position + i
      BY <2>3
    <3> HIDE DEF part
    <3> QED
      BY <2>3, <3>3, <3>4
  <2> HIDE DEF part
  <2>6. \A i \in 1 .. want : Contents[i] = produced[position + i]
    BY <1>1, <2>3 DEF HistoryInv
  <2>7. got' = part
    BY <2>4, <2>5, <2>6, SeqEqual
  <2>8. got' = SubSeq(produced, position + 1, position')
    BY <2>2, <2>7, Zenon DEF part
  <2>9. position' - position = want /\ position' <= Len(produced)
    BY <2>2, <2>3
  <2>10. Len(got') = position' - position
    BY <2>4, <2>9, Zenon
  <2> QED
    BY <2>8, <2>9, <2>10, Zenon
<1>2. RingInv /\ HistoryInv /\ [HistoryNext]_historyVars
        => [FinishRead => Next2]_historyVars
  BY <1>1
<1>3. HistorySpec => []RingInv
  BY HistoryOfRing, RingInvariant, PTL
<1> QED
  BY <1>2, <1>3, HistoryInvariant, PTL DEF HistorySpec, ReadsInOrder

-----------------------------------------------------------------------------
(* A span between frame boundaries is a number of whole frames.            *)
LEMMA AlignedSpan ==
  ASSUME NEW from \in Cells, NEW to \in Cells, Aligned(from), Aligned(to)
  PROVE  Aligned(Span(from, to))
<1>1. from \in Nat /\ to \in Nat /\ from < Capacity /\ Capacity \in Nat
  BY RingAssumption DEF Cells
<1>2. CASE to < from
  <2>1. Aligned(to + Capacity)
    BY <1>1, AlignedSum, FrameAssumption
  <2>2. Aligned((to + Capacity) - from)
    BY <1>1, <2>1, AlignedDifference
  <2>3. Span(from, to) = (to + Capacity) - from
    BY <1>1, <1>2 DEF Span
  <2> QED
    BY <2>2, <2>3
<1>3. CASE ~(to < from)
  BY <1>1, <1>3, AlignedDifference DEF Span
<1> QED
  BY <1>2, <1>3

LEMMA FramesIntactNext ==
  ASSUME RingInv, AlignInv, HistoryInv, FramesIntact, [HistoryNext]_historyVars
  PROVE  FramesIntact'
<1>1. Len(produced) \in Nat /\ position \in Nat
  BY DEF HistoryInv
<1>2. CASE HistoryNext /\ FinishWrite
  <2>1. src \in Seq(Byte) /\ Aligned(Len(src)) /\ Passed = 0
    BY <1>2, FrameAssumption DEF AlignInv, OngoingCalls, FinishWrite, RingInv,
       TypeOK, Passed, FinishRead, FinishClear, producer
  <2>2. Len(produced') = Len(produced) + Len(src) /\ position' = position
    <3>1. produced \in Seq(Byte)
      BY DEF HistoryInv
    <3>2. Len(produced \o src) = Len(produced) + Len(src)
      BY <2>1, <3>1, ConcatProperties
    <3>3. produced' = produced \o src /\ position' = position + Passed
      BY <1>2, Zenon DEF HistoryNext
    <3>4. position + Passed = position
      BY <1>1, <2>1
    <3> QED
      BY <3>2, <3>3, <3>4, Zenon
  <2>3. Len(src) \in Nat
    BY <2>1
  <2>4. Aligned(Len(produced)) /\ Aligned(position)
    BY DEF FramesIntact
  <2>5. Aligned(Len(produced) + Len(src))
    BY <1>1, <2>1, <2>3, <2>4, AlignedSum
  <2>6. Aligned(Len(produced)') /\ Aligned(position')
    BY <2>2, <2>4, <2>5, Zenon
  <2> QED
    BY <2>6 DEF FramesIntact, Aligned
<1>3. CASE HistoryNext /\ (FinishRead \/ FinishClear)
  <2>1. Passed \in Nat /\ position' = position + Passed /\ produced' = produced
    BY <1>3, TailMovePasses
  <2>2. Aligned(Passed)
    <3>1. CASE FinishRead
      BY <3>1, FrameAssumption DEF Passed, AlignInv, OngoingCalls, FinishRead
    <3>2. CASE FinishClear /\ ~FinishRead
      BY <3>2, AlignedSpan
         DEF Passed, AlignInv, OngoingCalls, ChannelsAligned, FinishClear,
             RingInv, TypeOK
    <3> QED
      BY <1>3, <3>1, <3>2
  <2> QED
    BY <1>1, <2>1, <2>2, AlignedSum DEF FramesIntact, Aligned
<1>4. CASE HistoryNext /\ ~FinishWrite /\ ~FinishRead /\ ~FinishClear
  BY <1>1, <1>4 DEF HistoryNext, Passed, FramesIntact, Aligned
<1>5. CASE UNCHANGED historyVars
  BY <1>5 DEF historyVars, FramesIntact, Aligned
<1> QED
  BY <1>2, <1>3, <1>4, <1>5

(***************************************************************************)
(* Every read begins and ends on a frame boundary of the stream, so that   *)
(* left and right are what they were to the producer.                      *)
(***************************************************************************)
THEOREM FramesStayIntact == HistorySpec => []FramesIntact
<1>1. HistoryInit => FramesIntact
  BY EmptySeq, FrameAssumption DEF HistoryInit, FramesIntact, Aligned
<1>2. RingInv /\ AlignInv /\ HistoryInv /\ FramesIntact
        /\ [HistoryNext]_historyVars => FramesIntact'
  BY FramesIntactNext
<1>3. HistorySpec => []RingInv /\ []AlignInv
  BY HistoryOfRing, RingInvariant, AlignInvariant, PTL
<1> QED
  BY <1>1, <1>2, <1>3, HistoryInvariant, PTL DEF HistorySpec
=============================================================================
