------------------------ MODULE SPSCRingBufferProofs ------------------------
(***************************************************************************)
(* Proofs about the ring for every capacity, frame size, byte set and set  *)
(* of buffers: the inductive invariant, the absence of shared cells, frame *)
(* alignment, and the refinement of BoundedFifo.                           *)
(***************************************************************************)
EXTENDS SPSCRingBuffer, SequenceTheorems, TLAPS

-----------------------------------------------------------------------------
(* Index arithmetic.  All of it is linear once % is gone.                  *)

(* A cell index computed by the two-chunk rule is an index.                *)
LEMMA CellInCells ==
  ASSUME NEW base \in Cells, NEW i \in Cells
  PROVE  Cell(base, i) \in Cells
BY RingAssumption DEF Cells, Cell

(* Offsets of less than a full turn that differ name different cells.      *)
LEMMA CellInjective ==
  ASSUME NEW base \in Cells, NEW i \in Cells, NEW j \in Cells,
         Cell(base, i) = Cell(base, j)
  PROVE  i = j
BY RingAssumption DEF Cells, Cell

(* Walking m cells and then i cells is walking m + i cells.                *)
LEMMA CellAdd ==
  ASSUME NEW base \in Cells, NEW m \in Nat, NEW i \in Nat, m + i < Capacity
  PROVE  Cell(Cell(base, m), i) = Cell(base, m + i)
BY RingAssumption DEF Cells, Cell

(* The modular step of the code and the two-chunk rule agree.              *)
LEMMA AdvanceIsCell ==
  ASSUME NEW base \in Cells, NEW len \in Cells
  PROVE  Advance(base, len) = Cell(base, len)
<1>1. base + len \in Nat /\ base + len < 2 * Capacity
  BY RingAssumption DEF Cells
<1>2. CASE base + len < Capacity
  BY <1>1, <1>2, RingAssumption DEF Advance, Cell, Cells
<1>3. CASE base + len >= Capacity
  BY <1>1, <1>3, RingAssumption DEF Advance, Cell, Cells
<1>4. QED
  BY <1>1, <1>2, <1>3, RingAssumption DEF Cells

(* The number of readable bytes is the walk from the tail to the head.     *)
LEMMA HeadFromTail ==
  ASSUME TypeOK
  PROVE  /\ AvailableRead \in Cells
         /\ AvailableWrite \in Cells
         /\ head = Cell(tail, AvailableRead)
BY RingAssumption DEF TypeOK, Cells, AvailableRead, AvailableWrite, Cell

(* Advancing the head by a write adds its length to what is readable.      *)
LEMMA HeadAdvances ==
  ASSUME TypeOK, NEW len \in Nat, len <= AvailableWrite,
         head' = Advance(head, len), tail' = tail
  PROVE  head' \in Cells /\ AvailableRead' = AvailableRead + len
<1>1. len \in Cells /\ head' = Cell(head, len)
  BY RingAssumption, HeadFromTail, AdvanceIsCell
     DEF TypeOK, Cells, AvailableWrite
<1>2. QED
  BY <1>1, RingAssumption
     DEF TypeOK, Cells, Cell, AvailableRead, AvailableWrite

(* Advancing the tail by a read takes its length from what is readable.    *)
LEMMA TailAdvances ==
  ASSUME TypeOK, NEW len \in Nat, len <= AvailableRead,
         tail' = Advance(tail, len), head' = head
  PROVE  /\ tail' \in Cells
         /\ tail' = Cell(tail, len)
         /\ AvailableRead' = AvailableRead - len
<1>1. len \in Cells /\ tail' = Cell(tail, len)
  BY RingAssumption, HeadFromTail, AdvanceIsCell DEF TypeOK, Cells
<1>2. QED
  BY <1>1, RingAssumption DEF TypeOK, Cells, Cell, AvailableRead

-----------------------------------------------------------------------------
(* The cell a write stores to next is not a readable one.                  *)
LEMMA NextCellIsFree ==
  ASSUME TypeOK, RoomReserved, wpc = "copy",
         NEW i \in 0 .. Len(src) - 1, NEW j \in 0 .. AvailableRead - 1
  PROVE  Cell(head, i) # Cell(tail, j)
<1>1. AvailableRead + i \in Cells /\ j \in Cells /\ j # AvailableRead + i
  <2>1. Len(src) \in Nat /\ AvailableRead \in Cells
    BY HeadFromTail DEF TypeOK
  <2>2. Len(src) <= Capacity - 1 - AvailableRead
    BY DEF RoomReserved, AvailableWrite
  <2>3. QED
    BY <2>1, <2>2, RingAssumption DEF Cells
<1>2. Cell(head, i) = Cell(tail, AvailableRead + i)
  <2>1. AvailableRead \in Nat /\ i \in Nat /\ AvailableRead + i < Capacity
    BY <1>1, HeadFromTail, RingAssumption DEF Cells
  <2>2. QED
    BY <2>1, HeadFromTail, CellAdd DEF TypeOK
<1>3. QED
  BY <1>1, <1>2, CellInjective DEF TypeOK

THEOREM RingInvInit == Init => RingInv
BY RingAssumption
   DEF Init, RingInv, TypeOK, RoomReserved, CopiedInPlace, IdleProducer,
       ReadsOldest, SeenStillAvailable, MarkInStream, Cells

(* Whatever the consumer does, a write in progress is left alone.          *)
LEMMA ProducerPartUndisturbed ==
  ASSUME RingInv, UNCHANGED <<head, data, producer>>,
         AvailableRead' <= AvailableRead, AvailableRead' \in Cells
  PROVE  RoomReserved' /\ CopiedInPlace' /\ IdleProducer'
<1>1. AvailableWrite <= AvailableWrite'
  BY HeadFromTail, RingAssumption DEF RingInv, AvailableWrite, Cells
<1>2. RoomReserved'
  <2>1. Len(src) \in Nat /\ AvailableWrite \in Int /\ AvailableWrite' \in Int
    BY HeadFromTail, RingAssumption DEF RingInv, TypeOK, AvailableWrite, Cells
  <2>2. QED
    BY <1>1, <2>1 DEF RingInv, RoomReserved, producer
<1>3. QED
  BY <1>2 DEF RingInv, CopiedInPlace, IdleProducer, producer, Cell

(* A step that leaves the shared fields and one side alone keeps the       *)
(* invariant's clauses about that side.                                    *)
LEMMA SharedUnchanged ==
  ASSUME RingInv, UNCHANGED shared
  PROVE  /\ AvailableRead' = AvailableRead
         /\ AvailableWrite' = AvailableWrite
         /\ Contents' = Contents
BY DEF shared, AvailableRead, AvailableWrite, Contents, Cell

LEMMA ProducerFrame ==
  ASSUME RingInv, UNCHANGED <<shared, producer>>
  PROVE  RoomReserved' /\ CopiedInPlace' /\ IdleProducer'
BY SharedUnchanged
   DEF RingInv, RoomReserved, CopiedInPlace, IdleProducer, Cell, shared, producer

LEMMA ConsumerFrame ==
  ASSUME RingInv, UNCHANGED <<shared, consumer>>
  PROVE  ReadsOldest' /\ SeenStillAvailable' /\ MarkInStream'
BY SharedUnchanged
   DEF RingInv, ReadsOldest, SeenStillAvailable, MarkInStream, Span, shared,
       consumer

(* Storing a byte of a write in progress does not change the contents.     *)
LEMMA CopyInKeepsContents ==
  ASSUME RingInv, CopyIn
  PROVE  /\ AvailableRead' = AvailableRead
         /\ Contents' = Contents
<1>1. AvailableRead' = AvailableRead
  BY DEF CopyIn, AvailableRead
<1>2. copied \in 0 .. Len(src) - 1
  BY DEF RingInv, TypeOK, CopyIn
<1>3. ASSUME NEW i \in 1 .. AvailableRead
      PROVE  data'[Cell(tail, i - 1)] = data[Cell(tail, i - 1)]
  <2>1. i - 1 \in 0 .. AvailableRead - 1 /\ i - 1 \in Cells
    BY HeadFromTail, RingAssumption DEF RingInv, Cells
  <2>2. Cell(head, copied) # Cell(tail, i - 1)
    BY <1>2, <2>1, NextCellIsFree DEF RingInv, CopyIn
  <2>3. Cell(tail, i - 1) \in Cells
    BY <2>1, CellInCells DEF RingInv, TypeOK
  <2>4. QED
    BY <2>2, <2>3 DEF RingInv, TypeOK, CopyIn
<1>4. QED
  BY <1>1, <1>3 DEF Contents, CopyIn, Cell

(* Publishing a finished write appends its bytes to the contents.          *)
LEMMA FinishWriteAppends ==
  ASSUME RingInv, FinishWrite
  PROVE  /\ head' \in Cells
         /\ AvailableRead' = AvailableRead + Len(src)
         /\ AvailableRead' \in Cells
         /\ \A i \in 1 .. AvailableRead : Contents'[i] = Contents[i]
         /\ \A i \in 1 .. Len(src) : Contents'[AvailableRead + i] = src[i]
<1>1. Len(src) \in Nat /\ Len(src) <= AvailableWrite
  BY DEF RingInv, TypeOK, RoomReserved, FinishWrite
<1>2. head' \in Cells /\ AvailableRead' = AvailableRead + Len(src)
  BY <1>1, HeadAdvances DEF RingInv, FinishWrite
<1>3. AvailableRead \in Cells /\ AvailableRead' \in Cells
  BY <1>1, <1>2, HeadFromTail, RingAssumption DEF RingInv, AvailableWrite, Cells
<1>4. ASSUME NEW i \in 1 .. AvailableRead
      PROVE  Contents'[i] = Contents[i]
  BY <1>1, <1>2, <1>3 DEF Contents, FinishWrite, Cells, Cell
<1>5. ASSUME NEW i \in 1 .. Len(src)
      PROVE  Contents'[AvailableRead + i] = src[i]
  <2>1. /\ AvailableRead \in Nat /\ i - 1 \in Nat
        /\ AvailableRead + (i - 1) < Capacity
        /\ AvailableRead + i \in 1 .. AvailableRead'
    BY <1>1, <1>2, <1>3, RingAssumption DEF Cells
  <2>2. Cell(tail, AvailableRead + (i - 1)) = Cell(head, i - 1)
    BY <2>1, HeadFromTail, CellAdd DEF RingInv, TypeOK
  <2>3. Contents'[AvailableRead + i] = data[Cell(tail, AvailableRead + (i - 1))]
    <3>1. (AvailableRead + i) - 1 = AvailableRead + (i - 1)
      BY <2>1
    <3>2. QED
      BY <2>1, <3>1 DEF Contents, FinishWrite, Cell
  <2>4. data[Cell(head, i - 1)] = src[i]
    BY DEF RingInv, CopiedInPlace, FinishWrite
  <2>5. QED
    BY <2>2, <2>3, <2>4
<1>6. QED
  BY <1>2, <1>3, <1>4, <1>5

(* Moving the tail over the n oldest bytes shifts the contents by n.       *)
LEMMA TailMoveDrops ==
  ASSUME RingInv, NEW n \in Nat, n <= AvailableRead,
         tail' = Cell(tail, n), UNCHANGED <<head, data>>
  PROVE  /\ tail' \in Cells
         /\ AvailableRead' = AvailableRead - n
         /\ AvailableRead' \in Cells
         /\ \A i \in 1 .. AvailableRead - n : Contents'[i] = Contents[n + i]
<1>1. n \in Cells /\ AvailableRead \in Cells
  BY HeadFromTail, RingAssumption DEF RingInv, Cells
<1>2. tail' = Advance(tail, n)
  BY <1>1, AdvanceIsCell DEF RingInv, TypeOK
<1>3. tail' \in Cells /\ AvailableRead' = AvailableRead - n
  BY <1>2, TailAdvances DEF RingInv
<1>4. AvailableRead' \in Cells
  BY <1>1, <1>3, RingAssumption DEF Cells
<1>5. ASSUME NEW i \in 1 .. AvailableRead - n
      PROVE  Contents'[i] = Contents[n + i]
  <2>1. /\ i \in 1 .. AvailableRead' /\ n + i \in 1 .. AvailableRead
        /\ i - 1 \in Nat /\ n + (i - 1) < Capacity /\ (n + i) - 1 = n + (i - 1)
    BY <1>1, <1>3, RingAssumption DEF Cells
  <2>2. Cell(tail', i - 1) = Cell(tail, n + (i - 1))
    BY <2>1, CellAdd DEF RingInv, TypeOK
  <2>3. Contents'[i] = data[Cell(tail', i - 1)]
    BY <2>1 DEF Contents, Cell
  <2>4. Contents[n + i] = data[Cell(tail, n + (i - 1))]
    BY <2>1 DEF Contents
  <2>5. QED
    BY <2>2, <2>3, <2>4
<1>6. QED
  BY <1>3, <1>4, <1>5

(* A mark is the cell its span leads to.                                   *)
LEMMA MarkIsCell ==
  ASSUME NEW from \in Cells, NEW to \in Cells
  PROVE  Span(from, to) \in Nat /\ to = Cell(from, Span(from, to))
BY RingAssumption DEF Cells, Span, Cell

-----------------------------------------------------------------------------
(* Every step keeps the inductive invariant, action by action.             *)

LEMMA RefuseWriteInv ==
  ASSUME RingInv, NEW buf \in Buffers, RefuseWrite(buf)
  PROVE  RingInv'
<1>1. TypeOK'
  BY DEF RingInv, TypeOK, RefuseWrite, shared, consumer
<1>2. ReadsOldest' /\ SeenStillAvailable' /\ MarkInStream'
  BY ConsumerFrame DEF RefuseWrite
<1>3. RoomReserved' /\ CopiedInPlace' /\ IdleProducer'
  BY SharedUnchanged
     DEF RingInv, RefuseWrite, RoomReserved, CopiedInPlace, IdleProducer,
         shared, Cell
<1>4. QED
  BY <1>1, <1>2, <1>3 DEF RingInv

LEMMA BeginWriteInv ==
  ASSUME RingInv, NEW buf \in Buffers, BeginWrite(buf)
  PROVE  RingInv'
<1>1. buf \in Seq(Byte) /\ Len(buf) \in Nat
  BY RingAssumption
<1>2. TypeOK'
  BY <1>1 DEF RingInv, TypeOK, BeginWrite, shared, consumer
<1>3. ReadsOldest' /\ SeenStillAvailable' /\ MarkInStream'
  BY ConsumerFrame DEF BeginWrite
<1>4. RoomReserved' /\ CopiedInPlace' /\ IdleProducer'
  BY SharedUnchanged DEF BeginWrite, RoomReserved, CopiedInPlace, IdleProducer
<1>5. QED
  BY <1>2, <1>3, <1>4 DEF RingInv

LEMMA CopyInInv ==
  ASSUME RingInv, CopyIn
  PROVE  RingInv'
<1>1. /\ copied \in 0 .. Len(src) - 1 /\ Len(src) \in Nat
      /\ src[copied + 1] \in Byte
  <2>1. Len(src) \in Nat /\ copied \in 0 .. Len(src) - 1
    BY DEF RingInv, TypeOK, CopyIn
  <2>2. src \in Seq(Byte) /\ copied + 1 \in 1 .. Len(src)
    BY <2>1 DEF RingInv, TypeOK
  <2>3. QED
    BY <2>1, <2>2, ElementOfSeq
<1>2. copied \in Cells /\ Len(src) <= Capacity - 1
  <2>1. AvailableWrite \in Cells /\ Len(src) <= AvailableWrite
    BY HeadFromTail DEF RingInv, RoomReserved, CopyIn
  <2>2. QED
    BY <1>1, <2>1, RingAssumption DEF Cells
<1>3. TypeOK'
  <2>1. data' \in [Cells -> Byte]
    BY <1>1 DEF RingInv, TypeOK, CopyIn
  <2>2. src' = src /\ copied' \in 0 .. Len(src)
    BY <1>1 DEF CopyIn
  <2>3. QED
    BY <2>1, <2>2 DEF RingInv, TypeOK, CopyIn, consumer
<1>4. RoomReserved' /\ IdleProducer'
  BY CopyInKeepsContents
     DEF RingInv, RoomReserved, IdleProducer, CopyIn, AvailableWrite
<1>5. CopiedInPlace'
  <2> SUFFICES ASSUME NEW i \in 1 .. copied'
               PROVE  data'[Cell(head, i - 1)] = src[i]
    BY DEF CopiedInPlace, CopyIn, Cell
  <2>1. i - 1 \in Cells /\ Cell(head, i - 1) \in Cells
    <3>1. i \in 1 .. copied + 1
      BY DEF CopyIn
    <3>2. i - 1 \in Cells
      BY <1>1, <1>2, <3>1, RingAssumption DEF Cells
    <3>3. QED
      BY <3>2, CellInCells DEF RingInv, TypeOK
  <2>2. CASE i - 1 = copied
    BY <1>1, <2>1, <2>2 DEF RingInv, TypeOK, CopyIn
  <2>3. CASE i - 1 # copied
    <3>1. Cell(head, i - 1) # Cell(head, copied)
      BY <1>2, <2>1, <2>3, CellInjective DEF RingInv, TypeOK
    <3>2. i \in 1 .. copied
      BY <1>1, <2>3 DEF CopyIn
    <3>3. QED
      BY <2>1, <3>1, <3>2 DEF RingInv, TypeOK, CopiedInPlace, CopyIn
  <2>4. QED
    BY <2>2, <2>3
<1>6. ReadsOldest' /\ SeenStillAvailable' /\ MarkInStream'
  BY CopyInKeepsContents
     DEF RingInv, ReadsOldest, SeenStillAvailable, MarkInStream, Span, CopyIn,
         consumer
<1>7. QED
  BY <1>3, <1>4, <1>5, <1>6 DEF RingInv

LEMMA FinishWriteInv ==
  ASSUME RingInv, FinishWrite
  PROVE  RingInv'
<1>1. TypeOK'
  BY FinishWriteAppends DEF RingInv, TypeOK, FinishWrite, consumer
<1>2. RoomReserved' /\ CopiedInPlace' /\ IdleProducer'
  BY DEF FinishWrite, RoomReserved, CopiedInPlace, IdleProducer
<1>3. AvailableRead \in Nat /\ AvailableRead' \in Nat /\ AvailableRead <= AvailableRead'
  BY FinishWriteAppends, HeadFromTail DEF RingInv, TypeOK, Cells
<1>4. ReadsOldest'
  <2> SUFFICES ASSUME rpc = "copy"
               PROVE  /\ want <= AvailableRead'
                      /\ \A i \in 1 .. Len(dst) : dst[i] = Contents'[i]
    BY DEF ReadsOldest, FinishWrite, consumer
  <2>1. /\ want \in Nat /\ Len(dst) \in Nat /\ Len(dst) <= want
        /\ want <= AvailableRead
        /\ \A i \in 1 .. Len(dst) : dst[i] = Contents[i]
    BY DEF RingInv, TypeOK, ReadsOldest
  <2>2. want <= AvailableRead'
    BY <1>3, <2>1
  <2>3. ASSUME NEW i \in 1 .. Len(dst)
        PROVE  dst[i] = Contents'[i]
    <3>1. i \in 1 .. AvailableRead
      BY <1>3, <2>1
    <3>2. QED
      BY <2>1, <3>1, FinishWriteAppends
  <2>4. QED
    BY <2>2, <2>3
<1>5. SeenStillAvailable'
  <2>1. seen \in Int
    BY RingAssumption DEF RingInv, TypeOK, Cells
  <2>2. QED
    BY <1>3, <2>1 DEF RingInv, SeenStillAvailable, FinishWrite, consumer
<1>6. MarkInStream'
  <2>1. Span(tail, seen) \in Nat
    BY MarkIsCell DEF RingInv, TypeOK
  <2>2. QED
    BY <1>3, <2>1 DEF RingInv, MarkInStream, FinishWrite, consumer, Span
<1>7. QED
  BY <1>1, <1>2, <1>4, <1>5, <1>6 DEF RingInv

LEMMA ProducerRestartInv ==
  ASSUME RingInv, ProducerRestart
  PROVE  RingInv'
<1>1. TypeOK'
  BY DEF RingInv, TypeOK, ProducerRestart, shared, consumer
<1>2. ReadsOldest' /\ SeenStillAvailable' /\ MarkInStream'
  BY ConsumerFrame DEF ProducerRestart
<1>3. RoomReserved' /\ CopiedInPlace' /\ IdleProducer'
  BY DEF ProducerRestart, RoomReserved, CopiedInPlace, IdleProducer
<1>4. QED
  BY <1>1, <1>2, <1>3 DEF RingInv

(* The consumer's steps that do not move the tail.                         *)
LEMMA ConsumerStayInv ==
  ASSUME RingInv,
         \/ \E n \in ReadLens : RefuseRead(n) \/ GiveUp(n)
         \/ ConsumerRestart
         \/ Probe
         \/ BeginClear
  PROVE  RingInv'
<1>1. UNCHANGED <<shared, producer>>
  BY DEF RefuseRead, GiveUp, ConsumerRestart, Probe, BeginClear
<1>2. RoomReserved' /\ CopiedInPlace' /\ IdleProducer'
  BY <1>1, ProducerFrame
<1>3. AvailableRead \in Cells /\ AvailableRead' = AvailableRead
  BY <1>1, HeadFromTail, SharedUnchanged DEF RingInv
<1>4. 0 \in Cells
  BY RingAssumption DEF Cells
<1>5. CASE Probe
  <2>1. TypeOK'
    BY <1>3, <1>5 DEF RingInv, TypeOK, Probe, shared, producer
  <2>2. ReadsOldest' /\ SeenStillAvailable' /\ MarkInStream'
    BY <1>3, <1>5, RingAssumption
       DEF Probe, ReadsOldest, SeenStillAvailable, MarkInStream, Cells
  <2>3. QED
    BY <1>2, <2>1, <2>2 DEF RingInv
<1>6. CASE BeginClear
  <2>1. TypeOK'
    BY <1>6 DEF RingInv, TypeOK, BeginClear, shared, producer
  <2>2. AvailableRead' = Span(tail', seen')
    BY <1>6, RingAssumption
       DEF RingInv, TypeOK, BeginClear, AvailableRead, Span, shared, Cells
  <2>3. ReadsOldest' /\ SeenStillAvailable' /\ MarkInStream'
    BY <1>3, <1>6, <2>2, RingAssumption
       DEF BeginClear, ReadsOldest, SeenStillAvailable, MarkInStream, Cells
  <2>4. QED
    BY <1>2, <2>1, <2>3 DEF RingInv
<1>7. CASE (\E n \in ReadLens : RefuseRead(n) \/ GiveUp(n)) \/ ConsumerRestart
  <2>1. rpc' = "idle"
    BY <1>7 DEF RefuseRead, GiveUp, ConsumerRestart
  <2>2. TypeOK'
    BY <1>4, <1>7
       DEF RingInv, TypeOK, RefuseRead, GiveUp, ConsumerRestart, shared, producer
  <2>3. ReadsOldest' /\ SeenStillAvailable' /\ MarkInStream'
    BY <2>1 DEF ReadsOldest, SeenStillAvailable, MarkInStream
  <2>4. QED
    BY <1>2, <2>2, <2>3 DEF RingInv
<1>8. QED
  BY <1>5, <1>6, <1>7

LEMMA BeginReadInv ==
  ASSUME RingInv, NEW n \in ReadLens, BeginRead(n)
  PROVE  RingInv'
<1>1. n \in Nat /\ 0 \in Cells
  BY RingAssumption DEF Cells
<1>2. TypeOK'
  BY <1>1 DEF RingInv, TypeOK, BeginRead, shared, producer
<1>3. RoomReserved' /\ CopiedInPlace' /\ IdleProducer'
  BY ProducerFrame DEF BeginRead
<1>4. ReadsOldest' /\ SeenStillAvailable' /\ MarkInStream'
  BY SharedUnchanged
     DEF BeginRead, ReadsOldest, SeenStillAvailable, MarkInStream
<1>5. QED
  BY <1>2, <1>3, <1>4 DEF RingInv

LEMMA CopyOutInv ==
  ASSUME RingInv, CopyOut
  PROVE  RingInv'
<1>1. /\ Len(dst) \in Nat /\ want \in Nat /\ Len(dst) < want
      /\ want <= AvailableRead /\ AvailableRead \in Cells
  BY HeadFromTail DEF RingInv, TypeOK, ReadsOldest, CopyOut
<1>2. Len(dst) \in Cells /\ Len(dst) + 1 \in 1 .. AvailableRead
  BY <1>1, RingAssumption DEF Cells
<1>3. /\ data[Cell(tail, Len(dst))] \in Byte
      /\ Contents[Len(dst) + 1] = data[Cell(tail, Len(dst))]
  <2>1. Cell(tail, Len(dst)) \in Cells
    BY <1>2, CellInCells DEF RingInv, TypeOK
  <2>2. (Len(dst) + 1) - 1 = Len(dst)
    BY <1>1
  <2>3. QED
    BY <1>2, <2>1, <2>2 DEF RingInv, TypeOK, Contents
<1>4. /\ dst' \in Seq(Byte) /\ Len(dst') = Len(dst) + 1
      /\ \A i \in 1 .. Len(dst) : dst'[i] = dst[i]
      /\ dst'[Len(dst) + 1] = data[Cell(tail, Len(dst))]
  BY <1>3 DEF RingInv, TypeOK, CopyOut
<1>5. TypeOK'
  BY <1>1, <1>4 DEF RingInv, TypeOK, CopyOut, shared, producer
<1>6. RoomReserved' /\ CopiedInPlace' /\ IdleProducer'
  BY ProducerFrame DEF CopyOut
<1>7. ReadsOldest'
  <2>1. want' = want /\ AvailableRead' = AvailableRead /\ Contents' = Contents
    BY SharedUnchanged DEF CopyOut
  <2>2. ASSUME NEW i \in 1 .. Len(dst')
        PROVE  dst'[i] = Contents[i]
    <3>1. CASE i \in 1 .. Len(dst)
      BY <1>4, <3>1 DEF RingInv, ReadsOldest, CopyOut
    <3>2. CASE i = Len(dst) + 1
      BY <1>3, <1>4, <3>2
    <3>3. QED
      BY <1>1, <1>4, <3>1, <3>2
  <2>3. QED
    BY <1>1, <2>1, <2>2 DEF ReadsOldest
<1>8. SeenStillAvailable' /\ MarkInStream'
  BY DEF CopyOut, SeenStillAvailable, MarkInStream
<1>9. QED
  BY <1>5, <1>6, <1>7, <1>8 DEF RingInv

(* The two steps that move the tail drop the oldest n bytes.               *)
LEMMA FinishReadMovesTail ==
  ASSUME RingInv, FinishRead
  PROVE  want \in Nat /\ want <= AvailableRead /\ tail' = Cell(tail, want)
<1>1. want \in Nat /\ want <= AvailableRead
  BY DEF RingInv, TypeOK, ReadsOldest, FinishRead
<1>2. want \in Cells
  BY <1>1, HeadFromTail, RingAssumption DEF RingInv, Cells
<1>3. QED
  BY <1>1, <1>2, AdvanceIsCell DEF RingInv, TypeOK, FinishRead

LEMMA FinishClearMovesTail ==
  ASSUME RingInv, FinishClear
  PROVE  /\ Span(tail, seen) \in Nat /\ Span(tail, seen) <= AvailableRead
         /\ tail' = Cell(tail, Span(tail, seen))
BY MarkIsCell DEF RingInv, TypeOK, MarkInStream, FinishClear

LEMMA MoveTailInv ==
  ASSUME RingInv, FinishRead \/ FinishClear
  PROVE  RingInv'
<1>1. PICK n \in Nat : n <= AvailableRead /\ tail' = Cell(tail, n)
  BY FinishReadMovesTail, FinishClearMovesTail
<1>2. UNCHANGED <<head, data, producer>>
  BY DEF FinishRead, FinishClear
<1>3. /\ tail' \in Cells /\ AvailableRead' = AvailableRead - n
      /\ AvailableRead' \in Cells
  BY <1>1, <1>2, TailMoveDrops
<1>4. AvailableRead' <= AvailableRead
  BY <1>1, <1>3, HeadFromTail DEF RingInv, Cells
<1>5. RoomReserved' /\ CopiedInPlace' /\ IdleProducer'
  BY <1>2, <1>3, <1>4, ProducerPartUndisturbed
<1>6. TypeOK'
  <2>1. 0 \in Cells
    BY RingAssumption DEF Cells
  <2>2. CASE FinishRead
    BY <1>3, <2>2 DEF RingInv, TypeOK, FinishRead, producer
  <2>3. CASE FinishClear
    BY <1>3, <2>1, <2>3 DEF RingInv, TypeOK, FinishClear, producer
  <2>4. QED
    BY <2>2, <2>3
<1>7. ReadsOldest' /\ SeenStillAvailable' /\ MarkInStream'
  BY DEF FinishRead, FinishClear, ReadsOldest, SeenStillAvailable, MarkInStream
<1>8. QED
  BY <1>5, <1>6, <1>7 DEF RingInv

LEMMA RingInvNext == RingInv /\ [Next]_vars => RingInv'
<1> SUFFICES ASSUME RingInv, [Next]_vars
             PROVE  RingInv'
  OBVIOUS
<1>1. CASE Producer
  BY <1>1, RefuseWriteInv, BeginWriteInv, CopyInInv, FinishWriteInv,
     ProducerRestartInv DEF Producer
<1>2. CASE Consumer
  BY <1>2, BeginReadInv, ConsumerStayInv, CopyOutInv, MoveTailInv DEF Consumer
<1>3. CASE UNCHANGED vars
  <2>1. UNCHANGED <<shared, producer>> /\ UNCHANGED <<shared, consumer>>
    BY <1>3 DEF vars
  <2>2. TypeOK'
    BY <2>1 DEF RingInv, TypeOK, shared, producer, consumer
  <2>3. QED
    BY <2>1, <2>2, ProducerFrame, ConsumerFrame DEF RingInv
<1>4. QED
  BY <1>1, <1>2, <1>3 DEF Next

(***************************************************************************)
(* The inductive invariant of the ring holds in every reachable state, and *)
(* with it the type invariant: indices in range, no copy out of bounds.    *)
(***************************************************************************)
THEOREM RingInvariant == Spec => []RingInv
<1>1. Init => RingInv
  BY RingInvInit
<1>2. RingInv /\ [Next]_vars => RingInv'
  BY RingInvNext
<1>3. QED
  BY <1>1, <1>2, PTL DEF Spec

(* Type correctness of the ring (head, tail and both copies in range).     *)
THEOREM TypeCorrect == Spec => []TypeOK
<1>1. RingInv => TypeOK
  BY DEF RingInv
<1>2. QED
  BY <1>1, RingInvariant, PTL

(***************************************************************************)
(* The memcpy's of write() and of read() never touch a common cell.        *)
(***************************************************************************)
THEOREM CellsNeverShared == Spec => []NoSharedCell
<1>1. RingInv => NoSharedCell
  BY NextCellIsFree DEF RingInv, NoSharedCell, WrittenCells, ReadableCells
<1>2. QED
  BY <1>1, RingInvariant, PTL

(***************************************************************************)
(* A read() in progress copies the oldest bytes of the stream, in order.   *)
(***************************************************************************)
THEOREM ReadsAreOldest == Spec => []ReadsOldest
<1>1. RingInv => ReadsOldest
  BY DEF RingInv
<1>2. QED
  BY <1>1, RingInvariant, PTL

(***************************************************************************)
(* What availableRead() returned to the consumer is still there when it    *)
(* acts on it: onFLX4IO relies on it and ignores what read() returns.      *)
(***************************************************************************)
THEOREM SeenBytesStay == Spec => []SeenStillAvailable
<1>1. RingInv => SeenStillAvailable
  BY DEF RingInv
<1>2. QED
  BY <1>1, RingInvariant, PTL

-----------------------------------------------------------------------------
(* Frame alignment.                                                        *)

(* Sums and differences of whole frames are whole frames.                  *)
LEMMA AlignedMultiple ==
  ASSUME NEW a \in Nat
  PROVE  Aligned(a) <=> \E k \in Nat : a = k * Frame
<1>1. Frame \in Nat \ {0}
  BY FrameAssumption
<1>2. ASSUME a % Frame = 0
      PROVE  \E k \in Nat : a = k * Frame
  BY <1>1, <1>2
<1>3. ASSUME NEW k \in Nat, a = k * Frame
      PROVE  a % Frame = 0
  BY <1>1, <1>3
<1>4. QED
  BY <1>2, <1>3 DEF Aligned

LEMMA AlignedSum ==
  ASSUME NEW a \in Nat, NEW b \in Nat, Aligned(a), Aligned(b)
  PROVE  Aligned(a + b)
<1>1. PICK k \in Nat : a = k * Frame
  BY AlignedMultiple
<1>2. PICK m \in Nat : b = m * Frame
  BY AlignedMultiple
<1>3. a + b = (k + m) * Frame
  BY <1>1, <1>2, FrameAssumption
<1>4. QED
  BY <1>3, AlignedMultiple

LEMMA AlignedDifference ==
  ASSUME NEW a \in Nat, NEW b \in Nat, b <= a, Aligned(a), Aligned(b)
  PROVE  Aligned(a - b)
<1>1. PICK k \in Nat : a = k * Frame
  BY AlignedMultiple
<1>2. PICK m \in Nat : b = m * Frame
  BY AlignedMultiple
<1>3. m <= k
  BY <1>1, <1>2, FrameAssumption
<1>4. a - b = (k - m) * Frame /\ k - m \in Nat
  BY <1>1, <1>2, <1>3, FrameAssumption
<1>5. QED
  BY <1>4, AlignedMultiple

(* Advancing an aligned index by whole frames keeps it aligned.            *)
LEMMA AlignedAdvance ==
  ASSUME NEW base \in Cells, NEW len \in Cells, Aligned(base), Aligned(len)
  PROVE  Aligned(Advance(base, len))
<1>1. /\ base \in Nat /\ len \in Nat /\ base + len \in Nat /\ Capacity \in Nat
      /\ Advance(base, len) = IF base + len < Capacity
                               THEN base + len ELSE (base + len) - Capacity
  BY AdvanceIsCell, RingAssumption DEF Cells, Cell
<1>2. Aligned(base + len)
  BY <1>1, AlignedSum
<1>3. CASE base + len < Capacity
  BY <1>1, <1>2, <1>3
<1>4. CASE base + len >= Capacity
  <2>1. Aligned((base + len) - Capacity)
    BY <1>1, <1>2, <1>4, AlignedDifference, FrameAssumption
  <2>2. QED
    BY <1>1, <1>4, <2>1
<1>5. QED
  BY <1>1, <1>3, <1>4

AlignInv == ChannelsAligned /\ OngoingCalls

LEMMA AlignInvNext == RingInv /\ AlignInv /\ [Next]_vars => AlignInv'
<1> SUFFICES ASSUME RingInv, AlignInv, [Next]_vars
             PROVE  AlignInv'
  OBVIOUS
<1> USE DEF AlignInv, ChannelsAligned, OngoingCalls, Aligned
<1>1. CASE FinishWrite
  <2>1. Len(src) \in Cells /\ Aligned(Len(src))
    <3>1. Len(src) \in Nat /\ Len(src) <= AvailableWrite
      BY <1>1 DEF RingInv, TypeOK, RoomReserved, FinishWrite
    <3>2. Len(src) \in Cells
      BY <3>1, HeadFromTail, RingAssumption DEF RingInv, Cells
    <3>3. QED
      BY <1>1, <3>2, FrameAssumption DEF FinishWrite
  <2>2. Aligned(head')
    BY <1>1, <2>1, AlignedAdvance DEF RingInv, TypeOK, FinishWrite
  <2>3. QED
    BY <1>1, <2>2 DEF FinishWrite, consumer
<1>2. CASE FinishRead
  <2>1. want \in Cells /\ Aligned(want)
    <3>1. want \in Cells
      BY <1>2, FinishReadMovesTail, HeadFromTail, RingAssumption DEF RingInv, Cells
    <3>2. QED
      BY <1>2, <3>1, FrameAssumption DEF FinishRead
  <2>2. Aligned(tail')
    BY <1>2, <2>1, AlignedAdvance DEF RingInv, TypeOK, FinishRead
  <2>3. QED
    BY <1>2, <2>2 DEF FinishRead, producer
<1>3. CASE FinishClear
  BY <1>3 DEF FinishClear, producer
<1>4. CASE \E buf \in Buffers : RefuseWrite(buf) \/ BeginWrite(buf)
  BY <1>4 DEF RefuseWrite, BeginWrite, shared, consumer
<1>5. CASE CopyIn \/ ProducerRestart
  BY <1>5 DEF CopyIn, ProducerRestart, shared, consumer
<1>6. CASE \E n \in ReadLens : RefuseRead(n) \/ BeginRead(n) \/ GiveUp(n)
  BY <1>6 DEF RefuseRead, BeginRead, GiveUp, shared, producer
<1>7. CASE CopyOut \/ Probe \/ BeginClear \/ ConsumerRestart
  BY <1>7 DEF CopyOut, Probe, BeginClear, ConsumerRestart, shared, producer
<1>8. CASE UNCHANGED vars
  BY <1>8 DEF vars, shared, producer, consumer
<1>9. QED
  BY <1>1, <1>2, <1>3, <1>4, <1>5, <1>6, <1>7, <1>8 DEF Next, Producer, Consumer

LEMMA AlignInvariant == Spec => []AlignInv
<1>1. Init => AlignInv
  BY FrameAssumption
     DEF Init, AlignInv, ChannelsAligned, OngoingCalls, Aligned
<1>2. RingInv /\ AlignInv /\ [Next]_vars => AlignInv'
  BY AlignInvNext
<1>3. QED
  BY <1>1, <1>2, RingInvariant, PTL DEF Spec

(***************************************************************************)
(* Head and tail stay on frame boundaries: the channels are never swapped. *)
(***************************************************************************)
THEOREM ChannelsStayAligned == Spec => []ChannelsAligned
<1>1. AlignInv => ChannelsAligned
  BY DEF AlignInv
<1>2. QED
  BY <1>1, AlignInvariant, PTL

-----------------------------------------------------------------------------
(* Refinement of BoundedFifo.                                              *)

LEMMA ContentsIsSeq ==
  ASSUME RingInv
  PROVE  Contents \in Seq(Byte) /\ Len(Contents) = AvailableRead
<1>1. AvailableRead \in Nat /\ AvailableRead < Capacity
  BY HeadFromTail, RingAssumption DEF RingInv, Cells
<1>2. ASSUME NEW i \in 1 .. AvailableRead
      PROVE  data[Cell(tail, i - 1)] \in Byte
  <2>1. i - 1 \in Cells
    BY <1>1, RingAssumption DEF Cells
  <2>2. QED
    BY <2>1, CellInCells DEF RingInv, TypeOK
<1>3. Contents \in [1 .. AvailableRead -> Byte]
  BY <1>2 DEF Contents
<1>4. QED
  BY <1>1, <1>3, SeqDef

(* Publishing a write is the abstract Put.                                 *)
LEMMA FinishWriteIsPut ==
  ASSUME RingInv, RingInv', OngoingCalls, FinishWrite
  PROVE  Fifo!Put
<1>1. /\ Contents \in Seq(Byte) /\ Len(Contents) = AvailableRead
      /\ Contents' \in Seq(Byte) /\ Len(Contents') = AvailableRead'
  <2>1. Contents \in Seq(Byte) /\ Len(Contents) = AvailableRead
    BY ContentsIsSeq
  <2>2. /\ AvailableRead' \in Nat /\ head' \in Cells /\ tail' = tail
        /\ data' = data
    BY FinishWriteAppends, RingAssumption DEF FinishWrite, Cells
  <2>3. ASSUME NEW i \in 1 .. AvailableRead'
        PROVE  data'[Cell(tail', i - 1)] \in Byte
    <3>1. i - 1 \in Cells
      BY <2>2, FinishWriteAppends, RingAssumption DEF Cells
    <3>2. QED
      BY <2>2, <3>1, CellInCells DEF RingInv, TypeOK
  <2>4. Contents' \in [1 .. AvailableRead' -> Byte]
    BY <2>3 DEF Contents, Cell
  <2>5. Contents' \in Seq(Byte) /\ Len(Contents') = AvailableRead'
    BY <2>2, <2>4, SeqDef
  <2>6. QED
    BY <2>1, <2>5
<1>2. /\ src \in Seq(Byte) /\ Len(src) \in Nat
      /\ AvailableRead \in Nat /\ AvailableRead' = AvailableRead + Len(src)
  <2>1. src \in Seq(Byte) /\ Len(src) \in Nat
    BY DEF RingInv, TypeOK
  <2>2. AvailableRead \in Nat
    BY HeadFromTail, RingAssumption DEF RingInv, Cells
  <2>3. QED
    BY <2>1, <2>2, FinishWriteAppends
<1>3. /\ Contents \o src \in Seq(Byte)
      /\ Len(Contents \o src) = AvailableRead + Len(src)
      /\ \A i \in 1 .. AvailableRead + Len(src) :
           (Contents \o src)[i] = IF i <= AvailableRead
                                  THEN Contents[i] ELSE src[i - AvailableRead]
  BY <1>1, <1>2, ConcatProperties
<1>4. ASSUME NEW i \in 1 .. AvailableRead + Len(src)
      PROVE  Contents'[i] = (Contents \o src)[i]
  <2>1. CASE i <= AvailableRead
    BY <1>2, <1>3, <2>1, FinishWriteAppends
  <2>2. CASE i > AvailableRead
    <3>1. i - AvailableRead \in 1 .. Len(src)
      BY <1>2, <2>2
    <3>2. Contents'[AvailableRead + (i - AvailableRead)] = src[i - AvailableRead]
      BY <3>1, FinishWriteAppends
    <3>3. AvailableRead + (i - AvailableRead) = i
      BY <1>2
    <3>4. ~(i <= AvailableRead)
      BY <1>2, <2>2
    <3>5. (Contents \o src)[i] = src[i - AvailableRead]
      BY <1>3, <3>4
    <3>6. QED
      BY <3>2, <3>3, <3>5
  <2>3. i <= AvailableRead \/ i > AvailableRead
    <3>1. i \in Int /\ AvailableRead \in Int
      BY <1>2
    <3>2. QED
      BY <3>1
  <2>4. QED
    BY <2>1, <2>2, <2>3
<1>5. Contents' = Contents \o src
  <2>1. /\ Contents' \in Seq(Byte) /\ Contents \o src \in Seq(Byte)
        /\ Len(Contents') = AvailableRead + Len(src)
        /\ Len(Contents \o src) = AvailableRead + Len(src)
    BY <1>1, <1>2, <1>3
  <2>2. \A i \in 1 .. Len(Contents') : Contents'[i] = (Contents \o src)[i]
    BY <1>4, <2>1
  <2>3. QED
    BY <2>1, <2>2, SeqEqual
<1>6. Len(Contents) + Len(src) <= Capacity - 1
  <2>1. Len(src) <= Capacity - 1 - AvailableRead
    BY DEF RingInv, RoomReserved, AvailableWrite, FinishWrite
  <2>2. QED
    BY <1>1, <1>2, <2>1, RingAssumption
<1>7. QED
  BY <1>5, <1>6 DEF Fifo!Put, FinishWrite, consumer

(* A step that moves the tail over n bytes leaves the younger ones.        *)
LEMMA TailMoveIsSubSeq ==
  ASSUME RingInv, RingInv', NEW n \in Nat, n <= AvailableRead,
         tail' = Cell(tail, n), UNCHANGED <<head, data>>
  PROVE  Contents' = SubSeq(Contents, n + 1, Len(Contents))
<1>1. /\ Contents \in Seq(Byte) /\ Len(Contents) = AvailableRead
      /\ AvailableRead \in Nat
  BY ContentsIsSeq, HeadFromTail, RingAssumption DEF RingInv, Cells
<1>2. /\ AvailableRead' = AvailableRead - n /\ AvailableRead' \in Cells
      /\ tail' \in Cells
      /\ \A i \in 1 .. AvailableRead - n : Contents'[i] = Contents[n + i]
  BY TailMoveDrops
<1>3. Contents' \in Seq(Byte) /\ Len(Contents') = AvailableRead'
  <2>1. ASSUME NEW i \in 1 .. AvailableRead'
        PROVE  data'[Cell(tail', i - 1)] \in Byte
    <3>1. i - 1 \in Cells
      BY <1>2, RingAssumption DEF Cells
    <3>2. QED
      BY <1>2, <3>1, CellInCells DEF RingInv, TypeOK
  <2>2. Contents' \in [1 .. AvailableRead' -> Byte]
    BY <2>1 DEF Contents, Cell
  <2>3. AvailableRead' \in Nat
    BY <1>2, RingAssumption DEF Cells
  <2>4. QED
    BY <2>2, <2>3, SeqDef
<1>4. \A i \in n + 1 .. Len(Contents) : Contents[i] \in Byte
  BY <1>1, ElementOfSeq
<1>5. /\ SubSeq(Contents, n + 1, AvailableRead) \in Seq(Byte)
      /\ Len(SubSeq(Contents, n + 1, AvailableRead)) = AvailableRead - n
      /\ \A i \in 1 .. AvailableRead - n :
           SubSeq(Contents, n + 1, AvailableRead)[i] = Contents[n + i]
  <2>1. n + 1 \in Int /\ AvailableRead \in Int
    BY <1>1
  <2>2. /\ SubSeq(Contents, n + 1, AvailableRead) \in Seq(Byte)
        /\ Len(SubSeq(Contents, n + 1, AvailableRead)) =
             IF n + 1 <= AvailableRead THEN AvailableRead - (n + 1) + 1 ELSE 0
        /\ \A i \in 1 .. AvailableRead - (n + 1) + 1 :
             SubSeq(Contents, n + 1, AvailableRead)[i] = Contents[(n + 1) + i - 1]
    BY <1>1, <1>4, <2>1, SubSeqProperties
  <2>3. AvailableRead - (n + 1) + 1 = AvailableRead - n
    BY <1>1
  <2>4. \A i \in 1 .. AvailableRead - n : (n + 1) + i - 1 = n + i
    BY <1>1
  <2>5. QED
    BY <1>1, <2>2, <2>3, <2>4
<1>6. QED
  BY <1>1, <1>2, <1>3, <1>5, SeqEqual

(* Returning from a successful read is the abstract Take.                  *)
LEMMA FinishReadIsTake ==
  ASSUME RingInv, RingInv', FinishRead
  PROVE  Fifo!Take(want)
<1>1. /\ want \in Nat /\ want <= AvailableRead
      /\ Contents' = SubSeq(Contents, want + 1, Len(Contents))
  BY FinishReadMovesTail, TailMoveIsSubSeq DEF FinishRead
<1>2. /\ Contents \in Seq(Byte) /\ Len(Contents) = AvailableRead
      /\ AvailableRead \in Nat
  BY ContentsIsSeq, HeadFromTail, RingAssumption DEF RingInv, Cells
<1>3. /\ dst \in Seq(Byte) /\ Len(dst) = want
      /\ \A i \in 1 .. want : dst[i] = Contents[i]
  BY DEF RingInv, TypeOK, ReadsOldest, FinishRead
<1>4. /\ SubSeq(Contents, 1, want) \in Seq(Byte)
      /\ Len(SubSeq(Contents, 1, want)) = want
      /\ \A i \in 1 .. want : SubSeq(Contents, 1, want)[i] = Contents[i]
  <2>1. \A i \in 1 .. want : Contents[i] \in Byte
    BY <1>1, <1>2, ElementOfSeq
  <2>2. /\ SubSeq(Contents, 1, want) \in Seq(Byte)
        /\ Len(SubSeq(Contents, 1, want)) =
             IF 1 <= want THEN want - 1 + 1 ELSE 0
        /\ \A i \in 1 .. want - 1 + 1 :
             SubSeq(Contents, 1, want)[i] = Contents[1 + i - 1]
    BY <1>1, <1>2, <2>1, SubSeqProperties
  <2>3. want - 1 + 1 = want /\ \A i \in 1 .. want : 1 + i - 1 = i
    BY <1>1
  <2>4. QED
    BY <1>1, <2>2, <2>3
<1>5. dst = SubSeq(Contents, 1, want)
  BY <1>1, <1>3, <1>4, SeqEqual
<1>6. QED
  BY <1>1, <1>2, <1>5 DEF Fifo!Take, FinishRead, producer

(* Storing a clear's mark is an abstract Discard.                          *)
LEMMA FinishClearIsDiscard ==
  ASSUME RingInv, RingInv', FinishClear
  PROVE  \E n \in 0 .. Capacity - 1 : Fifo!Discard(n)
<1>1. /\ Span(tail, seen) \in Nat /\ Span(tail, seen) <= AvailableRead
      /\ Contents' = SubSeq(Contents, Span(tail, seen) + 1, Len(Contents))
  BY FinishClearMovesTail, TailMoveIsSubSeq DEF FinishClear
<1>2. Len(Contents) = AvailableRead /\ AvailableRead \in Cells
  BY ContentsIsSeq, HeadFromTail DEF RingInv
<1>3. Span(tail, seen) \in 0 .. Capacity - 1
  BY <1>1, <1>2, RingAssumption DEF Cells
<1>4. Fifo!Discard(Span(tail, seen))
  BY <1>1, <1>2 DEF Fifo!Discard, FinishClear, producer
<1>5. QED
  BY <1>3, <1>4

(* Every step of the ring is a step of the FIFO or leaves it unchanged.    *)
LEMMA StepRefines ==
  ASSUME RingInv, RingInv', OngoingCalls, [Next]_vars
  PROVE  [Fifo!Next]_(Fifo!vars)
<1>1. /\ Len(Contents) = AvailableRead
      /\ AvailableRead \in Nat
  BY ContentsIsSeq, HeadFromTail, RingAssumption DEF RingInv, Cells
<1>2. ASSUME NEW buf \in Buffers, RefuseWrite(buf)
      PROVE  Fifo!RefusePut(buf)
  <2>1. Len(buf) \in Nat
    BY RingAssumption
  <2>2. Len(Contents) + Len(buf) > Capacity - 1
    BY <1>1, <1>2, <2>1, RingAssumption DEF RefuseWrite, AvailableWrite
  <2>3. QED
    BY <1>2, <2>2, SharedUnchanged DEF Fifo!RefusePut, RefuseWrite, consumer
<1>3. ASSUME NEW n \in ReadLens, RefuseRead(n)
      PROVE  Fifo!RefuseTake(n)
  BY <1>1, <1>3, SharedUnchanged DEF Fifo!RefuseTake, RefuseRead, producer
<1>4. CASE FinishWrite
  BY <1>4, FinishWriteIsPut DEF Fifo!Next, OngoingCalls, FinishWrite
<1>5. CASE FinishRead
  BY <1>5, FinishReadIsTake DEF Fifo!Next, OngoingCalls, FinishRead
<1>6. CASE FinishClear
  BY <1>6, FinishClearIsDiscard DEF Fifo!Next
<1>7. CASE CopyIn
  BY <1>7, CopyInKeepsContents DEF Fifo!vars, CopyIn, consumer
<1>8. CASE ProducerRestart
  BY <1>8, SharedUnchanged
     DEF Fifo!Next, Fifo!Lose, ProducerRestart, consumer
<1>9. ASSUME NEW buf \in Buffers, BeginWrite(buf)
       PROVE  Fifo!Accept(buf)
  <2>1. Len(buf) \in Nat
    BY RingAssumption
  <2>2. Len(Contents) + Len(buf) <= Capacity - 1
    BY <1>1, <1>9, <2>1, RingAssumption DEF BeginWrite, AvailableWrite
  <2>3. QED
    BY <1>9, <2>2, SharedUnchanged DEF Fifo!Accept, BeginWrite, consumer
<1>10. CASE \/ \E n \in ReadLens : BeginRead(n) \/ GiveUp(n)
           \/ CopyOut \/ Probe \/ BeginClear \/ ConsumerRestart
  BY <1>10, SharedUnchanged
     DEF Fifo!vars, BeginRead, GiveUp, CopyOut, Probe, BeginClear,
         ConsumerRestart, producer
<1>11. CASE UNCHANGED vars
  BY <1>11, SharedUnchanged DEF Fifo!vars, vars, producer, consumer
<1>12. QED
  BY <1>2, <1>3, <1>4, <1>5, <1>6, <1>7, <1>8, <1>9, <1>10,
     <1>11 DEF Next, Producer, Consumer, Fifo!Next

LEMMA InitRefines == Init => Fifo!Init
<1> SUFFICES ASSUME Init
             PROVE  Fifo!Init
  OBVIOUS
<1>1. AvailableRead = 0 /\ RingInv
  BY RingInvInit DEF Init, AvailableRead
<1>2. Contents \in Seq(Byte) /\ Len(Contents) = 0
  BY <1>1, ContentsIsSeq
<1>3. QED
  BY <1>2, EmptySeq DEF Fifo!Init, Init

(***************************************************************************)
(* The ring implements the bounded FIFO, restarts and clears included.     *)
(***************************************************************************)
THEOREM RingImplementsFifo == Spec => ImplementsFifo
<1>1. Init => Fifo!Init
  BY InitRefines
<1>2. RingInv /\ RingInv' /\ AlignInv /\ [Next]_vars => [Fifo!Next]_(Fifo!vars)
  BY StepRefines DEF AlignInv
<1>3. QED
  BY <1>1, <1>2, RingInvariant, AlignInvariant, PTL
     DEF Spec, ImplementsFifo, Fifo!Spec
=============================================================================
