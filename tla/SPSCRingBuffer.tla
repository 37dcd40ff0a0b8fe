--------------------------- MODULE SPSCRingBuffer ---------------------------
(***************************************************************************)
(* The single-producer single-consumer ring of the shared memory           *)
(* (shared/include/SharedMemory.h).  Five of them connect the helper       *)
(* daemon and the HAL plugin.  Each access to a variable the other side    *)
(* uses is a step of its own: loading the other side's index, each byte    *)
(* of the memcpy's, and the release store that publishes the new index.    *)
(*                                                                         *)
(* The owner of an index is the only one that stores it, so the load of    *)
(* one's own index commutes with the other side and is part of the step    *)
(* that uses it.  Either side may be killed and replaced at any point (the *)
(* plugin lives in coreaudiod, which is restarted at will).                *)
(***************************************************************************)
EXTENDS Integers, Sequences

CONSTANTS Byte,       \* what a cell may hold
          Capacity,   \* kRingBufferCapacity
          Frame,      \* kBytesPerFrame
          Buffers,    \* the buffers the producer may write
          ReadLens    \* the lengths the consumer may read

Aligned(n) == n % Frame = 0

ASSUME RingAssumption ==
  /\ Byte # {}
  /\ Capacity \in Nat \ {0}
  /\ Buffers \subseteq Seq(Byte)
  /\ ReadLens \subseteq Nat

(* Whole frames only: the capacity and every buffer the two IOProcs and the*)
(* HAL hand over are multiples of kBytesPerFrame.                          *)
ASSUME FrameAssumption ==
  /\ Frame \in Nat \ {0}
  /\ Aligned(Capacity)
  /\ \A buf \in Buffers : Aligned(Len(buf))
  /\ \A n \in ReadLens : Aligned(n)

VARIABLES
  head, tail, data,    \* the shared fields
  wpc, src, copied,    \* producer: inside write(src), bytes copied so far
  rpc, want, dst,      \* consumer: inside read(dst, want)
  seen,                \* what the consumer loaded before it acts on it
  got,                 \* what the last successful read() returned
  putRes, takeRes      \* the last results of write() and of read()

shared   == <<head, tail, data>>
producer == <<wpc, src, copied, putRes>>
consumer == <<rpc, want, dst, seen, got, takeRes>>
vars     == <<shared, producer, consumer>>

Cells == 0 .. Capacity - 1

-----------------------------------------------------------------------------
(* A mutant of the arithmetic: a plausible mistake, which breaks a property*)
(* below.                                                                  *)

(* No correction for a head that has wrapped around.                       *)
AvailableReadNoWrap == head - tail

-----------------------------------------------------------------------------
AvailableRead == LET avail == head - tail
                 IN  IF avail < 0 THEN avail + Capacity ELSE avail

AvailableWrite == Capacity - 1 - AvailableRead

(* The cell of byte i of a copy that starts at cell base: the first chunk  *)
(* runs to the end of the data region, the second one starts at cell 0.    *)
Cell(base, i) == LET firstChunk == Capacity - base
                 IN  IF i < firstChunk THEN base + i ELSE i - firstChunk

Advance(index, len) == (index + len) % Capacity

-----------------------------------------------------------------------------
(* init(): an empty ring, its data region cleared to one and the same byte.*)
Init == /\ head = 0 /\ tail = 0
        /\ \E zero \in Byte : data = [c \in Cells |-> zero]
        /\ wpc = "idle" /\ src = <<>> /\ copied = 0 /\ putRes = "none"
        /\ rpc = "idle" /\ want = 0 /\ dst = <<>> /\ seen = 0
        /\ got = <<>> /\ takeRes = "none"

-----------------------------------------------------------------------------
(* Mutants of the calls.                                                   *)

(* write() without its test for room.                                      *)
BeginWriteUnchecked(buf) == /\ wpc = "idle"
                            /\ wpc' = "copy" /\ src' = buf /\ copied' = 0
                            /\ UNCHANGED <<shared, putRes, consumer>>

(* The head published before the copy is complete.                         *)
FinishWriteEarly == /\ wpc = "copy"
                    /\ head' = Advance(head, Len(src))
                    /\ wpc' = "idle" /\ src' = <<>> /\ copied' = 0
                    /\ putRes' = "ok"
                    /\ UNCHANGED <<tail, data, consumer>>

(* read() without its test for data.                                       *)
BeginReadUnchecked(n) == /\ rpc \in {"idle", "probed"}
                         /\ rpc = "probed" => n <= seen
                         /\ rpc' = "copy" /\ want' = n /\ dst' = <<>> /\ seen' = 0
                         /\ UNCHANGED <<shared, producer, got, takeRes>>

(* The tail published byte by byte, so that a killed read leaves it where  *)
(* the copy was.                                                           *)
ConsumerRestartMidway == /\ rpc # "idle"
                         /\ tail' = Advance(tail, Len(dst))
                         /\ rpc' = "idle" /\ want' = 0 /\ dst' = <<>> /\ seen' = 0
                         /\ UNCHANGED <<head, data, producer, got, takeRes>>

(* Two threads reading one ring: the tail has moved on by the time the     *)
(* probed bytes are asked for.                                             *)
ProbeConsuming == /\ rpc = "idle"
                  /\ rpc' = "probed" /\ seen' = AvailableRead
                  /\ tail' = Advance(tail, AvailableRead)
                  /\ UNCHANGED <<head, data, producer, want, dst, got, takeRes>>

(***************************************************************************)
(* The producer: write(src, len).                                          *)
(***************************************************************************)
RefuseWrite(buf) == /\ wpc = "idle"
                    /\ Len(buf) > AvailableWrite
                    /\ putRes' = "full"
                    /\ UNCHANGED <<shared, wpc, src, copied, consumer>>

BeginWrite(buf) == /\ wpc = "idle"
                   /\ Len(buf) <= AvailableWrite
                   /\ wpc' = "copy" /\ src' = buf /\ copied' = 0
                   /\ UNCHANGED <<shared, putRes, consumer>>

CopyIn == /\ wpc = "copy"
          /\ copied < Len(src)
          /\ data' = [data EXCEPT ![Cell(head, copied)] = src[copied + 1]]
          /\ copied' = copied + 1
          /\ UNCHANGED <<head, tail, wpc, src, putRes, consumer>>

FinishWrite == /\ wpc = "copy"
               /\ copied = Len(src)
               /\ head' = Advance(head, Len(src))
               /\ wpc' = "idle" /\ src' = <<>> /\ copied' = 0
               /\ putRes' = "ok"
               /\ UNCHANGED <<tail, data, consumer>>

(* The producer's process is killed and a new one takes over the mapping.  *)
ProducerRestart == /\ wpc = "copy"
                   /\ wpc' = "idle" /\ src' = <<>> /\ copied' = 0
                   /\ UNCHANGED <<shared, putRes, consumer>>

(***************************************************************************)
(* The consumer: read(dst, len), availableRead(), clear().                 *)
(***************************************************************************)
RefuseRead(n) == /\ rpc \in {"idle", "probed"}
                 /\ n > AvailableRead
                 /\ rpc = "probed" => n <= seen
                 /\ takeRes' = "short"
                 /\ rpc' = "idle" /\ seen' = 0
                 /\ UNCHANGED <<shared, producer, want, dst, got>>

BeginRead(n) == /\ rpc \in {"idle", "probed"}
                /\ n <= AvailableRead
                /\ rpc = "probed" => n <= seen
                /\ rpc' = "copy" /\ want' = n /\ dst' = <<>> /\ seen' = 0
                /\ UNCHANGED <<shared, producer, got, takeRes>>

CopyOut == /\ rpc = "copy"
           /\ Len(dst) < want
           /\ dst' = Append(dst, data[Cell(tail, Len(dst))])
           /\ UNCHANGED <<shared, producer, rpc, want, seen, got, takeRes>>

FinishRead == /\ rpc = "copy"
              /\ Len(dst) = want
              /\ tail' = Advance(tail, want)
              /\ got' = dst /\ takeRes' = "ok"
              /\ rpc' = "idle" /\ want' = 0 /\ dst' = <<>>
              /\ UNCHANGED <<head, data, producer, seen>>

(* A caller that asks availableRead() first and reads later, as onFLX4IO   *)
(* does, or gives up when there is too little for it.                      *)
Probe == /\ rpc = "idle"
         /\ rpc' = "probed" /\ seen' = AvailableRead
         /\ UNCHANGED <<shared, producer, want, dst, got, takeRes>>

GiveUp(n) == /\ rpc = "probed"
             /\ seen < n
             /\ rpc' = "idle" /\ seen' = 0
             /\ UNCHANGED <<shared, producer, want, dst, got, takeRes>>

(* clear(): load the head, then store it as the tail.                      *)
BeginClear == /\ rpc = "idle"
              /\ rpc' = "clear" /\ seen' = head
              /\ UNCHANGED <<shared, producer, want, dst, got, takeRes>>

FinishClear == /\ rpc = "clear"
               /\ tail' = seen
               /\ rpc' = "idle" /\ seen' = 0
               /\ UNCHANGED <<head, data, producer, want, dst, got, takeRes>>

ConsumerRestart == /\ rpc # "idle"
                   /\ rpc' = "idle" /\ want' = 0 /\ dst' = <<>> /\ seen' = 0
                   /\ UNCHANGED <<shared, producer, got, takeRes>>

-----------------------------------------------------------------------------
Producer == \/ \E buf \in Buffers : RefuseWrite(buf) \/ BeginWrite(buf)
            \/ CopyIn
            \/ FinishWrite
            \/ ProducerRestart

Consumer == \/ \E n \in ReadLens : RefuseRead(n) \/ BeginRead(n) \/ GiveUp(n)
            \/ CopyOut
            \/ FinishRead
            \/ Probe
            \/ BeginClear
            \/ FinishClear
            \/ ConsumerRestart

Next == Producer \/ Consumer

Spec == Init /\ [][Next]_vars

-----------------------------------------------------------------------------
(* The types, and the ranges of the two indices.                           *)
TypeOK == /\ head \in Cells /\ tail \in Cells
          /\ data \in [Cells -> Byte]
          /\ wpc \in {"idle", "copy"}
          /\ src \in Seq(Byte) /\ copied \in 0 .. Len(src)
          /\ rpc \in {"idle", "probed", "copy", "clear"}
          /\ want \in Nat /\ dst \in Seq(Byte) /\ Len(dst) <= want
          /\ seen \in Cells
          /\ got \in Seq(Byte)
          /\ putRes \in {"none", "ok", "full"}
          /\ takeRes \in {"none", "ok", "short"}

(* The published bytes, oldest first, and the cells that hold them.        *)
Contents == [i \in 1 .. AvailableRead |-> data[Cell(tail, i - 1)]]
ReadableCells == {Cell(tail, i) : i \in 0 .. AvailableRead - 1}

(* The cells the write in progress stores to, done or still to come.       *)
WrittenCells == {Cell(head, i) : i \in 0 .. Len(src) - 1}

(* Whatever the interleaving, no cell is stored to while the consumer may  *)
(* load it: the two memcpy's of write() and of read() never meet, although *)
(* the producer decided on a tail that may be old by the time it copies.   *)
NoSharedCell == wpc = "copy" => WrittenCells \cap ReadableCells = {}

(* A read in progress has the oldest bytes of the stream in its buffer and *)
(* the rest of what it asked for still in the ring, whatever the producer  *)
(* has done since availableRead() was evaluated.                           *)
ReadsOldest ==
  rpc = "copy" => /\ want <= AvailableRead
                  /\ \A i \in 1 .. Len(dst) : dst[i] = Contents[i]

(* What availableRead() returned to the consumer stays true until it acts  *)
(* on it: onFLX4IO may check first, read later and ignore read()'s result. *)
SeenStillAvailable == rpc = "probed" => seen <= AvailableRead

(* Both indices stay on a frame boundary through refusals, wrap-arounds,   *)
(* clears and restarts in mid-copy, so left never becomes right.           *)
ChannelsAligned == Aligned(head) /\ Aligned(tail)

(* The ring is a bounded FIFO stream: write() and read() take effect at    *)
(* one instant, refuse only when the stream at that instant gives cause to,*)
(* and no byte is lost, repeated, torn or reordered between them.          *)
Fifo == INSTANCE BoundedFifo
          WITH queue <- Contents, putting <- src, Bound <- Capacity - 1
ImplementsFifo == Fifo!Spec

-----------------------------------------------------------------------------
(* The inductive invariant.  A write in progress keeps the room it found   *)
(* (only the consumer moves the tail, and only forward), the bytes it has  *)
(* copied are in place, and a clear's mark lies within the stream.         *)
RoomReserved == wpc = "copy" => Len(src) <= AvailableWrite
CopiedInPlace == \A i \in 1 .. copied : data[Cell(head, i - 1)] = src[i]
IdleProducer == wpc = "idle" => src = <<>>
Span(from, to) == IF to < from THEN to - from + Capacity ELSE to - from
MarkInStream == rpc = "clear" => Span(tail, seen) <= AvailableRead

(* A call in progress was made with one of the buffers or lengths, and a   *)
(* clear's mark was the head.                                              *)
OngoingCalls == /\ wpc = "copy" => src \in Buffers
                /\ rpc = "copy" => want \in ReadLens
                /\ rpc = "clear" => Aligned(seen)

RingInv == /\ TypeOK
           /\ RoomReserved
           /\ CopiedInPlace
           /\ IdleProducer
           /\ ReadsOldest
           /\ SeenStillAvailable
           /\ MarkInStream
=============================================================================
