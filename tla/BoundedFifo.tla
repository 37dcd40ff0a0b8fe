---------------------------- MODULE BoundedFifo ----------------------------
(***************************************************************************)
(* What one audio ring of the shared memory promises its two users: a      *)
(* bounded first-in first-out stream of bytes.  A buffer is refused, or it *)
(* is accepted and later joins the stream whole, at one instant; it is     *)
(* lost, just as whole, when its producer is killed before.  The oldest    *)
(* bytes are taken, as many as were asked for, or the request is refused   *)
(* and nothing moves.                                                      *)
(***************************************************************************)
EXTENDS Integers, Sequences

CONSTANTS Buffers,   \* the buffers a producer may put (sequences of bytes)
          ReadLens,  \* the lengths a consumer may ask for
          Bound      \* how many bytes the stream holds at most

VARIABLES queue,     \* the bytes put and not yet taken, oldest first
          putting,   \* the buffer accepted and not yet put, <<>> for none
          got,       \* what the consumer's last successful request returned
          putRes,    \* result of the last put:  "none", "ok" or "full"
          takeRes    \* result of the last take: "none", "ok" or "short"

vars == <<queue, putting, got, putRes, takeRes>>

Init == /\ queue = <<>> /\ putting = <<>>
        /\ got = <<>>
        /\ putRes = "none"
        /\ takeRes = "none"

Accept(buf) == /\ Len(queue) + Len(buf) <= Bound
               /\ putting' = buf
               /\ UNCHANGED <<queue, got, putRes, takeRes>>

Put == /\ Len(queue) + Len(putting) <= Bound
       /\ queue' = queue \o putting
       /\ putting' = <<>>
       /\ putRes' = "ok"
       /\ UNCHANGED <<got, takeRes>>

(* The producer is gone before its buffer was put.                         *)
Lose == /\ putting' = <<>>
        /\ UNCHANGED <<queue, got, putRes, takeRes>>

(* A put is refused only when the stream really has no room for it.        *)
RefusePut(buf) == /\ Len(queue) + Len(buf) > Bound
                  /\ putRes' = "full"
                  /\ UNCHANGED <<queue, putting, got, takeRes>>

Take(n) == /\ n <= Len(queue)
           /\ got' = SubSeq(queue, 1, n)
           /\ queue' = SubSeq(queue, n + 1, Len(queue))
           /\ takeRes' = "ok"
           /\ UNCHANGED <<putting, putRes>>

(* A take is refused only when the stream really holds too few bytes.      *)
RefuseTake(n) == /\ n > Len(queue)
                 /\ takeRes' = "short"
                 /\ UNCHANGED <<queue, putting, got, putRes>>

(* The consumer throws away the oldest bytes without looking at them.      *)
Discard(n) == /\ n <= Len(queue)
              /\ queue' = SubSeq(queue, n + 1, Len(queue))
              /\ UNCHANGED <<putting, got, putRes, takeRes>>

Next == \/ \E buf \in Buffers : Accept(buf) \/ RefusePut(buf)
        \/ Put \/ Lose
        \/ \E n \in ReadLens : Take(n) \/ RefuseTake(n)
        \/ \E n \in 0..Bound : Discard(n)

Spec == Init /\ [][Next]_vars
=============================================================================
