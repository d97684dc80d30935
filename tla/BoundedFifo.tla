---------------------------- MODULE BoundedFifo ----------------------------
(***************************************************************************)
(* What the driver's byte buffers promise: a bounded first-in first-out    *)
(* queue.  A write appends the longest prefix of its data that fits, a     *)
(* read removes the oldest bytes, a reset empties the queue.  The          *)
(* circular storage of ring_buffer.c (module ByteRing) implements this.    *)
(***************************************************************************)
EXTENDS Naturals, Sequences

CONSTANTS
  Byte,        \* the byte values that occur
  Capacity,    \* bytes the queue holds
  MaxTransfer  \* longest length argument of a call (a bound of the model)

VARIABLES
  q,      \* the buffered bytes, oldest first
  moved   \* the bytes the last call moved; their number is what it returns

vars == <<q, moved>>

AtMost(a, b) == IF a < b THEN a ELSE b

Burst == UNION {[1..n -> Byte] : n \in 0..MaxTransfer}

Init == q = <<>> /\ moved = <<>>

Put(data) ==
  /\ moved' = SubSeq(data, 1, AtMost(Len(data), Capacity - Len(q)))
  /\ q' = q \o moved'

Take(length) ==
  LET n == AtMost(length, Len(q))
  IN  /\ moved' = SubSeq(q, 1, n)
      /\ q' = SubSeq(q, n + 1, Len(q))

Clear == q' = <<>> /\ UNCHANGED moved

Next ==
  \/ \E data \in Burst : Put(data)
  \/ \E length \in 0..MaxTransfer : Take(length)
  \/ Clear

Spec == Init /\ [][Next]_vars
=============================================================================
