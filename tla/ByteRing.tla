------------------------------ MODULE ByteRing ------------------------------
(***************************************************************************)
(* The byte ring of ring_buffer.c: circular storage with a head, a tail    *)
(* and a size.  Every buffer of the driver (tx_queue, tx_fifo, rx_pending, *)
(* rx_fifo, rx_queue) is one of these.  The loops of the C code move one   *)
(* byte per iteration; an action here is a whole call, and states where    *)
(* each byte of the call ends up.                                          *)
(***************************************************************************)
EXTENDS Integers, Sequences

CONSTANTS
  Byte,        \* the byte values that occur
  Capacity,    \* rb->capacity, which is also the length of rb->storage
  MaxTransfer  \* longest length argument of a call (a bound of the model)

ASSUME RingAssumption ==
  /\ Byte \subseteq 0..255
  /\ 0 \in Byte
  /\ Capacity \in Nat \ {0}
  /\ MaxTransfer \in Nat

VARIABLES
  storage,  \* rb->storage
  head,     \* rb->head, position of the oldest byte
  tail,     \* rb->tail, position the next byte is written to
  size,     \* rb->size
  moved     \* the bytes the last call moved; their number is what it returns

vars == <<storage, head, tail, size, moved>>

Position == 0..(Capacity - 1)

AtMost(a, b) == IF a < b THEN a ELSE b

Burst == UNION {[1..n -> Byte] : n \in 0..MaxTransfer}

(* Storage is a zero-initialised global; reset_state() runs before any     *)
(* other use and empties the ring.                                         *)
Init ==
  /\ storage = [p \in Position |-> 0]
  /\ head = 0
  /\ tail = 0
  /\ size = 0
  /\ moved = <<>>

(* Mutant: the size test of the write loop lets a full ring take one more. *)
AcceptedPastFull(length) == AtMost(length, Capacity + 1 - size)

(* Iterations of the write loop: until the data or the room runs out.      *)
Accepted(length) == AtMost(length, Capacity - size)

(* Mutant: the position wraps one past the end of the storage. *)
AdvancePastEnd(position, n) == (position + n) % (Capacity + 1)

(* Where n wrapping increments take a position.                            *)
Advance(position, n) == (position + n) % Capacity

(* The i-th buffered byte, oldest first.                                   *)
ByteAt(i) == storage[Advance(head, i - 1)]

(* The buffered bytes: what the frame scanners of ring_buffer.c see when   *)
(* they visit storage[(head + i) % capacity].                              *)
Contents == [i \in 1..size |-> ByteAt(i)]

WriteBytes(data) ==
  LET n == Accepted(Len(data))
  IN  /\ storage' = [p \in Position |->
                       LET k == (p - tail) % Capacity   \* steps past the tail
                       IN  IF k < n THEN data[k + 1] ELSE storage[p]]
      /\ tail' = Advance(tail, n)
      /\ size' = size + n
      /\ moved' = SubSeq(data, 1, n)
      /\ UNCHANGED head

ReadBytes(length) ==
  LET n == AtMost(length, size)
  IN  /\ moved' = [i \in 1..n |-> ByteAt(i)]
      /\ head' = Advance(head, n)
      /\ size' = size - n
      /\ UNCHANGED <<storage, tail>>

(* Mutant: the tail survives a reset. *)
ResetKeepsTail ==
  /\ head' = 0
  /\ size' = 0
  /\ UNCHANGED <<storage, tail, moved>>

Reset ==
  /\ head' = 0
  /\ tail' = 0
  /\ size' = 0
  /\ UNCHANGED <<storage, moved>>

Next ==
  \/ \E data \in Burst : WriteBytes(data)
  \/ \E length \in 0..MaxTransfer : ReadBytes(length)
  \/ Reset

Spec == Init /\ [][Next]_vars

-----------------------------------------------------------------------------
TypeOK ==
  /\ storage \in [Position -> Byte]
  /\ head \in Position
  /\ tail \in Position
  /\ size \in 0..Capacity
  /\ moved \in Seq(Byte)

(* The three counters that every write and read updates separately stay    *)
(* consistent: the tail is where size bytes from the head end, through     *)
(* every wrap-around and also when the ring is full (head = tail).         *)
Geometry == tail = Advance(head, size)

(* What callers rely on: the ring is a bounded FIFO queue (no byte is      *)
(* lost, repeated or reordered by the wrap-around, and a short write keeps *)
(* exactly the prefix it reports).                                         *)
Fifo == INSTANCE BoundedFifo WITH q <- Contents

ImplementsFifo == Fifo!Spec
=============================================================================
