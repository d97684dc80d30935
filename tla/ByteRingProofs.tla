--------------------------- MODULE ByteRingProofs ---------------------------
(***************************************************************************)
(* For every capacity and every set of bytes: the ring's counters stay in  *)
(* range and consistent, and the ring implements the bounded FIFO queue.   *)
(***************************************************************************)
EXTENDS ByteRing, TLAPS, SequenceTheorems

(* The remainder the wrap-around computes, for the values it is given:     *)
(* less than one turn past either end of the storage.                      *)
LEMMA WrapLemma ==
  ASSUME NEW a \in Int, a >= -Capacity, a < 2 * Capacity
  PROVE  a % Capacity = IF a < 0 THEN a + Capacity
                        ELSE IF a < Capacity THEN a ELSE a - Capacity
<1>1. Capacity \in Nat /\ Capacity > 0
  BY RingAssumption
<1>2. CASE a < 0
  BY <1>1, <1>2
<1>3. CASE a >= 0 /\ a < Capacity
  BY <1>1, <1>3
<1>4. CASE a >= Capacity
  BY <1>1, <1>4
<1> QED
  BY <1>1, <1>2, <1>3, <1>4

(* An advance by at most one turn wraps at most once.                      *)
LEMMA AdvanceLemma ==
  ASSUME NEW h \in Position, NEW s \in Nat, s <= Capacity
  PROVE  /\ Advance(h, s) = IF h + s < Capacity THEN h + s ELSE h + s - Capacity
         /\ Advance(h, s) \in Position
<1> DEFINE a == h + s
<1>1. Capacity \in Nat /\ Capacity > 0
  BY RingAssumption
<1>2. a \in Int /\ a >= 0 /\ a >= -Capacity /\ a < 2 * Capacity
  BY <1>1 DEF Position
<1> HIDE DEF a
<1>3. a % Capacity = IF a < Capacity THEN a ELSE a - Capacity
  BY <1>1, <1>2, WrapLemma
<1>4. Advance(h, s) = IF a < Capacity THEN a ELSE a - Capacity
  BY <1>3 DEF Advance, a
<1>5. Advance(h, s) \in Position
  BY <1>1, <1>2, <1>4 DEF Position
<1> QED
  BY <1>1, <1>4, <1>5 DEF a, Position

(* Two advances in a row are one.                                          *)
LEMMA AdvanceTwice ==
  ASSUME NEW h \in Position, NEW s \in Nat, NEW n \in Nat, s + n <= Capacity
  PROVE  Advance(Advance(h, s), n) = Advance(h, s + n)
<1> DEFINE m == Advance(h, s)
<1>1. Capacity \in Nat /\ Capacity > 0
  BY RingAssumption
<1>2. h \in Nat /\ h < Capacity
  BY <1>1 DEF Position
<1>3. s <= Capacity /\ n <= Capacity /\ s + n \in Nat
  BY <1>1
<1>4. /\ m = IF h + s < Capacity THEN h + s ELSE h + s - Capacity
      /\ m \in Position
  BY <1>3, AdvanceLemma
<1>5. Advance(h, s + n) = IF h + (s + n) < Capacity THEN h + (s + n)
                          ELSE h + (s + n) - Capacity
  BY <1>3, AdvanceLemma
<1> HIDE DEF m
<1>6. Advance(m, n) = IF m + n < Capacity THEN m + n ELSE m + n - Capacity
  BY <1>3, <1>4, AdvanceLemma
<1>7. Advance(m, n) = Advance(h, s + n)
  BY <1>1, <1>2, <1>4, <1>5, <1>6
<1> QED
  BY <1>7 DEF m

(* A burst is a sequence of bytes.                                         *)
LEMMA BurstIsSeq == ASSUME NEW data \in Burst PROVE data \in Seq(Byte)
<1>1. PICK n \in 0..MaxTransfer : data \in [1..n -> Byte]
  BY DEF Burst
<1> QED
  BY <1>1, RingAssumption

-----------------------------------------------------------------------------
(* The inductive invariant: the counters alone say where every byte is.    *)
RingInv == TypeOK /\ Geometry

LEMMA RingInit == Init => RingInv
<1> SUFFICES ASSUME Init PROVE RingInv
  OBVIOUS
<1>1. Capacity \in Nat /\ Capacity > 0 /\ 0 \in Byte
  BY RingAssumption
<1>2. Advance(0, 0) = 0
  BY <1>1, AdvanceLemma DEF Position
<1>3. moved \in Seq(Byte)
  BY DEF Init
<1> QED
  BY <1>1, <1>2, <1>3 DEF Init, RingInv, TypeOK, Geometry, Position

LEMMA WriteBytesInv ==
  ASSUME RingInv, NEW data \in Burst, WriteBytes(data)
  PROVE  RingInv'
<1> DEFINE n == Accepted(Len(data))
<1>1. Capacity \in Nat /\ Capacity > 0
  BY RingAssumption
<1>2. data \in Seq(Byte) /\ Len(data) \in Nat
  BY BurstIsSeq
<1>3. n \in Nat /\ n <= Len(data) /\ size + n \in 0..Capacity
  BY <1>1, <1>2 DEF RingInv, TypeOK, Accepted, AtMost
<1>4. size' = size + n /\ head' = head /\ tail' = Advance(tail, n)
  BY DEF WriteBytes
<1>5. storage' \in [Position -> Byte]
  <2>1. storage' = [p \in Position |->
                      IF (p - tail) % Capacity < n
                      THEN data[((p - tail) % Capacity) + 1] ELSE storage[p]]
    BY DEF WriteBytes
  <2>2. ASSUME NEW p \in Position, (p - tail) % Capacity < n
        PROVE  data[((p - tail) % Capacity) + 1] \in Byte
    <3>1. (p - tail) % Capacity \in Nat
      BY <1>1 DEF RingInv, TypeOK, Position
    <3>2. ((p - tail) % Capacity) + 1 \in 1..Len(data)
      BY <1>2, <1>3, <2>2, <3>1
    <3> QED
      BY <1>2, <3>2, ElementOfSeq
  <2>3. storage \in [Position -> Byte]
    BY DEF RingInv, TypeOK
  <2> HIDE DEF n
  <2> QED
    BY <2>1, <2>2, <2>3
<1>6. moved' \in Seq(Byte)
  BY <1>2, <1>3 DEF WriteBytes
<1> HIDE DEF n
<1>7. Geometry'
  <2>1. Advance(Advance(head, size), n) = Advance(head, size + n)
    BY <1>1, <1>3, AdvanceTwice DEF RingInv, TypeOK
  <2> QED
    BY <1>4, <2>1 DEF Geometry, RingInv
<1>8. tail' \in Position /\ head' \in Position
  BY <1>1, <1>3, <1>4, AdvanceLemma DEF RingInv, TypeOK
<1> QED
  BY <1>3, <1>4, <1>5, <1>6, <1>7, <1>8 DEF RingInv, TypeOK

LEMMA ReadBytesInv ==
  ASSUME RingInv, NEW length \in Nat, ReadBytes(length)
  PROVE  RingInv'
<1> DEFINE n == AtMost(length, size)
<1>1. Capacity \in Nat /\ Capacity > 0
  BY RingAssumption
<1>2. n \in Nat /\ n <= size /\ size - n \in 0..Capacity
  BY <1>1 DEF RingInv, TypeOK, AtMost
<1>3. size' = size - n /\ head' = Advance(head, n)
      /\ tail' = tail /\ storage' = storage
      /\ moved' = [i \in 1..n |-> ByteAt(i)]
  BY DEF ReadBytes
<1> HIDE DEF n
<1>4. moved' \in Seq(Byte)
  <2>1. ASSUME NEW i \in 1..n PROVE ByteAt(i) \in Byte
    <3>1. i - 1 \in Nat /\ i - 1 <= Capacity
      BY <1>1, <1>2 DEF RingInv, TypeOK
    <3>2. Advance(head, i - 1) \in Position
      BY <3>1, AdvanceLemma DEF RingInv, TypeOK
    <3> QED
      BY <3>2 DEF RingInv, TypeOK, ByteAt
  <2> QED
    BY <1>2, <1>3, <2>1
<1>5. Geometry'
  <2>1. n + (size - n) = size /\ size - n \in Nat /\ size <= Capacity
    BY <1>1, <1>2 DEF RingInv, TypeOK
  <2>2. Advance(Advance(head, n), size - n) = Advance(head, size)
    BY <1>2, <2>1, AdvanceTwice DEF RingInv, TypeOK
  <2> QED
    BY <1>3, <2>2 DEF Geometry, RingInv
<1>6. head' \in Position
  BY <1>1, <1>2, <1>3, AdvanceLemma DEF RingInv, TypeOK
<1> QED
  BY <1>2, <1>3, <1>4, <1>5, <1>6 DEF RingInv, TypeOK

LEMMA ResetInv == RingInv /\ Reset => RingInv'
<1> SUFFICES ASSUME RingInv, Reset PROVE RingInv'
  OBVIOUS
<1>1. Capacity \in Nat /\ Capacity > 0
  BY RingAssumption
<1>2. 0 \in Position
  BY <1>1 DEF Position
<1>3. Advance(0, 0) = 0
  BY <1>1, <1>2, AdvanceLemma
<1> QED
  BY <1>1, <1>2, <1>3 DEF RingInv, TypeOK, Geometry, Reset

LEMMA RingNext == RingInv /\ [Next]_vars => RingInv'
<1> SUFFICES ASSUME RingInv, [Next]_vars PROVE RingInv'
  OBVIOUS
<1>1. CASE \E data \in Burst : WriteBytes(data)
  BY <1>1, WriteBytesInv
<1>2. CASE \E length \in 0..MaxTransfer : ReadBytes(length)
  BY <1>2, ReadBytesInv, RingAssumption
<1>3. CASE Reset
  BY <1>3, ResetInv
<1>4. CASE UNCHANGED vars
  BY <1>4 DEF vars, RingInv, TypeOK, Geometry, Advance
<1> QED
  BY <1>1, <1>2, <1>3, <1>4 DEF Next

(* Every position and count the ring code computes stays in range, for any *)
(* capacity: no call of the driver can index outside rb->storage.          *)
THEOREM RingTypeOK == Spec => []TypeOK
<1>1. RingInv => TypeOK
  BY DEF RingInv
<1> QED
  BY <1>1, RingInit, RingNext, PTL DEF Spec

(* Head, tail and size never drift apart, through any wrap-around.         *)
THEOREM RingGeometry == Spec => []Geometry
<1>1. RingInv => Geometry
  BY DEF RingInv
<1> QED
  BY <1>1, RingInit, RingNext, PTL DEF Spec

-----------------------------------------------------------------------------
(* How far past the tail a buffered or free position lies: what the write  *)
(* loop compares with the number of bytes it stores.                       *)
LEMMA OffsetLemma ==
  ASSUME NEW h \in Position, NEW s \in Nat, s <= Capacity,
         NEW j \in Nat, j < Capacity
  PROVE  (Advance(h, j) - Advance(h, s)) % Capacity
           = IF j >= s THEN j - s
             ELSE IF j - s = -Capacity THEN 0 ELSE j - s + Capacity
<1> DEFINE a == Advance(h, j) - Advance(h, s)
<1>1. Capacity \in Nat /\ Capacity > 0
  BY RingAssumption
<1>2. /\ Advance(h, j) = IF h + j < Capacity THEN h + j ELSE h + j - Capacity
      /\ Advance(h, j) \in Position
  BY <1>1, AdvanceLemma
<1>3. /\ Advance(h, s) = IF h + s < Capacity THEN h + s ELSE h + s - Capacity
      /\ Advance(h, s) \in Position
  BY AdvanceLemma
<1>4. a \in Int /\ a >= -Capacity /\ a < 2 * Capacity /\ a < Capacity
  BY <1>1, <1>2, <1>3 DEF Position
<1>5. a = IF h + j < Capacity
          THEN IF h + s < Capacity THEN j - s ELSE j - s + Capacity
          ELSE IF h + s < Capacity THEN j - s - Capacity ELSE j - s
  BY <1>1, <1>2, <1>3 DEF Position
<1> HIDE DEF a
<1>6. a % Capacity = IF a < 0 THEN a + Capacity ELSE a
  BY <1>1, <1>4, WrapLemma
<1>7. a % Capacity = IF j >= s THEN j - s
                     ELSE IF j - s = -Capacity THEN 0 ELSE j - s + Capacity
  BY <1>1, <1>4, <1>5, <1>6 DEF Position
<1> QED
  BY <1>7 DEF a

(* The buffered bytes form a sequence of bytes.                            *)
LEMMA ContentsType == RingInv => Contents \in Seq(Byte) /\ Len(Contents) = size
<1> SUFFICES ASSUME RingInv PROVE Contents \in Seq(Byte) /\ Len(Contents) = size
  OBVIOUS
<1>1. size \in Nat /\ size <= Capacity /\ Capacity \in Nat
  BY RingAssumption DEF RingInv, TypeOK
<1>2. ASSUME NEW i \in 1..size PROVE ByteAt(i) \in Byte
  <2>1. i - 1 \in Nat /\ i - 1 <= Capacity
    BY <1>1
  <2>2. Advance(head, i - 1) \in Position
    BY <2>1, AdvanceLemma DEF RingInv, TypeOK
  <2> QED
    BY <2>2 DEF RingInv, TypeOK, ByteAt
<1> QED
  BY <1>1, <1>2 DEF Contents

(* A write appends to the buffered bytes the prefix of its data that fits. *)
LEMMA WriteBytesIsPut ==
  ASSUME RingInv, NEW data \in Burst, WriteBytes(data)
  PROVE  Fifo!Put(data)
<1> DEFINE n == Accepted(Len(data))
<1>1. Capacity \in Nat /\ Capacity > 0
  BY RingAssumption
<1>2. data \in Seq(Byte) /\ Len(data) \in Nat
  BY BurstIsSeq
<1>3. n \in Nat /\ n <= Len(data) /\ size + n <= Capacity /\ size \in Nat
  BY <1>1, <1>2 DEF RingInv, TypeOK, Accepted, AtMost
<1>4. Contents \in Seq(Byte) /\ Len(Contents) = size
  BY ContentsType
<1>5. n = Fifo!AtMost(Len(data), Capacity - Len(Contents))
  BY <1>4 DEF Accepted, AtMost, Fifo!AtMost
<1>6. size' = size + n /\ head' = head /\ moved' = SubSeq(data, 1, n)
      /\ storage' = [p \in Position |->
                      IF (p - tail) % Capacity < n
                      THEN data[((p - tail) % Capacity) + 1] ELSE storage[p]]
  BY DEF WriteBytes
<1> HIDE DEF n
<1>7. SubSeq(data, 1, n) \in Seq(Byte) /\ Len(SubSeq(data, 1, n)) = n
      /\ \A k \in 1..n : SubSeq(data, 1, n)[k] = data[k]
  BY <1>2, <1>3
<1>8. ASSUME NEW i \in 1..(size + n)
      PROVE  ByteAt(i)' = IF i <= size THEN Contents[i] ELSE data[i - size]
  <2> DEFINE p == Advance(head, i - 1)
             k == (p - tail) % Capacity
  <2>1. i - 1 \in Nat /\ i - 1 < Capacity /\ i - 1 <= Capacity /\ i \in Nat
    BY <1>1, <1>3
  <2>2. p \in Position
    BY <2>1, AdvanceLemma DEF RingInv, TypeOK
  <2>3. k = IF i - 1 >= size THEN i - 1 - size
            ELSE IF i - 1 - size = -Capacity THEN 0 ELSE i - 1 - size + Capacity
    BY <1>3, <2>1, OffsetLemma DEF RingInv, TypeOK, Geometry
  <2>4. ByteAt(i)' = storage'[p]
    BY <1>6 DEF ByteAt, Advance
  <2>5. storage'[p] = IF k < n THEN data[k + 1] ELSE storage[p]
    BY <1>6, <2>2
  <2> HIDE DEF k
  <2>6. CASE i <= size
    <3>1. ~(k < n)
      BY <1>1, <1>3, <2>1, <2>3, <2>6
    <3>2. Contents[i] = storage[p]
      BY <2>1, <2>6 DEF Contents, ByteAt
    <3> QED
      BY <2>4, <2>5, <2>6, <3>1, <3>2
  <2>7. CASE ~(i <= size)
    <3>1. k < n /\ k + 1 = i - size
      BY <1>3, <2>1, <2>3, <2>7
    <3> QED
      BY <2>4, <2>5, <2>7, <3>1
  <2> QED
    BY <2>6, <2>7
<1>9. Contents' = Contents \o SubSeq(data, 1, n)
  <2>1. Contents' = [i \in 1..(size + n) |-> ByteAt(i)']
    BY <1>6 DEF Contents
  <2>2. ASSUME NEW i \in 1..(size + n)
        PROVE  (Contents \o SubSeq(data, 1, n))[i] = ByteAt(i)'
    <3>1. CASE i <= size
      BY <1>3, <1>4, <1>7, <1>8, <3>1, ConcatProperties
    <3>2. CASE ~(i <= size)
      <4>1. i - size \in 1..n
        BY <1>3, <3>2
      <4>2. (Contents \o SubSeq(data, 1, n))[i] = SubSeq(data, 1, n)[i - size]
        BY <1>3, <1>4, <1>7, <3>2, ConcatProperties
      <4> QED
        BY <1>7, <1>8, <3>2, <4>1, <4>2
    <3> QED
      BY <3>1, <3>2
  <2>3. (Contents \o SubSeq(data, 1, n)) \in Seq(Byte)
        /\ Len(Contents \o SubSeq(data, 1, n)) = size + n
    BY <1>4, <1>7, ConcatProperties
  <2>4. Contents \o SubSeq(data, 1, n)
          = [i \in 1..(size + n) |-> (Contents \o SubSeq(data, 1, n))[i]]
    BY <2>3
  <2> QED
    BY <2>1, <2>2, <2>4
<1> QED
  BY <1>5, <1>6, <1>9 DEF Fifo!Put

(* A read removes the oldest bytes and returns them.                       *)
LEMMA ReadBytesIsTake ==
  ASSUME RingInv, NEW length \in Nat, ReadBytes(length)
  PROVE  Fifo!Take(length)
<1> DEFINE n == AtMost(length, size)
<1>1. Capacity \in Nat /\ Capacity > 0
  BY RingAssumption
<1>2. n \in Nat /\ n <= size /\ size \in Nat /\ size <= Capacity
  BY <1>1 DEF RingInv, TypeOK, AtMost
<1>3. Contents \in Seq(Byte) /\ Len(Contents) = size
  BY ContentsType
<1>4. n = Fifo!AtMost(length, Len(Contents))
  BY <1>3 DEF AtMost, Fifo!AtMost
<1>5. size' = size - n /\ head' = Advance(head, n)
      /\ tail' = tail /\ storage' = storage
      /\ moved' = [i \in 1..n |-> ByteAt(i)]
  BY DEF ReadBytes
<1> HIDE DEF n
<1>6. moved' = SubSeq(Contents, 1, n)
  <2>1. SubSeq(Contents, 1, n) = [i \in 1..n |-> Contents[i]]
    BY <1>2, <1>3
  <2>2. \A i \in 1..n : Contents[i] = ByteAt(i)
    BY <1>2 DEF Contents
  <2> QED
    BY <1>5, <2>1, <2>2
<1>7. Contents' = SubSeq(Contents, n + 1, size)
  <2>1. SubSeq(Contents, n + 1, size) = [i \in 1..(size - n) |-> Contents[n + i]]
    BY <1>2, <1>3
  <2>2. ASSUME NEW i \in 1..(size - n) PROVE Contents[n + i] = ByteAt(i)'
    <3>1. n + i \in 1..size /\ i - 1 \in Nat /\ n + (i - 1) <= Capacity
          /\ (n + i) - 1 = n + (i - 1)
      BY <1>1, <1>2
    <3>2. Advance(head', i - 1) = Advance(head, n + (i - 1))
      BY <1>2, <1>5, <3>1, AdvanceTwice DEF RingInv, TypeOK
    <3>3. ByteAt(i)' = storage[Advance(head', i - 1)]
      BY <1>5 DEF ByteAt, Advance
    <3> QED
      BY <3>1, <3>2, <3>3 DEF Contents, ByteAt
  <2>3. Contents' = [i \in 1..(size - n) |-> ByteAt(i)']
    BY <1>5 DEF Contents
  <2> QED
    BY <2>1, <2>2, <2>3
<1> QED
  BY <1>3, <1>4, <1>6, <1>7 DEF Fifo!Take

(* Every call on the ring is the corresponding call on a bounded FIFO      *)
(* queue: no byte is lost, repeated or reordered, whatever the capacity.   *)
THEOREM RingImplementsFifo == Spec => ImplementsFifo
<1>1. Init => Fifo!Init
  <2> SUFFICES ASSUME Init PROVE Contents = <<>> /\ moved = <<>>
    BY DEF Fifo!Init
  <2> QED
    BY DEF Init, Contents
<1>2. RingInv /\ [Next]_vars => [Fifo!Next]_(Fifo!vars)
  <2> SUFFICES ASSUME RingInv, [Next]_vars PROVE [Fifo!Next]_(Fifo!vars)
    OBVIOUS
  <2>1. ASSUME NEW data \in Burst, WriteBytes(data) PROVE Fifo!Next
    BY <2>1, WriteBytesIsPut DEF Fifo!Next, Burst, Fifo!Burst
  <2>2. ASSUME NEW length \in 0..MaxTransfer, ReadBytes(length) PROVE Fifo!Next
    BY <2>2, ReadBytesIsTake, RingAssumption DEF Fifo!Next
  <2>3. CASE Reset
    <3>1. Contents' = <<>>
      BY <2>3 DEF Reset, Contents
    <3> QED
      BY <2>3, <3>1 DEF Reset, Fifo!Next, Fifo!Clear
  <2>4. CASE UNCHANGED vars
    BY <2>4 DEF vars, Fifo!vars, Contents, ByteAt, Advance
  <2> QED
    BY <2>1, <2>2, <2>3, <2>4 DEF Next
<1> QED
  BY <1>1, <1>2, RingInit, RingNext, PTL DEF Spec, ImplementsFifo, Fifo!Spec
=============================================================================
