------------------------ MODULE MCSerialFrameProofs ------------------------
(***************************************************************************)
(* For every payload capacity, alphabet and length: what SerialLoops and   *)
(* MCSerialFrame check of single byte strings.  The loops compute what     *)
(* SerialFrame says, and encoder, decoder and scanners fit together.       *)
(*                                                                         *)
(* The inductive invariant says of each loop what its variables mean after *)
(* the bytes read so far.  A specification that grows one line reaches     *)
(* every byte string, so an invariant of it is a fact about every payload, *)
(* every frame and every content of a ring.                                *)
(***************************************************************************)
EXTENDS MCSerialFrame, FrameStreamProofs

(* The encoder has counted and stored what SerialFrame calls the body.     *)
EncoderInv ==
  encoder = [frame_length |-> BodyLength(line), frame |-> <<Delimiter>> \o Body(line)]

(* What stops the decoder: a delimiter, or an escape whose next byte has   *)
(* been read and did not need one.                                         *)
StopsAt(f, k) ==
  \/ f[k] = Delimiter
  \/ f[k] = Escape /\ k + 1 \in Interior(f) /\ ~RequiresEscape(FlipBit5(f[k + 1]))

Stops(f) == {k \in Interior(f) : StopsAt(f, k)}

(* An escape is the last byte the decoder has read.                        *)
Pending(f) == Len(f) >= 3 /\ f[Len(f) - 1] = Escape

ValueCount(f) == Cardinality(ValuePositions(f))

DecodesSoFar(d, f, c) ==
  \/ /\ d = [status |-> "OK", escaped |-> Pending(f), data |-> Values(f)]
     /\ Stops(f) = {} /\ ValueCount(f) <= c
  \/ /\ d.status = "INVALID_FRAME"
     /\ \/ Stops(f) # {} /\ ValueCount(f) <= c
        \/ c = QueueCapacity /\ ValueCount(f) > c
  \/ /\ d.status = "INVALID_ARGUMENT"
     /\ c < QueueCapacity /\ ValueCount(f) > c

DecoderInv ==
  /\ line = <<>> => decoder = [c \in Capacities |->
                                 [status |-> "OK", escaped |-> FALSE, data |-> <<>>]]
  /\ line # <<>> /\ line[1] = Delimiter =>
       \A c \in Capacities : DecodesSoFar(decoder[c], line, c)

CounterInv ==
  /\ counter \in [frames : Nat, in_frame : BOOLEAN, payload : Nat]
  /\ counter.frames = FrameCount(line)
  /\ counter.in_frame <=> Delimiters(line) # {}
  /\ counter.in_frame => (counter.payload > 0 <=> line[Len(line)] # Delimiter)

DetectorInv ==
  detector = [saw_start |-> Delimiters(line) # {}, complete |-> HasCompleteFrame(line)]

(* The first delimiter, and the one after it.                              *)
Opens(q, s) == s \in Delimiters(q) /\ \A j \in Delimiters(q) : s <= j
Closes(q, s, e) ==
  e \in Delimiters(q) /\ s < e /\ \A j \in Delimiters(q) : s < j => e <= j

(* The reader looks for a frame, is inside one, has one, or gave up.       *)
ReadsNoise(r, q) ==
  r = [status |-> "READING", frame |-> <<>>, rest |-> <<>>] /\ Delimiters(q) = {}
ReadsFrame(r, q, c) ==
  \E s \in 1..Len(q) :
    /\ Delimiters(q) = {s} /\ Len(q) < s + c
    /\ r = [status |-> "READING", frame |-> SubSeq(q, s, Len(q)), rest |-> <<>>]
HasRead(r, q, c) ==
  \E s, e \in 1..Len(q) :
    /\ Opens(q, s) /\ Closes(q, s, e) /\ e < s + c
    /\ r = [status |-> "OK", frame |-> SubSeq(q, s, e), rest |-> SubSeq(q, e + 1, Len(q))]
HasLost(r, q, c) ==
  \E s \in 1..Len(q), f \in Bytes :
    /\ Opens(q, s) /\ s + c <= Len(q) /\ \A j \in Delimiters(q) : s < j => s + c <= j
    /\ r = [status |-> "INVALID_FRAME", frame |-> f,
            rest |-> SubSeq(q, s + c + 1, Len(q))]

ReadsSoFar(r, q, c) ==
  ReadsNoise(r, q) \/ ReadsFrame(r, q, c) \/ HasRead(r, q, c) \/ HasLost(r, q, c)

ReaderInv == \A c \in FrameCapacities : ReadsSoFar(reader[c], line, c)

LoopsInv ==
  /\ line \in Bytes
  /\ EncoderInv /\ DecoderInv /\ CounterInv /\ DetectorInv /\ ReaderInv
-----------------------------------------------------------------------------
(* One more byte.                                                          *)

LEMMA AppendByte ==
  ASSUME NEW q \in Bytes, NEW b \in AnyByte
  PROVE  /\ Append(q, b) \in Bytes /\ Append(q, b) # <<>>
         /\ Len(q) \in Nat /\ Len(Append(q, b)) = Len(q) + 1
         /\ \A i \in 1..Len(q) : Append(q, b)[i] = q[i] /\ q[i] \in AnyByte
         /\ Append(q, b)[Len(q) + 1] = b
<1>1. q \in Seq(AnyByte) /\ Len(q) \in Nat /\ \A i \in 1..Len(q) : q[i] \in AnyByte
  BY EmptyBytes, ElementOfSeq DEF Bytes
<1>2. /\ Append(q, b) \in Seq(AnyByte) /\ Append(q, b) # <<>>
      /\ Len(Append(q, b)) = Len(q) + 1
      /\ \A i \in 1..Len(q) : Append(q, b)[i] = q[i]
      /\ Append(q, b)[Len(q) + 1] = b
  BY <1>1, AppendProperties
<1> QED
  BY <1>1, <1>2 DEF Bytes

LEMMA AppendIsJoin ==
  ASSUME NEW q \in Bytes, NEW b \in AnyByte
  PROVE  Append(q, b) = q \o <<b>> /\ <<b>> \in Bytes
<1>1. q \in Seq(AnyByte) /\ <<b>> \in Seq(AnyByte)
  BY DEF Bytes
<1> QED
  BY <1>1, AppendIsConcat DEF Bytes

LEMMA DelimitersGrow ==
  ASSUME NEW q \in Bytes, NEW b \in AnyByte
  PROVE  /\ Delimiters(Append(q, b))
              = Delimiters(q) \cup (IF b = Delimiter THEN {Len(q) + 1} ELSE {})
         /\ Delimiters(q) \in SUBSET (1..Len(q))
<1> DEFINE g == Append(q, b)
           n == Len(q)
<1>1. /\ g \in Bytes /\ n \in Nat /\ Len(g) = n + 1
      /\ \A i \in 1..n : g[i] = q[i]
      /\ g[n + 1] = b
  BY AppendByte
<1>2. DOMAIN g = 1..(n + 1) /\ DOMAIN q = 1..n
  BY <1>1, DelimitersFinite
<1> HIDE DEF g, n
<1>3. Delimiters(g) = Delimiters(q) \cup (IF b = Delimiter THEN {n + 1} ELSE {})
  <2>1. \A i \in 1..(n + 1) : i \in 1..n \/ i = n + 1
    BY <1>1
  <2>2. 1..n \subseteq 1..(n + 1) /\ n + 1 \in 1..(n + 1) /\ n + 1 \notin 1..n
    BY <1>1
  <2> QED
    BY <1>1, <1>2, <2>1, <2>2 DEF Delimiters
<1> QED
  BY <1>2, <1>3 DEF Delimiters, g, n

LEMMA NoByte == Delimiters(<<>>) = {} /\ Delimiter \in AnyByte /\ Escape \in AnyByte
  BY DEF Delimiters, AnyByte, Delimiter, Escape

-----------------------------------------------------------------------------
(* The counter and the detector.                                           *)

Closing(q) ==
  {j \in Delimiters(q) : (\E i \in Delimiters(q) : i < j) /\ q[j - 1] # Delimiter}

LEMMA ClosingGrows ==
  ASSUME NEW q \in Bytes, NEW b \in AnyByte
  PROVE  Closing(Append(q, b)) = Closing(q) \cup
           (IF b = Delimiter /\ Delimiters(q) # {} /\ q[Len(q)] # Delimiter
            THEN {Len(q) + 1} ELSE {})
<1> DEFINE g == Append(q, b)
           n == Len(q)
           D == Delimiters(q)
<1>1. /\ g \in Bytes /\ n \in Nat /\ Len(g) = n + 1
      /\ \A i \in 1..n : g[i] = q[i]
  BY AppendByte
<1>2. Delimiters(g) = D \cup (IF b = Delimiter THEN {n + 1} ELSE {}) /\ D \in SUBSET (1..n)
  BY DelimitersGrow
<1> HIDE DEF g, n, D
<1>3. ASSUME NEW j \in D PROVE j \in Closing(g) <=> j \in Closing(q)
  <2>1. j \in 1..n
    BY <1>2
  <2>2. (\E i \in Delimiters(g) : i < j) <=> (\E i \in D : i < j)
    <3>1. ~(n + 1 < j)
      BY <1>1, <2>1
    <3>2. D \subseteq Delimiters(g) /\ \A i \in Delimiters(g) : i \in D \/ i = n + 1
      BY <1>2
    <3> QED
      BY <3>1, <3>2, Zenon
  <2>3. CASE j = 1
    <3>1. ~\E i \in D : i < j
      BY <1>1, <1>2, <2>3
    <3> QED
      BY <2>2, <3>1 DEF Closing, D
  <2>4. CASE j # 1
    <3>1. j - 1 \in 1..n
      BY <1>1, <2>1, <2>4
    <3>2. g[j - 1] = q[j - 1]
      BY <1>1, <3>1
    <3> QED
      BY <1>2, <2>2, <3>2 DEF Closing, D
  <2> QED
    BY <2>3, <2>4
<1>4. b = Delimiter => (n + 1 \in Closing(g) <=> D # {} /\ q[n] # Delimiter)
  <2> SUFFICES ASSUME b = Delimiter
               PROVE  n + 1 \in Closing(g) <=> D # {} /\ q[n] # Delimiter
    OBVIOUS
  <2>1. n + 1 \in Delimiters(g) /\ Delimiters(g) = D \cup {n + 1} /\ (n + 1) - 1 = n
    BY <1>1, <1>2
  <2>2. (\E i \in Delimiters(g) : i < n + 1) <=> D # {}
    <3>1. \A i \in D : i < n + 1
      BY <1>1, <1>2
    <3>2. ~(n + 1 < n + 1)
      BY <1>1
    <3> QED
      BY <2>1, <3>1, <3>2
  <2>3. D # {} => g[n] = q[n]
    <3>1. \A i \in D : i \in 1..n
      BY <1>2
    <3>2. \A i \in D : n \in 1..n
      BY <1>1, <3>1
    <3> QED
      BY <1>1, <3>2
  <2> QED
    BY <2>1, <2>2, <2>3 DEF Closing
<1>5. Closing(g) \subseteq Delimiters(g) /\ Closing(q) \subseteq D
  BY DEF Closing, D
<1>6. n + 1 \notin D
  BY <1>1, <1>2
<1> QED
  BY <1>2, <1>3, <1>4, <1>5, <1>6 DEF g, n, D

LEMMA ClosingFinite ==
  ASSUME NEW q \in Bytes
  PROVE  /\ FrameCount(q) = Cardinality(Closing(q)) /\ FrameCount(q) \in Nat
         /\ IsFiniteSet(Closing(q)) /\ Len(q) + 1 \notin Closing(q)
<1>1. Closing(q) \in SUBSET Delimiters(q) /\ Delimiters(q) \in SUBSET (1..Len(q)) /\ Len(q) \in Nat
  BY DelimitersFinite DEF Closing
<1>2. IsFiniteSet(Closing(q)) /\ Cardinality(Closing(q)) \in Nat
  BY <1>1, DelimitersFinite
<1>3. FrameCount(q) = Cardinality(Closing(q))
  BY DEF FrameCount, Closing
<1> QED
  BY <1>1, <1>2, <1>3

(* frame_count: in_frame and the payload count say what the next delimiter *)
(* does.                                                                   *)
LEMMA CounterReads ==
  ASSUME line \in Bytes, CounterInv, NEW b \in AnyByte, NextByte(b)
  PROVE  CounterInv'
<1> DEFINE q == line
           g == Append(line, b)
           n == Len(line)
<1>1. /\ line' = g /\ counter' = CounterStep(counter, b)
      /\ counter \in [frames : Nat, in_frame : BOOLEAN, payload : Nat]
      /\ counter.frames = FrameCount(q)
      /\ counter.in_frame <=> Delimiters(q) # {}
      /\ counter.in_frame => (counter.payload > 0 <=> q[n] # Delimiter)
  BY DEF NextByte, CounterInv
<1>2. n \in Nat /\ Len(g) = n + 1 /\ g[n + 1] = b
  BY AppendByte
<1>3. Delimiters(g) = Delimiters(q) \cup (IF b = Delimiter THEN {n + 1} ELSE {})
  BY DelimitersGrow
<1>4. FrameCount(g) = FrameCount(q) +
        (IF b = Delimiter /\ Delimiters(q) # {} /\ q[n] # Delimiter THEN 1 ELSE 0)
  <2>1. g \in Bytes
    BY AppendByte
  <2>2. /\ FrameCount(q) = Cardinality(Closing(q)) /\ FrameCount(q) \in Nat
        /\ IsFiniteSet(Closing(q)) /\ n + 1 \notin Closing(q)
        /\ FrameCount(g) = Cardinality(Closing(g))
    BY <2>1, ClosingFinite
  <2>3. Closing(g) = Closing(q) \cup
          (IF b = Delimiter /\ Delimiters(q) # {} /\ q[n] # Delimiter THEN {n + 1} ELSE {})
    BY ClosingGrows
  <2> DEFINE C == Closing(q)
             x == n + 1
             closes == b = Delimiter /\ Delimiters(q) # {} /\ q[n] # Delimiter
  <2>4. /\ IsFiniteSet(C) /\ x \notin C
        /\ FrameCount(q) = Cardinality(C) /\ FrameCount(g) = Cardinality(Closing(g))
        /\ Closing(g) = C \cup (IF closes THEN {x} ELSE {})
    BY <2>2, <2>3
  <2> HIDE DEF C, x, closes, g, q, n
  <2>5. Cardinality(C \cup {x}) = Cardinality(C) + 1
    BY <2>4, FS_AddElement
  <2>6. FrameCount(q) \in Nat
    BY <2>2
  <2>7. FrameCount(g) = FrameCount(q) + (IF closes THEN 1 ELSE 0)
    <3>1. CASE closes
      BY <2>4, <2>5, <3>1
    <3>2. CASE ~closes
      <4>1. Closing(g) = C
        BY <2>4, <3>2
      <4> QED
        BY <2>4, <2>6, <3>2, <4>1
    <3> QED
      BY <3>1, <3>2
  <2> QED
    BY <2>7 DEF closes
<1>5. CounterInv' <=>
        /\ counter' \in [frames : Nat, in_frame : BOOLEAN, payload : Nat]
        /\ counter'.frames = FrameCount(g)
        /\ counter'.in_frame <=> Delimiters(g) # {}
        /\ counter'.in_frame => (counter'.payload > 0 <=> g[Len(g)] # Delimiter)
  BY <1>1 DEF CounterInv
<1> DEFINE c == counter
           d == counter'
<1>6. FrameCount(q) \in Nat
  BY ClosingFinite
<1> HIDE DEF g, q, n, c, d
<1>7. CASE b = Delimiter
  <2>1. d = [frames |-> c.frames + (IF c.in_frame /\ c.payload > 0 THEN 1 ELSE 0),
             in_frame |-> TRUE, payload |-> 0]
    BY <1>1, <1>7 DEF CounterStep, c, d
  <2>2. d.frames = FrameCount(g) /\ d.frames \in Nat
    BY <1>1, <1>4, <1>6, <1>7, <2>1 DEF c
  <2>3. Delimiters(g) # {} /\ g[Len(g)] = Delimiter
    BY <1>2, <1>3, <1>7
  <2>4. d.in_frame = TRUE /\ d.payload = 0 /\ d \in [frames : Nat, in_frame : BOOLEAN, payload : Nat]
    BY <2>1, <2>2
  <2> QED
    BY <1>5, <2>2, <2>3, <2>4 DEF d
<1>8. CASE b # Delimiter
  <2>1. d = [c EXCEPT !.payload = IF c.in_frame THEN c.payload + 1 ELSE c.payload]
    BY <1>1, <1>8 DEF CounterStep, c, d
  <2>2. /\ c.payload \in Nat /\ c.in_frame \in BOOLEAN /\ c.frames \in Nat
        /\ d.frames = c.frames /\ d.in_frame = c.in_frame
        /\ d.payload = IF c.in_frame THEN c.payload + 1 ELSE c.payload
        /\ d \in [frames : Nat, in_frame : BOOLEAN, payload : Nat]
    BY <1>1, <2>1 DEF c
  <2>3. Delimiters(g) = Delimiters(q) /\ g[Len(g)] # Delimiter
    BY <1>2, <1>3, <1>8
  <2>4. d.in_frame => d.payload > 0
    BY <2>2
  <2>5. d.frames = FrameCount(g)
    BY <1>1, <1>4, <1>6, <1>8, <2>2 DEF c
  <2> QED
    BY <1>1, <1>5, <2>2, <2>3, <2>4, <2>5 DEF c, d
<1> QED
  BY <1>7, <1>8

LEMMA DetectorReads ==
  ASSUME line \in Bytes, DetectorInv, NEW b \in AnyByte, NextByte(b)
  PROVE  DetectorInv'
<1> DEFINE q == line
           g == Append(line, b)
           n == Len(line)
<1>1. /\ line' = g /\ detector' = DetectorStep(detector, b)
      /\ detector = [saw_start |-> Delimiters(q) # {}, complete |-> HasCompleteFrame(q)]
  BY DEF NextByte, DetectorInv
<1>2. DetectorInv' <=>
        detector' = [saw_start |-> Delimiters(g) # {}, complete |-> HasCompleteFrame(g)]
  BY <1>1 DEF DetectorInv
<1>3. /\ n \in Nat /\ Delimiters(q) \in SUBSET (1..n)
      /\ Delimiters(g) = Delimiters(q) \cup (IF b = Delimiter THEN {n + 1} ELSE {})
  BY DelimitersGrow, AppendByte
<1>4. IsFiniteSet(Delimiters(q)) /\ Cardinality(Delimiters(q)) \in Nat
  BY DelimitersFinite
<1> HIDE DEF g, q, n
<1>5. CASE b = Delimiter
  <2> DEFINE D == Delimiters(q)
             x == n + 1
  <2>1. IsFiniteSet(D) /\ x \notin D /\ Delimiters(g) = D \cup {x}
    BY <1>3, <1>4, <1>5
  <2> HIDE DEF D, x
  <2>2. Cardinality(D \cup {x}) = Cardinality(D) + 1
    BY <2>1, FS_AddElement
  <2>3. Cardinality(D) \in Nat /\ (Cardinality(D) = 0 <=> D = {})
    BY <2>1, <1>4, FS_EmptySet DEF D
  <2>4. HasCompleteFrame(g) <=> HasCompleteFrame(q) \/ D # {}
    BY <2>1, <2>2, <2>3 DEF HasCompleteFrame, D
  <2>5. Delimiters(g) # {}
    BY <2>1
  <2>6. HasCompleteFrame(g) \in BOOLEAN /\ HasCompleteFrame(q) \in BOOLEAN
    BY DEF HasCompleteFrame
  <2>7. detector' = [saw_start |-> TRUE, complete |-> HasCompleteFrame(q) \/ D # {}]
    BY <1>1, <1>5 DEF DetectorStep, D
  <2> QED
    BY <1>2, <2>4, <2>5, <2>6, <2>7, Zenon
<1>6. CASE b # Delimiter
  <2>1. detector' = detector
    BY <1>1, <1>6 DEF DetectorStep
  <2>2. Delimiters(g) = Delimiters(q)
    BY <1>3, <1>6
  <2>3. HasCompleteFrame(g) = HasCompleteFrame(q)
    BY <2>2 DEF HasCompleteFrame
  <2> QED
    BY <1>1, <1>2, <2>1, <2>2, <2>3
<1> QED
  BY <1>5, <1>6

-----------------------------------------------------------------------------
(* The encoder.                                                            *)

LEMMA BodyGrows ==
  ASSUME NEW p \in Bytes, NEW b \in AnyByte
  PROVE  /\ BodyLength(Append(p, b)) = BodyLength(p) + (IF RequiresEscape(b) THEN 2 ELSE 1)
         /\ Body(Append(p, b)) = Body(p) \o (IF RequiresEscape(b) THEN <<Escape, FlipBit5(b)>> ELSE <<b>>)
<1> DEFINE g == Append(p, b)
           n == Len(p)
           m == BodyLength(p)
           E(i) == ValueEnd(g, i)
           tail == IF RequiresEscape(b) THEN <<Escape, FlipBit5(b)>> ELSE <<b>>
<1>1. /\ g \in Bytes /\ n \in Nat /\ Len(g) = n + 1
      /\ \A i \in 1..n : g[i] = p[i]
      /\ g[n + 1] = b
  BY AppendByte
<1>2. ASSUME NEW i \in 0..n PROVE E(i) = ValueEnd(p, i)
  <2>1. \A j \in 1..i : j \in 1..n
    BY <1>1
  <2>2. {j \in 1..i : RequiresEscape(g[j])} = {j \in 1..i : RequiresEscape(p[j])}
    BY <1>1, <2>1
  <2> QED
    BY <2>2 DEF ValueEnd, Escapes
<1>3. m = E(n) /\ BodyLength(g) = E(n + 1)
  BY <1>1, <1>2 DEF BodyLength
<1>4. /\ \A i \in 1..(n + 1) : E(i) \in 1..E(n + 1) /\ Body(g)[E(i)] = EncodedByte(g[i])
      /\ \A i \in 1..n : E(i) \in 1..m /\ Body(p)[E(i)] = EncodedByte(p[i])
  <2>1. \A i \in 1..n : i \in 0..n
    BY <1>1
  <2>2. \A i \in 1..n : ValueEnd(p, i) \in 1..m /\ Body(p)[ValueEnd(p, i)] = EncodedByte(p[i])
    BY BodyPositions
  <2>3. \A i \in 1..Len(g) : E(i) \in 1..BodyLength(g) /\ Body(g)[E(i)] = EncodedByte(g[i])
    BY <1>1, BodyPositions
  <2>4. \A i \in 1..n : E(i) \in 1..m /\ Body(p)[E(i)] = EncodedByte(p[i])
    BY <1>2, <2>1, <2>2
  <2> HIDE DEF g, n, m, E
  <2> QED
    BY <1>1, <1>3, <2>3, <2>4
<1>5. /\ E(n) \in Nat
      /\ E(n + 1) = E(n) + (IF RequiresEscape(b) THEN 2 ELSE 1)
  <2>1. n + 1 \in 1..Len(g) /\ (n + 1) - 1 = n /\ n \in Nat
    BY <1>1
  <2> QED
    BY <1>1, <2>1, ValueEndStep
<1>6. /\ Body(g) = [k \in 1..E(n + 1) |->
                      IF \E i \in 1..(n + 1) : E(i) = k
                      THEN EncodedByte(g[CHOOSE i \in 1..(n + 1) : E(i) = k]) ELSE Escape]
      /\ Body(p) = [k \in 1..m |->
                      IF \E i \in 1..n : ValueEnd(p, i) = k
                      THEN EncodedByte(p[CHOOSE i \in 1..n : ValueEnd(p, i) = k]) ELSE Escape]
  BY <1>1, <1>3 DEF Body
<1>7. /\ Body(g) \in Bytes /\ Len(Body(g)) = E(n + 1)
      /\ Body(p) \in Bytes /\ Len(Body(p)) = m
  BY <1>1, <1>3, BodyProperties
<1> HIDE DEF g, n, m, E
<1>8. ASSUME NEW k \in 1..m PROVE Body(g)[k] = Body(p)[k]
  <2>1. k \in 1..E(n + 1) /\ k # E(n + 1)
    BY <1>3, <1>5
  <2>2. CASE \E i \in 1..n : E(i) = k
    <3>1. PICK i \in 1..n : E(i) = k
      BY <2>2
    <3>2. i \in 1..(n + 1) /\ g[i] = p[i]
      BY <1>1
    <3> QED
      BY <1>4, <3>1, <3>2
  <2>3. CASE ~\E i \in 1..n : E(i) = k
    <3>1. \A i \in 1..(n + 1) : i \in 1..n \/ i = n + 1
      BY <1>1
    <3>2. ~\E i \in 1..(n + 1) : E(i) = k
      BY <2>1, <2>3, <3>1
    <3>3. ~\E i \in 1..n : ValueEnd(p, i) = k
      <4>1. \A i \in 1..n : i \in 0..n
        BY <1>1
      <4> QED
        BY <1>2, <2>3, <4>1
    <3>4. Body(g)[k] = Escape
      BY <1>6, <2>1, <3>2
    <3>5. Body(p)[k] = Escape
      BY <1>6, <3>3
    <3> QED
      BY <3>4, <3>5
  <2> QED
    BY <2>2, <2>3
<1>9. Body(g)[E(n + 1)] = EncodedByte(b)
  <2>1. n + 1 \in 1..(n + 1)
    BY <1>1
  <2> QED
    BY <1>1, <1>4, <2>1
<1>10. RequiresEscape(b) => Body(g)[m + 1] = Escape
  <2> SUFFICES ASSUME RequiresEscape(b) PROVE Body(g)[m + 1] = Escape
    OBVIOUS
  <2>1. E(n + 1) = m + 2 /\ m \in Nat
    BY <1>3, <1>5
  <2>2. \A i \in 1..(n + 1) : i \in 1..n \/ i = n + 1
    BY <1>1
  <2>3. m + 1 \in 1..E(n + 1) /\ m + 1 # m + 2 /\ m + 1 \notin 1..m
    BY <2>1
  <2>4. ~\E i \in 1..(n + 1) : E(i) = m + 1
    BY <1>4, <2>1, <2>2, <2>3
  <2> QED
    BY <1>6, <2>3, <2>4
<1>11. /\ tail \in Bytes
       /\ RequiresEscape(b) => Len(tail) = 2 /\ tail[1] = Escape /\ tail[2] = EncodedByte(b)
       /\ ~RequiresEscape(b) => Len(tail) = 1 /\ tail[1] = EncodedByte(b)
  <2>1. EncodedByte(b) \in AnyByte /\ Escape \in AnyByte
        /\ EncodedByte(b) = IF RequiresEscape(b) THEN FlipBit5(b) ELSE b
    BY EncodedByteType, NoByte DEF EncodedByte
  <2>2. CASE RequiresEscape(b)
    <3>1. tail = <<Escape, EncodedByte(b)>>
      BY <2>1, <2>2
    <3> HIDE DEF tail
    <3> QED
      BY <2>1, <2>2, <3>1 DEF Bytes
  <2>3. CASE ~RequiresEscape(b)
    <3>1. tail = <<EncodedByte(b)>>
      BY <2>1, <2>3
    <3> HIDE DEF tail
    <3> QED
      BY <2>1, <2>3, <3>1 DEF Bytes
  <2> QED
    BY <2>2, <2>3
<1> HIDE DEF tail
<1>12. /\ Body(p) \o tail \in Bytes /\ Len(Body(p) \o tail) = m + Len(tail)
       /\ \A k \in 1..m : (Body(p) \o tail)[k] = Body(p)[k]
       /\ \A k \in 1..Len(tail) : (Body(p) \o tail)[m + k] = tail[k]
  BY <1>7, <1>11, ConcatAt
<1> DEFINE w == Body(p) \o tail
           h == Body(g)
<1>13. /\ h \in Bytes /\ Len(h) = Len(w) /\ w \in Bytes /\ m \in Nat
       /\ Len(w) = m + (IF RequiresEscape(b) THEN 2 ELSE 1)
       /\ E(n + 1) = Len(w)
  BY <1>3, <1>5, <1>7, <1>11, <1>12
<1>14. \A k \in 1..m : h[k] = w[k]
  BY <1>8, <1>12
<1> HIDE DEF w, h
<1>15. /\ RequiresEscape(b) => w[m + 1] = h[m + 1] /\ w[m + 2] = h[m + 2]
       /\ ~RequiresEscape(b) => w[m + 1] = h[m + 1]
  <2>1. CASE RequiresEscape(b)
    <3>0. Len(tail) = 2 /\ Len(w) = m + 2 /\ E(n + 1) = Len(w)
      BY <1>11, <1>13, <2>1
    <3>1. 1 \in 1..Len(tail) /\ 2 \in 1..Len(tail) /\ E(n + 1) = m + 2
      BY <3>0
    <3>2. w[m + 1] = tail[1] /\ w[m + 2] = tail[2]
      BY <1>12, <3>1 DEF w
    <3>3. h[m + 1] = Escape /\ h[m + 2] = EncodedByte(b)
      BY <1>9, <1>10, <2>1, <3>1 DEF h
    <3> QED
      BY <1>11, <2>1, <3>2, <3>3
  <2>2. CASE ~RequiresEscape(b)
    <3>0. Len(tail) = 1 /\ Len(w) = m + 1 /\ E(n + 1) = Len(w)
      BY <1>11, <1>13, <2>2
    <3>1. 1 \in 1..Len(tail) /\ E(n + 1) = m + 1
      BY <3>0
    <3>2. w[m + 1] = tail[1]
      BY <1>12, <3>1 DEF w
    <3>3. h[m + 1] = EncodedByte(b)
      BY <1>9, <3>1 DEF h
    <3> QED
      BY <1>11, <2>2, <3>2, <3>3
  <2> QED
    BY <2>1, <2>2
<1>16. \A k \in 1..Len(w) : h[k] = w[k]
  <2> SUFFICES ASSUME NEW k \in 1..Len(w) PROVE h[k] = w[k]
    OBVIOUS
  <2>1. k \in 1..m \/ k = m + 1 \/ (RequiresEscape(b) /\ k = m + 2)
    BY <1>13
  <2> QED
    BY <1>14, <1>15, <2>1
<1>17. h = w
  BY <1>13, <1>16, SeqEqual DEF Bytes
<1> QED
  BY <1>3, <1>5, <1>17 DEF g, n, m, E, w, h, tail

LEMMA EncoderReads ==
  ASSUME line \in Bytes, EncoderInv, NEW b \in AnyByte, NextByte(b)
  PROVE  EncoderInv'
<1> DEFINE g == Append(line, b)
           start == <<Delimiter>>
           tail == IF RequiresEscape(b) THEN <<Escape, FlipBit5(b)>> ELSE <<b>>
<1>1. line' = g /\ encoder' = EncoderStep(encoder, b)
      /\ encoder = [frame_length |-> BodyLength(line), frame |-> start \o Body(line)]
  BY DEF NextByte, EncoderInv
<1>2. EncoderInv' <=> encoder' = [frame_length |-> BodyLength(g), frame |-> start \o Body(g)]
  BY <1>1 DEF EncoderInv
<1>3. /\ BodyLength(g) = BodyLength(line) + (IF RequiresEscape(b) THEN 2 ELSE 1)
      /\ Body(g) = Body(line) \o tail
  BY BodyGrows
<1>4. start \in Bytes /\ Body(line) \in Bytes /\ tail \in Bytes
  <2>1. FlipBit5(b) \in AnyByte \/ ~RequiresEscape(b)
    BY EncodedByteType DEF EncodedByte
  <2> QED
    BY <2>1, NoByte, BodyProperties DEF Bytes
<1>5. start \o Body(g) = (start \o Body(line)) \o tail /\ start \o Body(line) \in Bytes
  <2> DEFINE old == Body(line)
  <2>1. start \in Seq(AnyByte) /\ old \in Seq(AnyByte) /\ tail \in Seq(AnyByte)
    BY <1>4 DEF Bytes
  <2> HIDE DEF start, tail, old
  <2>2. (start \o old) \o tail = start \o (old \o tail) /\ start \o old \in Bytes
    BY <2>1, ConcatAssociative, ConcatProperties DEF Bytes
  <2> QED
    BY <1>3, <2>2 DEF old
<1>6. ~RequiresEscape(b) => Append(start \o Body(line), b) = (start \o Body(line)) \o <<b>>
  BY <1>5, AppendIsJoin
<1> DEFINE t == start \o Body(line)
<1>7. encoder = [frame_length |-> BodyLength(line), frame |-> t]
  BY <1>1
<1>8. RequiresEscape(b) => tail = <<Escape, FlipBit5(b)>>
  OBVIOUS
<1>9. ~RequiresEscape(b) => tail = <<b>>
  OBVIOUS
<1> HIDE DEF g, start, t, tail
<1>10. encoder' = [frame_length |-> BodyLength(line) + (IF RequiresEscape(b) THEN 2 ELSE 1),
                   frame |-> t \o tail]
  <2>1. encoder.frame_length = BodyLength(line) /\ encoder.frame = t
    BY <1>7
  <2>2. CASE RequiresEscape(b)
    <3>1. encoder' = [frame_length |-> encoder.frame_length + 2,
                      frame |-> encoder.frame \o <<Escape, FlipBit5(b)>>]
      BY <1>1, <2>2 DEF EncoderStep
    <3> QED
      BY <1>8, <2>1, <2>2, <3>1
  <2>3. CASE ~RequiresEscape(b)
    <3>1. encoder' = [frame_length |-> encoder.frame_length + 1,
                      frame |-> Append(encoder.frame, b)]
      BY <1>1, <2>3 DEF EncoderStep
    <3>2. Append(t, b) = t \o tail
      BY <1>6, <1>9, <2>3 DEF t
    <3> QED
      BY <2>1, <2>3, <3>1, <3>2
  <2> QED
    BY <2>2, <2>3
<1> QED
  BY <1>2, <1>3, <1>5, <1>10 DEF t

-----------------------------------------------------------------------------
(* The reader of a frame.                                                  *)

LEMMA OpensFirst ==
  ASSUME NEW q \in Bytes, NEW s, Opens(q, s)
  PROVE  s = FirstOf(Delimiters(q)) /\ s \in 1..Len(q)
<1> DEFINE D == Delimiters(q)
<1>1. D \in SUBSET (1..Len(q)) /\ Len(q) \in Nat
  BY DelimitersFinite
<1>2. D \in SUBSET Nat /\ D # {} /\ s \in D /\ \A j \in D : s <= j
  BY <1>1 DEF Opens
<1> HIDE DEF D
<1>3. FirstOf(D) \in D /\ FirstOf(D) <= s /\ s <= FirstOf(D)
  BY <1>2, FirstOfProperties
<1>4. s \in Nat /\ FirstOf(D) \in Nat
  BY <1>2, <1>3
<1>5. s = FirstOf(D)
  BY <1>3, <1>4
<1> QED
  BY <1>1, <1>2, <1>5 DEF D

LEMMA ClosesNext ==
  ASSUME NEW q \in Bytes, NEW s, NEW e, Opens(q, s), Closes(q, s, e)
  PROVE  /\ e = FirstOf({j \in Delimiters(q) : j > s}) /\ {j \in Delimiters(q) : j > s} # {}
         /\ e \in 1..Len(q)
<1> DEFINE D == {j \in Delimiters(q) : j > s}
<1>1. Delimiters(q) \in SUBSET (1..Len(q)) /\ Len(q) \in Nat /\ s \in 1..Len(q)
  BY DelimitersFinite, OpensFirst
<1>2. e \in Delimiters(q) /\ s < e /\ \A j \in Delimiters(q) : s < j => e <= j
  BY DEF Closes
<1>3. \A j \in Delimiters(q) : j \in Nat /\ (j > s <=> s < j)
  BY <1>1
<1>4. D \in SUBSET Nat /\ D # {} /\ e \in D /\ \A j \in D : e <= j
  BY <1>2, <1>3
<1> HIDE DEF D
<1>5. FirstOf(D) \in D /\ FirstOf(D) <= e /\ e <= FirstOf(D)
  BY <1>4, FirstOfProperties
<1>6. e \in Nat /\ FirstOf(D) \in Nat
  BY <1>4, <1>5
<1>7. e = FirstOf(D)
  BY <1>5, <1>6
<1> QED
  BY <1>1, <1>2, <1>4, <1>7 DEF D

(* What is left when more is cut off than there is.                        *)
LEMMA NothingBehind ==
  ASSUME NEW q \in Bytes, NEW k \in Nat, Len(q) < k
  PROVE  SubSeq(q, k, Len(q)) = <<>>
<1>1. q \in Seq(AnyByte) /\ Len(q) \in Nat
  BY EmptyBytes DEF Bytes
<1>2. \A i \in k..Len(q) : q[i] \in AnyByte
  BY <1>1
<1>3. SubSeq(q, k, Len(q)) \in Seq(AnyByte) /\ Len(SubSeq(q, k, Len(q))) = 0
  BY <1>1, <1>2, SubSeqProperties
<1> QED
  BY <1>3, EmptyBytes DEF Bytes

(* The state of the reader is the result it would return now.              *)
LEMMA ReadsResult ==
  ASSUME NEW q \in Bytes, NEW c \in FrameCapacities, NEW r, ReadsSoFar(r, q, c)
  PROVE  ReadFrame(q, c) = IF r.status = "OK" THEN r
                           ELSE [status |-> "INVALID_FRAME", frame |-> <<>>, rest |-> r.rest]
<1> DEFINE D == Delimiters(q)
           start == FirstOf(D)
           later == {j \in D : j > start}
           Lost(last) == [status |-> "INVALID_FRAME", frame |-> <<>>,
                          rest |-> SubSeq(q, last + 1, Len(q))]
<1>0. c \in Nat \ {0} /\ Len(q) \in Nat /\ D \in SUBSET (1..Len(q))
  BY FrameAssumption, DelimitersFinite DEF FrameCapacities, MaxEncoded
<1>1. ReadFrame(q, c) =
        IF D = {} THEN Lost(Len(q))
        ELSE IF later # {} /\ FirstOf(later) < start + c
        THEN [status |-> "OK", frame |-> SubSeq(q, start, FirstOf(later)),
              rest |-> SubSeq(q, FirstOf(later) + 1, Len(q))]
        ELSE Lost(start + c)
  BY DEF ReadFrame, LastReadAt
<1> HIDE DEF D, start, later
<1>2. CASE ReadsNoise(r, q)
  <2>1. D = {} /\ r.status = "READING" /\ r.rest = <<>>
    BY <1>2 DEF ReadsNoise, D
  <2>2. SubSeq(q, Len(q) + 1, Len(q)) = <<>>
    BY <1>0, NothingBehind
  <2>3. ReadFrame(q, c) = [status |-> "INVALID_FRAME", frame |-> <<>>, rest |-> r.rest]
    BY <1>1, <2>1, <2>2
  <2> QED
    BY <2>1, <2>3
<1>3. CASE ReadsFrame(r, q, c)
  <2>1. PICK s \in 1..Len(q) :
          /\ D = {s} /\ Len(q) < s + c /\ r.status = "READING" /\ r.rest = <<>>
    BY <1>3 DEF ReadsFrame, D
  <2>2. Opens(q, s)
    BY <2>1 DEF Opens, D
  <2>3. start = s
    BY <2>2, OpensFirst DEF start, D
  <2>4. later = {}
    BY <2>1, <2>3 DEF later
  <2>5. SubSeq(q, (s + c) + 1, Len(q)) = <<>>
    <3>1. (s + c) + 1 \in Nat /\ Len(q) < (s + c) + 1
      BY <1>0, <2>1
    <3> QED
      BY <3>1, NothingBehind
  <2>6. ReadFrame(q, c) = [status |-> "INVALID_FRAME", frame |-> <<>>, rest |-> r.rest]
    BY <1>1, <2>1, <2>3, <2>4, <2>5
  <2> QED
    BY <2>1, <2>6
<1>4. CASE HasRead(r, q, c)
  <2>1. PICK s \in 1..Len(q), e \in 1..Len(q) :
          /\ Opens(q, s) /\ Closes(q, s, e) /\ e < s + c
          /\ r = [status |-> "OK", frame |-> SubSeq(q, s, e), rest |-> SubSeq(q, e + 1, Len(q))]
    BY <1>4 DEF HasRead
  <2>2. start = s /\ D # {}
    BY <2>1, OpensFirst DEF start, D, Opens
  <2>3. later # {} /\ FirstOf(later) = e
    BY <2>1, <2>2, ClosesNext DEF later, D
  <2>4. ReadFrame(q, c) = r
    BY <1>1, <2>1, <2>2, <2>3
  <2> QED
    BY <2>1, <2>4
<1>5. CASE HasLost(r, q, c)
  <2>1. PICK s \in 1..Len(q), f \in Bytes :
          /\ Opens(q, s) /\ \A j \in D : s < j => s + c <= j
          /\ r = [status |-> "INVALID_FRAME", frame |-> f,
                  rest |-> SubSeq(q, (s + c) + 1, Len(q))]
    BY <1>5 DEF HasLost, D
  <2>2. start = s /\ D # {}
    BY <2>1, OpensFirst DEF start, D, Opens
  <2>3. ~(later # {} /\ FirstOf(later) < start + c)
    <3> SUFFICES ASSUME later # {} PROVE ~(FirstOf(later) < s + c)
      BY <2>2
    <3>0. /\ \A j \in D : j \in Nat /\ (j > s <=> s < j)
          /\ later = {j \in D : j > s}
      BY <1>0, <2>2 DEF later
    <3>1. later \in SUBSET Nat /\ \A j \in later : j \in D /\ s < j
      BY <3>0
    <3>2. FirstOf(later) \in later
      BY <3>1, FirstOfProperties
    <3> DEFINE e == FirstOf(later)
    <3>3. e \in Nat /\ e \in D /\ s < e
      BY <3>1, <3>2
    <3> HIDE DEF e
    <3>4. s + c <= e
      BY <2>1, <3>3
    <3>5. ~(e < s + c)
      BY <1>0, <2>1, <3>3, <3>4
    <3> QED
      BY <3>5 DEF e
  <2>4. ReadFrame(q, c) = [status |-> "INVALID_FRAME", frame |-> <<>>, rest |-> r.rest]
    BY <1>1, <2>1, <2>2, <2>3
  <2> QED
    BY <2>1, <2>4
<1> QED
  BY <1>2, <1>3, <1>4, <1>5 DEF ReadsSoFar

(* A byte behind the closing delimiter goes to what is left in the ring.   *)
LEMMA SuffixGrows ==
  ASSUME NEW q \in Bytes, NEW b \in AnyByte, NEW k \in 1..(Len(q) + 1)
  PROVE  /\ SubSeq(Append(q, b), k, Len(q) + 1) = Append(SubSeq(q, k, Len(q)), b)
         /\ SubSeq(q, k, Len(q)) \in Bytes /\ Len(SubSeq(q, k, Len(q))) = Len(q) + 1 - k
<1> DEFINE g == Append(q, b)
           n == Len(q)
           u == SubSeq(q, k, n)
           v == SubSeq(g, k, n + 1)
           w == Append(u, b)
<1>1. /\ g \in Seq(AnyByte) /\ q \in Seq(AnyByte) /\ n \in Nat /\ Len(g) = n + 1
      /\ \A i \in 1..n : g[i] = q[i] /\ q[i] \in AnyByte
      /\ g[n + 1] = b
  BY AppendByte DEF Bytes
<1> HIDE DEF g, n
<1>2. /\ u \in Seq(AnyByte) /\ Len(u) = n + 1 - k
      /\ \A i \in 1..(n + 1 - k) : u[i] = q[k + i - 1]
  <2>1. \A i \in k..n : q[i] \in AnyByte
    BY <1>1
  <2>2. k \in Nat /\ n \in Nat /\ k <= n + 1
    BY <1>1 DEF n
  <2>3. /\ u \in Seq(AnyByte) /\ Len(u) = IF k <= n THEN n - k + 1 ELSE 0
        /\ \A i \in 1..(n - k + 1) : u[i] = q[k + i - 1]
    BY <1>1, <2>1, <2>2, SubSeqProperties
  <2>4. n - k + 1 = n + 1 - k /\ (~(k <= n) => n + 1 - k = 0)
    BY <2>2
  <2> QED
    BY <2>3, <2>4
<1>3. /\ v \in Seq(AnyByte) /\ Len(v) = n + 2 - k
      /\ \A i \in 1..(n + 2 - k) : v[i] = g[k + i - 1]
  <2>2. k \in Nat /\ n \in Nat /\ n + 1 \in Nat /\ k >= 1 /\ k <= n + 1
    BY <1>1 DEF n
  <2>1. \A i \in k..(n + 1) : g[i] \in AnyByte
    <3> SUFFICES ASSUME NEW i \in k..(n + 1) PROVE g[i] \in AnyByte
      OBVIOUS
    <3>1. i \in 1..Len(g)
      BY <1>1, <2>2
    <3> QED
      BY <1>1, <3>1, ElementOfSeq
  <2>3. /\ v \in Seq(AnyByte) /\ Len(v) = IF k <= n + 1 THEN (n + 1) - k + 1 ELSE 0
        /\ \A i \in 1..((n + 1) - k + 1) : v[i] = g[k + i - 1]
    BY <1>1, <2>1, <2>2, SubSeqProperties
  <2>4. (n + 1) - k + 1 = n + 2 - k
    BY <2>2
  <2> QED
    BY <2>2, <2>3, <2>4
<1> HIDE DEF u, v
<1>4. /\ w \in Seq(AnyByte) /\ Len(w) = n + 2 - k
      /\ \A i \in 1..(n + 1 - k) : w[i] = u[i]
      /\ w[(n + 1 - k) + 1] = b
  <2>1. (n + 1 - k) + 1 = n + 2 - k
    BY <1>1 DEF n
  <2> QED
    BY <1>2, <2>1, AppendProperties
<1> HIDE DEF w
<1>5. \A i \in 1..Len(v) : v[i] = w[i]
  <2> SUFFICES ASSUME NEW i \in 1..(n + 2 - k) PROVE v[i] = w[i]
    BY <1>3
  <2>1. k \in Nat /\ n \in Nat /\ k >= 1 /\ k <= n + 1
    BY <1>1 DEF n
  <2>2. CASE i = n + 2 - k
    <3>1. k + i - 1 = n + 1 /\ i = (n + 1 - k) + 1
      BY <2>1, <2>2
    <3> QED
      BY <1>1, <1>3, <1>4, <3>1
  <2>3. CASE i # n + 2 - k
    <3>1. i \in 1..(n + 1 - k) /\ k + i - 1 \in 1..n
      BY <2>1, <2>3
    <3> QED
      BY <1>1, <1>2, <1>3, <1>4, <3>1
  <2> QED
    BY <2>2, <2>3
<1>6. v = w
  BY <1>3, <1>4, <1>5, SeqEqual
<1> QED
  BY <1>2, <1>6 DEF Bytes, u, v, w, g, n

(* A byte that comes later does not change what has been read.             *)
LEMMA SliceStays ==
  ASSUME NEW q \in Bytes, NEW b \in AnyByte, NEW s \in 1..Len(q), NEW e \in 1..Len(q)
  PROVE  SubSeq(Append(q, b), s, e) = SubSeq(q, s, e)
<1> DEFINE g == Append(q, b)
           u == SubSeq(q, s, e)
           v == SubSeq(g, s, e)
<1>1. /\ g \in Seq(AnyByte) /\ q \in Seq(AnyByte) /\ Len(q) \in Nat /\ s \in Nat /\ e \in Nat
      /\ \A i \in 1..Len(q) : g[i] = q[i] /\ q[i] \in AnyByte
  BY AppendByte DEF Bytes
<1>2. \A i \in s..e : i \in 1..Len(q)
  BY <1>1
<1>3. \A i \in s..e : g[i] = q[i] /\ g[i] \in AnyByte /\ q[i] \in AnyByte
  BY <1>1, <1>2
<1> HIDE DEF g
<1>4. /\ u \in Seq(AnyByte) /\ Len(u) = IF s <= e THEN e - s + 1 ELSE 0
      /\ \A i \in 1..(e - s + 1) : u[i] = q[s + i - 1]
  BY <1>1, <1>3, SubSeqProperties
<1>5. /\ v \in Seq(AnyByte) /\ Len(v) = IF s <= e THEN e - s + 1 ELSE 0
      /\ \A i \in 1..(e - s + 1) : v[i] = g[s + i - 1]
  BY <1>1, <1>3, SubSeqProperties
<1> HIDE DEF u, v
<1>6. \A i \in 1..Len(u) : u[i] = v[i]
  <2> SUFFICES ASSUME NEW i \in 1..Len(u) PROVE u[i] = v[i]
    OBVIOUS
  <2>1. i \in 1..(e - s + 1) /\ s + i - 1 \in s..e
    BY <1>1, <1>4
  <2> QED
    BY <1>3, <1>4, <1>5, <2>1
<1> QED
  BY <1>4, <1>5, <1>6, SeqEqual DEF u, v, g

LEMMA OpensStays ==
  ASSUME NEW q \in Bytes, NEW b \in AnyByte, NEW s, Opens(q, s)
  PROVE  /\ Opens(Append(q, b), s)
         /\ \A e : Closes(q, s, e) => Closes(Append(q, b), s, e)
<1> DEFINE D == Delimiters(q)
           G == Delimiters(Append(q, b))
<1>1. /\ Len(q) \in Nat /\ D \in SUBSET (1..Len(q))
      /\ G = D \cup (IF b = Delimiter THEN {Len(q) + 1} ELSE {})
  BY DelimitersGrow, AppendByte
<1> HIDE DEF D, G
<1>2. /\ D \subseteq G
      /\ \A j \in G : j \in D \/ j = Len(q) + 1
      /\ \A j \in D : j \in Nat /\ j <= Len(q) + 1
  BY <1>1
<1>3. s \in D /\ \A j \in D : s <= j
  BY DEF Opens, D
<1>4. s \in G /\ \A j \in G : s <= j
  BY <1>2, <1>3
<1>5. ASSUME NEW e, Closes(q, s, e) PROVE Closes(Append(q, b), s, e)
  <2>1. e \in D /\ s < e /\ \A j \in D : s < j => e <= j
    BY <1>5 DEF Closes, D
  <2>2. e \in G /\ \A j \in G : s < j => e <= j
    BY <1>2, <2>1
  <2> QED
    BY <2>1, <2>2 DEF Closes, G
<1> QED
  BY <1>4, <1>5 DEF Opens, G

(* One byte more: noise goes on or a frame begins; a frame goes on, is     *)
(* complete or does not fit; what comes after that is left in the ring.    *)
LEMMA ReaderStepReads ==
  ASSUME NEW q \in Bytes, NEW b \in AnyByte, NEW c \in FrameCapacities,
         NEW r, ReadsSoFar(r, q, c)
  PROVE  ReadsSoFar(ReaderStep(r, b, c), Append(q, b), c)
<1> DEFINE g == Append(q, b)
           n == Len(q)
           t == ReaderStep(r, b, c)
           D == Delimiters(q)
           G == Delimiters(g)
<1>1. c \in Nat \ {0}
  BY FrameAssumption DEF FrameCapacities, MaxEncoded
<1>2. /\ g \in Bytes /\ n \in Nat /\ Len(g) = n + 1 /\ D \in SUBSET (1..n)
      /\ G = D \cup (IF b = Delimiter THEN {n + 1} ELSE {})
  BY AppendByte, DelimitersGrow
<1>3. \A k \in 1..(n + 1) :
        /\ SubSeq(g, k, n + 1) = Append(SubSeq(q, k, n), b)
        /\ SubSeq(q, k, n) \in Bytes /\ Len(SubSeq(q, k, n)) = n + 1 - k
  BY SuffixGrows
<1>4. \A k \in Nat : n + 1 < k => SubSeq(g, k, n + 1) = <<>>
  BY <1>2, NothingBehind
<1>5. \A s : Opens(q, s) => Opens(g, s) /\ \A e : Closes(q, s, e) => Closes(g, s, e)
  BY OpensStays
<1>6. \A s, e \in 1..n : SubSeq(g, s, e) = SubSeq(q, s, e)
  BY SliceStays
<1>7. SubSeq(q, n + 1, n) = <<>>
  BY <1>2, NothingBehind
<1> HIDE DEF g, n, t, D, G
<1>8. CASE ReadsNoise(r, q)
  <2>1. r = [status |-> "READING", frame |-> <<>>, rest |-> <<>>] /\ D = {}
    BY <1>8 DEF ReadsNoise, D
  <2>2. CASE b = Delimiter
    <3>1. t = [status |-> "READING", frame |-> <<b>>, rest |-> <<>>]
      BY <2>1, <2>2 DEF t, ReaderStep
    <3>2. G = {n + 1} /\ n + 1 \in 1..Len(g) /\ Len(g) < (n + 1) + c
      BY <1>1, <1>2, <2>1, <2>2
    <3>3. n + 1 \in 1..(n + 1)
      BY <1>2
    <3>4. SubSeq(g, n + 1, Len(g)) = Append(<<>>, b)
      BY <1>2, <1>3, <1>7, <3>3
    <3>5. SubSeq(g, n + 1, Len(g)) = <<b>>
      BY <3>4
    <3>6. ReadsFrame(t, g, c)
      BY <3>1, <3>2, <3>5 DEF ReadsFrame, G
    <3> QED
      BY <3>6 DEF ReadsSoFar, t, g
  <2>3. CASE b # Delimiter
    <3>1. t = r /\ G = {}
      BY <1>2, <2>1, <2>3 DEF t, ReaderStep
    <3>2. ReadsNoise(t, g)
      BY <2>1, <3>1 DEF ReadsNoise, G
    <3> QED
      BY <3>2 DEF ReadsSoFar, t, g
  <2> QED
    BY <2>2, <2>3
<1>9. CASE ReadsFrame(r, q, c)
  <2>1. PICK s \in 1..n :
          /\ D = {s} /\ n < s + c
          /\ r = [status |-> "READING", frame |-> SubSeq(q, s, n), rest |-> <<>>]
    BY <1>9 DEF ReadsFrame, D, n
  <2>2. s \in Nat /\ s >= 1 /\ s <= n /\ s \in 1..(n + 1) /\ s \in 1..Len(g) /\ n + 1 \in 1..Len(g)
    BY <1>2, <2>1
  <2> DEFINE f == SubSeq(q, s, n)
  <2>3. f \in Bytes /\ Len(f) = n + 1 - s /\ f # <<>> /\ SubSeq(g, s, n + 1) = Append(f, b)
    <3>1. f \in Bytes /\ Len(f) = n + 1 - s /\ SubSeq(g, s, n + 1) = Append(f, b)
      BY <1>3, <2>2
    <3>2. n + 1 - s # 0
      BY <1>2, <2>2
    <3> HIDE DEF f
    <3> QED
      BY <3>1, <3>2, EmptyBytes
  <2>4. Opens(g, s)
    <3>1. Opens(q, s)
      BY <2>1, <2>2 DEF Opens, D
    <3> QED
      BY <1>5, <3>1
  <2> HIDE DEF f
  <2>5. r = [status |-> "READING", frame |-> f, rest |-> <<>>]
    BY <2>1 DEF f
  <2>6. CASE Len(f) >= c
    <3>1. t = [status |-> "INVALID_FRAME", frame |-> f, rest |-> <<>>]
      BY <2>3, <2>5, <2>6 DEF t, ReaderStep
    <3>2. s + c = n + 1
      BY <1>1, <1>2, <2>1, <2>2, <2>3, <2>6
    <3>3. \A j \in G : s < j => s + c <= j
      <4>1. \A j \in G : j = s \/ j = n + 1
        BY <1>2, <2>1
      <4> QED
        BY <1>2, <2>2, <3>2, <4>1
    <3>4. SubSeq(g, s + c + 1, Len(g)) = <<>>
      <4>1. s + c + 1 \in Nat /\ n + 1 < s + c + 1
        BY <1>2, <3>2
      <4> QED
        BY <1>2, <1>4, <4>1
    <3>5. s + c <= Len(g)
      BY <1>2, <3>2
    <3>6. HasLost(t, g, c)
      BY <2>2, <2>3, <2>4, <3>1, <3>3, <3>4, <3>5 DEF HasLost, G
    <3> QED
      BY <3>6 DEF ReadsSoFar, t, g
  <2>7. CASE ~(Len(f) >= c)
    <3>1. n + 1 < s + c
      BY <1>1, <1>2, <2>2, <2>3, <2>7
    <3>2. CASE b = Delimiter
      <4>1. t = [status |-> "OK", frame |-> Append(f, b), rest |-> <<>>]
        BY <2>3, <2>5, <2>7, <3>2 DEF t, ReaderStep
      <4>2. G = {s, n + 1} /\ s < n + 1
        BY <1>2, <2>1, <2>2, <3>2
      <4>3. Closes(g, s, n + 1)
        BY <2>2, <4>2 DEF Closes, G
      <4>4. SubSeq(g, (n + 1) + 1, Len(g)) = <<>>
        <5>1. (n + 1) + 1 \in Nat /\ n + 1 < (n + 1) + 1
          BY <1>2
        <5> QED
          BY <1>2, <1>4, <5>1
      <4>5. HasRead(t, g, c)
        BY <2>2, <2>3, <2>4, <3>1, <4>1, <4>3, <4>4 DEF HasRead
      <4> QED
        BY <4>5 DEF ReadsSoFar, t, g
    <3>3. CASE b # Delimiter
      <4>1. t = [status |-> "READING", frame |-> Append(f, b), rest |-> <<>>]
        BY <2>3, <2>5, <2>7, <3>3 DEF t, ReaderStep
      <4>2. G = {s} /\ Len(g) < s + c /\ SubSeq(g, s, Len(g)) = Append(f, b)
        BY <1>2, <2>1, <2>3, <3>1, <3>3
      <4>3. ReadsFrame(t, g, c)
        BY <2>2, <4>1, <4>2 DEF ReadsFrame, G
      <4> QED
        BY <4>3 DEF ReadsSoFar, t, g
    <3> QED
      BY <3>2, <3>3
  <2> QED
    BY <2>6, <2>7
<1>10. CASE HasRead(r, q, c)
  <2>1. PICK s \in 1..n, e \in 1..n :
          /\ Opens(q, s) /\ Closes(q, s, e) /\ e < s + c
          /\ r = [status |-> "OK", frame |-> SubSeq(q, s, e), rest |-> SubSeq(q, e + 1, n)]
    BY <1>10 DEF HasRead, n
  <2>2. t = [status |-> "OK", frame |-> SubSeq(q, s, e), rest |-> Append(SubSeq(q, e + 1, n), b)]
    BY <2>1 DEF t, ReaderStep
  <2>3. s \in 1..Len(g) /\ e \in 1..Len(g) /\ e + 1 \in 1..(n + 1)
    BY <1>2, <2>1
  <2>4. /\ SubSeq(g, s, e) = SubSeq(q, s, e)
        /\ SubSeq(g, e + 1, Len(g)) = Append(SubSeq(q, e + 1, n), b)
    BY <1>2, <1>3, <1>6, <2>1, <2>3
  <2>5. Opens(g, s) /\ Closes(g, s, e)
    BY <1>5, <2>1
  <2>6. HasRead(t, g, c)
    BY <2>1, <2>2, <2>3, <2>4, <2>5 DEF HasRead
  <2> QED
    BY <2>6 DEF ReadsSoFar, t, g
<1>11. CASE HasLost(r, q, c)
  <2>1. PICK s \in 1..n, f \in Bytes :
          /\ Opens(q, s) /\ s + c <= n /\ \A j \in D : s < j => s + c <= j
          /\ r = [status |-> "INVALID_FRAME", frame |-> f, rest |-> SubSeq(q, s + c + 1, n)]
    BY <1>11 DEF HasLost, n, D
  <2>2. t = [status |-> "INVALID_FRAME", frame |-> f,
             rest |-> Append(SubSeq(q, s + c + 1, n), b)]
    BY <2>1 DEF t, ReaderStep
  <2>3. s \in 1..Len(g) /\ s + c + 1 \in 1..(n + 1) /\ s + c <= Len(g)
    BY <1>1, <1>2, <2>1
  <2>4. SubSeq(g, s + c + 1, Len(g)) = Append(SubSeq(q, s + c + 1, n), b)
    BY <1>2, <1>3, <2>3
  <2>5. \A j \in G : s < j => s + c <= j
    <3>1. \A j \in G : j \in D \/ j = n + 1
      BY <1>2
    <3>2. s + c <= n + 1
      BY <1>2, <2>3
    <3> QED
      BY <2>1, <3>1, <3>2
  <2>6. Opens(g, s)
    BY <1>5, <2>1
  <2>7. HasLost(t, g, c)
    BY <2>1, <2>2, <2>3, <2>4, <2>5, <2>6 DEF HasLost, G
  <2> QED
    BY <2>7 DEF ReadsSoFar, t, g
<1> QED
  BY <1>8, <1>9, <1>10, <1>11 DEF ReadsSoFar

LEMMA ReaderReads ==
  ASSUME line \in Bytes, ReaderInv, NEW b \in AnyByte, NextByte(b)
  PROVE  ReaderInv'
<1>1. /\ line' = Append(line, b)
      /\ \A c \in FrameCapacities : reader'[c] = ReaderStep(reader[c], b, c)
  BY DEF NextByte
<1>2. \A c \in FrameCapacities : ReadsSoFar(reader'[c], line', c)
  BY <1>1, ReaderStepReads DEF ReaderInv
<1>3. FrameCapacities' = FrameCapacities
  BY DEF FrameCapacities, MaxEncoded
<1> QED
  BY <1>2 DEF ReaderInv

-----------------------------------------------------------------------------
(* The decoder.                                                            *)

LEMMA NthGrows ==
  ASSUME NEW n \in Nat, NEW S \in SUBSET (1..n)
  PROVE  /\ IsFiniteSet(S) /\ Cardinality(S) \in Nat
         /\ Cardinality(S \cup {n + 1}) = Cardinality(S) + 1
         /\ \A i \in 1..Cardinality(S) : Nth(S \cup {n + 1}, i) = Nth(S, i) /\ Nth(S, i) \in S
         /\ Nth(S \cup {n + 1}, Cardinality(S) + 1) = n + 1
<1> DEFINE x == n + 1
           T == S \cup {x}
<1>1. /\ S \in SUBSET Nat /\ x \in Nat /\ x \notin S /\ T \in SUBSET Nat
      /\ \A k \in S : k <= n /\ k \in Nat /\ ~(x <= k) /\ k <= x
  <2>1. \A k \in S : k \in Nat /\ k <= n /\ ~(x <= k) /\ k <= x /\ k # x
    OBVIOUS
  <2> QED
    BY <2>1
<1>2. IsFiniteSet(S) /\ Cardinality(S) \in Nat
  <2>1. IsFiniteSet(1..n)
    BY FS_Interval
  <2> QED
    BY <2>1, FS_Subset, FS_CardinalityType
<1> HIDE DEF x
<1>3. Cardinality(T) = Cardinality(S) + 1
  BY <1>1, <1>2, FS_AddElement
<1>4. ASSUME NEW i \in 1..Cardinality(S) PROVE Nth(T, i) = Nth(S, i) /\ Nth(S, i) \in S
  <2> DEFINE k == Nth(S, i)
  <2>1. k \in S /\ Cardinality(UpTo(S, k)) = i
    BY NthProperties
  <2> HIDE DEF k
  <2>2. UpTo(T, k) = UpTo(S, k)
    BY <1>1, <2>1 DEF UpTo
  <2>3. k \in T
    BY <2>1
  <2> HIDE DEF T
  <2>4. Nth(T, Cardinality(UpTo(T, k))) = k
    BY <1>1, <2>3, NthRank
  <2> QED
    BY <2>1, <2>2, <2>4 DEF k
<1>5. Nth(T, Cardinality(S) + 1) = x
  <2>0. x \in T /\ \A j \in T : j <= x
    BY <1>1
  <2> HIDE DEF T
  <2>1. UpTo(T, x) = T /\ x \in T
    BY <2>0 DEF UpTo
  <2>2. Nth(T, Cardinality(UpTo(T, x))) = x
    BY <1>1, <2>1, NthRank
  <2> QED
    BY <1>3, <2>1, <2>2
<1> QED
  BY <1>2, <1>3, <1>4, <1>5 DEF x

(* The positions the decoder has come to, and the one it comes to next.    *)
LEMMA InteriorGrows ==
  ASSUME NEW f \in Bytes, NEW b \in AnyByte, Len(f) >= 2
  PROVE  LET g == Append(f, b)
             n == Len(f)
         IN  /\ n \in Nat /\ g \in Bytes /\ Len(g) = n + 1
             /\ \A k \in 1..n : g[k] = f[k] /\ f[k] \in AnyByte
             /\ Interior(f) = 2..(n - 1) /\ Interior(g) = 2..n
             /\ Interior(g) = Interior(f) \cup {n} /\ n \notin Interior(f)
             /\ Stops(g) = Stops(f)
                  \cup (IF Pending(f) /\ ~RequiresEscape(FlipBit5(f[n])) THEN {n - 1} ELSE {})
                  \cup (IF f[n] = Delimiter THEN {n} ELSE {})
<1> DEFINE g == Append(f, b)
           n == Len(f)
           bad == Pending(f) /\ ~RequiresEscape(FlipBit5(f[n]))
<1>1. /\ n \in Nat /\ g \in Bytes /\ Len(g) = n + 1
      /\ \A k \in 1..n : g[k] = f[k] /\ f[k] \in AnyByte
  BY AppendByte
<1>2. n >= 2 /\ Interior(f) = 2..(n - 1) /\ Interior(g) = 2..((n + 1) - 1)
  BY <1>1 DEF Interior
<1>3. Interior(g) = 2..n
  BY <1>1, <1>2
<1>4. bad <=> n >= 3 /\ f[n - 1] = Escape /\ ~RequiresEscape(FlipBit5(f[n]))
  BY DEF Pending
<1> HIDE DEF g, n, bad
<1>5. Interior(g) = Interior(f) \cup {n} /\ n \notin Interior(f)
  BY <1>1, <1>2, <1>3
<1>6. n \in Stops(g) <=> f[n] = Delimiter
  <2>1. n \in Interior(g) /\ n + 1 \notin Interior(g) /\ g[n] = f[n]
    BY <1>1, <1>2, <1>3
  <2> QED
    BY <2>1 DEF Stops, StopsAt
<1>7. ASSUME NEW k \in Interior(f) PROVE k \in Stops(g) <=> k \in Stops(f) \/ (bad /\ k = n - 1)
  <2>1. k \in Nat /\ k >= 2 /\ k <= n - 1 /\ k \in Interior(g) /\ k + 1 \in Interior(g)
        /\ k \in 1..n /\ k + 1 \in 1..n
    BY <1>1, <1>2, <1>3
  <2>2. g[k] = f[k] /\ g[k + 1] = f[k + 1]
    BY <1>1, <2>1
  <2>3. CASE k = n - 1
    <3>1. k + 1 \notin Interior(f) /\ k + 1 = n /\ n >= 3
      BY <1>1, <1>2, <2>1, <2>3
    <3>2. k \in Stops(f) <=> f[k] = Delimiter
      BY <3>1 DEF Stops, StopsAt
    <3>3. k \in Stops(g) <=> f[k] = Delimiter \/ (f[k] = Escape /\ ~RequiresEscape(FlipBit5(f[n])))
      BY <2>1, <2>2, <3>1 DEF Stops, StopsAt
    <3>4. bad <=> f[k] = Escape /\ ~RequiresEscape(FlipBit5(f[n]))
      BY <1>4, <2>3, <3>1
    <3> QED
      BY <2>3, <3>2, <3>3, <3>4
  <2>4. CASE k # n - 1
    <3>1. k + 1 \in Interior(f)
      BY <1>1, <1>2, <2>1, <2>4
    <3> QED
      BY <2>1, <2>2, <2>4, <3>1 DEF Stops, StopsAt
  <2> QED
    BY <2>3, <2>4
<1>8. bad => n - 1 \in Interior(f)
  BY <1>1, <1>2, <1>4
<1>9. Stops(g) = Stops(f) \cup (IF bad THEN {n - 1} ELSE {}) \cup (IF f[n] = Delimiter THEN {n} ELSE {})
  <2>1. Stops(g) \subseteq Interior(g) /\ Stops(f) \subseteq Interior(f)
    BY DEF Stops
  <2>2. \A k : k \in Stops(g) <=>
               k \in Stops(f) \/ (bad /\ k = n - 1) \/ (f[n] = Delimiter /\ k = n)
    BY <1>5, <1>6, <1>7, <1>8, <2>1
  <2> QED
    BY <2>2
<1> QED
  BY <1>1, <1>2, <1>3, <1>5, <1>9 DEF g, n, bad

(* An escape that is cut off hides no value.                               *)
LEMMA ValuesBeforeStop ==
  ASSUME NEW f \in Bytes
  PROVE  /\ ValuePositions(f) = {k \in Interior(f) : f[k] # Escape /\ \A s \in Stops(f) : k < s}
         /\ Broken(f) = {} <=> Stops(f) = {} /\ ~Pending(f)
         /\ ValuePositions(f) \in SUBSET (1..Len(f)) /\ Len(f) \in Nat
<1> DEFINE n == Len(f)
<1>1. n \in Nat /\ Interior(f) = 2..(n - 1)
  BY EmptyBytes DEF Interior
<1> HIDE DEF n
<1>2. ASSUME NEW k \in Interior(f)
      PROVE  k \in Broken(f) <=> k \in Stops(f) \/ (f[k] = Escape /\ k = n - 1)
  <2>1. k + 1 \notin Interior(f) <=> k = n - 1
    BY <1>1
  <2> QED
    BY <2>1 DEF Broken, BrokenAt, Stops, StopsAt
<1>3. Broken(f) \subseteq Interior(f) /\ Stops(f) \subseteq Interior(f)
  BY DEF Broken, Stops
<1>4. ASSUME NEW k \in Interior(f), f[k] # Escape
      PROVE  (\A s \in Broken(f) : k < s) <=> (\A s \in Stops(f) : k < s)
  <2>1. ASSUME NEW s \in Broken(f), s \notin Stops(f) PROVE k < s
    <3>1. f[s] = Escape /\ s = n - 1
      BY <1>2, <1>3, <2>1
    <3>2. k # n - 1 /\ k <= n - 1 /\ k \in Nat
      BY <1>1, <1>4, <3>1
    <3> QED
      BY <1>1, <3>1, <3>2
  <2>2. Stops(f) \subseteq Broken(f)
    BY <1>2, <1>3
  <2> QED
    BY <2>1, <2>2
<1>5. ValuePositions(f) = {k \in Interior(f) : f[k] # Escape /\ \A s \in Stops(f) : k < s}
  BY <1>4 DEF ValuePositions
<1>6. Pending(f) <=> n - 1 \in Interior(f) /\ f[n - 1] = Escape
  BY <1>1 DEF Pending, n
<1>7. Broken(f) = {} <=> Stops(f) = {} /\ ~Pending(f)
  BY <1>2, <1>3, <1>6
<1>8. ValuePositions(f) \in SUBSET (1..n)
  <2>1. Interior(f) \subseteq 1..n
    BY <1>1
  <2> QED
    BY <1>5, <2>1
<1> QED
  BY <1>1, <1>5, <1>7, <1>8 DEF n

LEMMA ValuesTyped ==
  ASSUME NEW f \in Bytes
  PROVE  /\ ValueCount(f) \in Nat /\ IsFiniteSet(ValuePositions(f))
         /\ Values(f) \in Bytes /\ Len(Values(f)) = ValueCount(f)
         /\ \A i \in 1..ValueCount(f) :
              /\ Nth(ValuePositions(f), i) \in ValuePositions(f)
              /\ Values(f)[i] = DecodedByte(f, Nth(ValuePositions(f), i))
<1> DEFINE at == ValuePositions(f)
           m == ValueCount(f)
<1>1. at \in SUBSET (1..Len(f)) /\ Len(f) \in Nat /\ \A i \in 1..Len(f) : f[i] \in AnyByte
  BY ValuesBeforeStop, ElementOfSeq DEF Bytes
<1>2. Values(f) = [i \in 1..m |-> DecodedByte(f, Nth(at, i))] /\ m = Cardinality(at)
  BY DEF Values, ValueCount
<1> HIDE DEF at, m
<1>3. m \in Nat /\ IsFiniteSet(at) /\ \A i \in 1..m : Nth(at, i) \in at
  BY <1>1, <1>2, NthGrows
<1>4. \A i \in 1..m : DecodedByte(f, Nth(at, i)) \in AnyByte
  BY <1>1, <1>3, DecodedByteType
<1>5. Values(f) \in Bytes /\ Len(Values(f)) = m
  BY <1>2, <1>3, <1>4 DEF Bytes
<1> QED
  BY <1>2, <1>3, <1>5 DEF at, m

(* No value is added behind a stop, and none at an escape.                 *)
LEMMA ValuePositionsGrow ==
  ASSUME NEW f \in Bytes, NEW b \in AnyByte, Len(f) >= 2
  PROVE  LET g == Append(f, b)
             n == Len(f)
         IN  ValuePositions(g) = ValuePositions(f)
               \cup (IF Stops(g) = {} /\ f[n] # Escape THEN {n} ELSE {})
<1> DEFINE g == Append(f, b)
           n == Len(f)
           bad == Pending(f) /\ ~RequiresEscape(FlipBit5(f[n]))
           new == Stops(g) = {} /\ f[n] # Escape
<1>1. /\ n \in Nat /\ n >= 2 /\ g \in Bytes
      /\ \A k \in 1..n : g[k] = f[k]
      /\ Interior(f) = 2..(n - 1) /\ Interior(g) = 2..n
      /\ Interior(g) = Interior(f) \cup {n} /\ n \notin Interior(f)
      /\ Stops(g) = Stops(f) \cup (IF bad THEN {n - 1} ELSE {})
                      \cup (IF f[n] = Delimiter THEN {n} ELSE {})
  BY InteriorGrows
<1>2. /\ ValuePositions(f) = {k \in Interior(f) : f[k] # Escape /\ \A s \in Stops(f) : k < s}
      /\ ValuePositions(g) = {k \in Interior(g) : g[k] # Escape /\ \A s \in Stops(g) : k < s}
  BY <1>1, ValuesBeforeStop
<1>3. bad => f[n - 1] = Escape
  BY DEF Pending
<1>4. Stops(f) \subseteq Interior(f)
  BY DEF Stops
<1> HIDE DEF g, n, bad
<1>5. ASSUME NEW k \in Interior(f) PROVE k \in ValuePositions(g) <=> k \in ValuePositions(f)
  <2>1. k \in Nat /\ k <= n - 1 /\ k \in 1..n /\ k \in Interior(g) /\ g[k] = f[k]
    BY <1>1
  <2>2. Stops(f) \subseteq Stops(g)
    BY <1>1
  <2>3. ASSUME k \in ValuePositions(f), NEW s \in Stops(g), s \notin Stops(f) PROVE k < s
    <3>1. (bad /\ s = n - 1) \/ s = n
      BY <1>1, <2>3
    <3>2. f[k] # Escape
      BY <1>2, <2>3
    <3>3. s = n - 1 /\ bad => k # n - 1
      BY <1>3, <3>2
    <3> QED
      BY <1>1, <2>1, <3>1, <3>3
  <2>4. k \in ValuePositions(f) => \A s \in Stops(g) : k < s
    BY <1>2, <2>3
  <2> QED
    BY <1>2, <2>1, <2>2, <2>4
<1>6. n \in ValuePositions(g) <=> new
  <2>1. n \in Interior(g) /\ g[n] = f[n]
    BY <1>1
  <2>2. \A s \in Stops(g) : ~(n < s)
    <3> SUFFICES ASSUME NEW s \in Stops(g) PROVE ~(n < s)
      OBVIOUS
    <3>1. s \in Interior(g)
      BY DEF Stops
    <3> QED
      BY <1>1, <3>1
  <2> QED
    BY <1>2, <2>1, <2>2
<1>7. ValuePositions(g) \subseteq Interior(g) /\ ValuePositions(f) \subseteq Interior(f)
  BY <1>2
<1> HIDE DEF new
<1>8. ValuePositions(g) = ValuePositions(f) \cup (IF new THEN {n} ELSE {})
  <2>1. \A k : k \in ValuePositions(g) <=> k \in ValuePositions(f) \/ (new /\ k = n)
    BY <1>1, <1>5, <1>6, <1>7
  <2> QED
    BY <2>1
<1> QED
  BY <1>8 DEF g, n, new

(* The decoded data grow by the value that ends at the new position.       *)
LEMMA ValuesGrow ==
  ASSUME NEW f \in Bytes, NEW b \in AnyByte, Len(f) >= 2
  PROVE  LET g == Append(f, b)
             n == Len(f)
             new == Stops(g) = {} /\ f[n] # Escape
         IN  /\ new => /\ ValueCount(g) = ValueCount(f) + 1
                       /\ Values(g) = Append(Values(f), DecodedByte(f, n))
             /\ ~new => ValueCount(g) = ValueCount(f) /\ Values(g) = Values(f)
<1> DEFINE g == Append(f, b)
           n == Len(f)
           new == Stops(g) = {} /\ f[n] # Escape
           V == ValuePositions(f)
           W == ValuePositions(g)
           m == ValueCount(f)
<1>1. /\ n \in Nat /\ n >= 2 /\ g \in Bytes
      /\ \A k \in 1..n : g[k] = f[k] /\ f[k] \in AnyByte
      /\ Interior(f) = 2..(n - 1)
  BY InteriorGrows
<1>2. W = V \cup (IF new THEN {n} ELSE {})
  BY ValuePositionsGrow
<1>3. V \in SUBSET (1..(n - 1)) /\ V \subseteq 2..(n - 1)
  <2>1. V \subseteq Interior(f)
    BY DEF ValuePositions
  <2>2. 2..(n - 1) \subseteq 1..(n - 1)
    BY <1>1
  <2> QED
    BY <1>1, <2>1, <2>2
<1>4. /\ m \in Nat /\ m = Cardinality(V)
      /\ Values(f) \in Bytes /\ Len(Values(f)) = m
      /\ \A i \in 1..m : Nth(V, i) \in V /\ Values(f)[i] = DecodedByte(f, Nth(V, i))
  BY ValuesTyped DEF ValueCount
<1>5. /\ ValueCount(g) = Cardinality(W)
      /\ Values(g) \in Bytes /\ Len(Values(g)) = ValueCount(g)
      /\ \A i \in 1..ValueCount(g) : Values(g)[i] = DecodedByte(g, Nth(W, i))
  BY <1>1, ValuesTyped DEF ValueCount
<1>6. \A k \in 2..n : DecodedByte(g, k) = DecodedByte(f, k)
  <2> SUFFICES ASSUME NEW k \in 2..n PROVE DecodedByte(g, k) = DecodedByte(f, k)
    OBVIOUS
  <2>1. k \in 1..n /\ k - 1 \in 1..n
    BY <1>1
  <2>2. g[k] = f[k] /\ g[k - 1] = f[k - 1]
    BY <1>1, <2>1
  <2> QED
    BY <2>2 DEF DecodedByte
<1> HIDE DEF g, n, new, V, W, m
<1>7. \A i \in 1..m : DecodedByte(g, Nth(V, i)) = DecodedByte(f, Nth(V, i))
  <2>1. \A k \in V : k \in 2..n
    BY <1>1, <1>3
  <2> QED
    BY <1>4, <1>6, <2>1
<1>8. CASE ~new
  <2>1. W = V
    BY <1>2, <1>8
  <2>2. ValueCount(g) = m
    BY <1>4, <1>5, <2>1
  <2>3. \A i \in 1..m : Values(g)[i] = Values(f)[i]
    BY <1>4, <1>5, <1>7, <2>1, <2>2
  <2>4. Values(g) = Values(f)
    BY <1>4, <1>5, <2>2, <2>3, SeqEqual DEF Bytes
  <2> QED
    BY <1>8, <2>2, <2>4 DEF new, g, n, m
<1>9. CASE new
  <2> DEFINE v == DecodedByte(f, n)
             w == Append(Values(f), v)
  <2>1. W = V \cup {(n - 1) + 1} /\ (n - 1) + 1 = n /\ n - 1 \in Nat
    BY <1>1, <1>2, <1>9
  <2>2. /\ Cardinality(W) = m + 1
        /\ \A i \in 1..m : Nth(W, i) = Nth(V, i)
        /\ Nth(W, m + 1) = n
    BY <1>3, <1>4, <2>1, NthGrows
  <2>3. v \in AnyByte
    <3>1. n \in 1..n
      BY <1>1
    <3> QED
      BY <1>1, <3>1, DecodedByteType
  <2> HIDE DEF v
  <2>4. /\ w \in Bytes /\ Len(w) = m + 1
        /\ \A i \in 1..m : w[i] = Values(f)[i]
        /\ w[m + 1] = v
    <3> DEFINE u == Values(f)
    <3>1. u \in Bytes /\ Len(u) = m /\ w = Append(u, v)
      BY <1>4
    <3> HIDE DEF u, w
    <3>2. /\ Append(u, v) \in Bytes /\ Len(Append(u, v)) = Len(u) + 1
          /\ \A i \in 1..Len(u) : Append(u, v)[i] = u[i]
          /\ Append(u, v)[Len(u) + 1] = v
      BY <2>3, <3>1, AppendByte
    <3> QED
      BY <3>1, <3>2 DEF u
  <2>5. DecodedByte(g, n) = v
    BY <1>1, <1>6 DEF v
  <2>6. \A i \in 1..(m + 1) : Values(g)[i] = w[i]
    <3> SUFFICES ASSUME NEW i \in 1..(m + 1) PROVE Values(g)[i] = w[i]
      OBVIOUS
    <3>1. Values(g)[i] = DecodedByte(g, Nth(W, i))
      BY <1>5, <2>2
    <3>2. CASE i = m + 1
      BY <2>2, <2>4, <2>5, <3>1, <3>2
    <3>3. CASE i # m + 1
      <4>1. i \in 1..m
        BY <1>4, <3>3
      <4> QED
        BY <1>4, <1>7, <2>2, <2>4, <3>1, <4>1
    <3> QED
      BY <3>2, <3>3
  <2> HIDE DEF w
  <2>7. Values(g) = w
    BY <1>5, <2>2, <2>4, <2>6, SeqEqual DEF Bytes
  <2>8. ValueCount(g) = m + 1
    BY <1>5, <2>2
  <2> QED
    BY <1>9, <2>7, <2>8 DEF new, g, n, m, w, v
<1> QED
  BY <1>8, <1>9

(* A byte that is an escaped delimiter or escape is neither of the two.    *)
LEMMA EscapedIsPlain ==
  ASSUME NEW b \in AnyByte, RequiresEscape(FlipBit5(b))
  PROVE  b # Delimiter /\ b # Escape
<1>1. FlipBit5(126) = 94 /\ FlipBit5(125) = 93
  BY DEF FlipBit5
<1> QED
  BY <1>1 DEF RequiresEscape, Delimiter, Escape

(* What storing a value makes of a loop whose data are complete so far.    *)
LEMMA StoreDecodes ==
  ASSUME NEW f \in Bytes, NEW g \in Bytes, NEW c \in Capacities, NEW v, NEW e \in BOOLEAN,
         NEW d, d = [status |-> "OK", escaped |-> e, data |-> Values(f)],
         ValueCount(f) <= c, Stops(g) = {}, ~Pending(g),
         ValueCount(g) = ValueCount(f) + 1, Values(g) = Append(Values(f), v)
  PROVE  DecodesSoFar(StoreValue(d, v, c), g, c)
<1> DEFINE m == ValueCount(f)
           t == StoreValue(d, v, c)
<1>1. m \in Nat /\ Len(d.data) = m /\ d.data = Values(f)
  BY ValuesTyped
<1>2. QueueCapacity \in Nat /\ c \in Nat /\ c <= QueueCapacity
  BY FrameAssumption DEF Capacities
<1>3. ValueCount(g) = m + 1
  OBVIOUS
<1> HIDE DEF m, t
<1>4. CASE m >= QueueCapacity
  <2>1. t.status = "INVALID_FRAME"
    BY <1>1, <1>4 DEF t, StoreValue
  <2>2. c = QueueCapacity /\ ValueCount(g) > c
    BY <1>1, <1>2, <1>3, <1>4 DEF m
  <2> QED
    BY <2>1, <2>2 DEF DecodesSoFar, t
<1>5. CASE ~(m >= QueueCapacity) /\ m >= c
  <2>1. t.status = "INVALID_ARGUMENT"
    BY <1>1, <1>5 DEF t, StoreValue
  <2>2. c < QueueCapacity /\ ValueCount(g) > c
    BY <1>1, <1>2, <1>3, <1>5
  <2> QED
    BY <2>1, <2>2 DEF DecodesSoFar, t
<1>6. CASE ~(m >= QueueCapacity) /\ ~(m >= c)
  <2>1. t = [d EXCEPT !.data = Append(d.data, v), !.escaped = FALSE]
    BY <1>1, <1>6 DEF t, StoreValue
  <2>2. t = [status |-> "OK", escaped |-> FALSE, data |-> Append(Values(f), v)]
    BY <1>1, <2>1
  <2>3. Pending(g) = FALSE
    BY DEF Pending
  <2>4. ValueCount(g) <= c
    BY <1>1, <1>2, <1>3, <1>6
  <2> QED
    BY <2>2, <2>3, <2>4 DEF DecodesSoFar, t
<1> QED
  BY <1>4, <1>5, <1>6

LEMMA DecoderStepDecodes ==
  ASSUME NEW f \in Bytes, NEW b \in AnyByte, NEW c \in Capacities, NEW d,
         Len(f) >= 2, f[1] = Delimiter, DecodesSoFar(d, f, c)
  PROVE  DecodesSoFar(DecoderStep(d, f[Len(f)], c), Append(f, b), c)
<1> DEFINE g == Append(f, b)
           n == Len(f)
           v == f[n]
           t == DecoderStep(d, v, c)
           bad == Pending(f) /\ ~RequiresEscape(FlipBit5(v))
           new == Stops(g) = {} /\ v # Escape
<1>1. /\ n \in Nat /\ n >= 2 /\ g \in Bytes /\ Len(g) = n + 1
      /\ \A k \in 1..n : g[k] = f[k] /\ f[k] \in AnyByte
      /\ Stops(g) = Stops(f) \cup (IF bad THEN {n - 1} ELSE {})
                      \cup (IF v = Delimiter THEN {n} ELSE {})
  BY InteriorGrows
<1>2. /\ new => /\ ValueCount(g) = ValueCount(f) + 1
                /\ Values(g) = Append(Values(f), DecodedByte(f, n))
      /\ ~new => ValueCount(g) = ValueCount(f) /\ Values(g) = Values(f)
  BY ValuesGrow
<1>3. v \in AnyByte /\ g[n] = v
  BY <1>1
<1>4. ValueCount(f) \in Nat /\ ValueCount(g) \in Nat /\ c \in Nat
  BY <1>1, ValuesTyped DEF Capacities
<1>5. Pending(g) <=> v = Escape
  <2>1. n + 1 >= 3 /\ (n + 1) - 1 = n
    BY <1>1
  <2> QED
    BY <1>1, <1>3, <2>1 DEF Pending
<1>6. DecodedByte(f, n) = IF f[n - 1] = Escape THEN FlipBit5(v) ELSE v
  BY DEF DecodedByte
<1>7. Delimiter # Escape
  BY DEF Delimiter, Escape
<1>8. Pending(f) <=> f[n - 1] = Escape
  <2>1. Pending(f) <=> n >= 3 /\ f[n - 1] = Escape
    BY DEF Pending
  <2>2. n = 2 => f[n - 1] # Escape
    BY <1>7
  <2>3. n = 2 \/ n >= 3
    BY <1>1
  <2> HIDE DEF n
  <2> QED
    BY <2>1, <2>2, <2>3
<1>9. d.status # "OK" => t = d
  BY DEF DecoderStep
<1> HIDE DEF g, n, v, bad, new
<1>10. CASE /\ d.status = "INVALID_FRAME"
            /\ Stops(f) # {} /\ ValueCount(f) <= c
  <2>1. Stops(g) # {} /\ ~new
    BY <1>1, <1>10 DEF new
  <2>2. t.status = "INVALID_FRAME" /\ ValueCount(g) <= c
    BY <1>2, <1>9, <1>10, <2>1
  <2> HIDE DEF t
  <2> QED
    BY <2>1, <2>2 DEF DecodesSoFar, t, g, v, n
<1>11. CASE d.status # "OK" /\ ValueCount(f) > c
  <2>1. ValueCount(g) > c
    BY <1>2, <1>4, <1>11
  <2>2. t = d
    BY <1>9, <1>11
  <2> HIDE DEF t
  <2>3. DecodesSoFar(t, g, c)
    BY <1>4, <1>11, <2>1, <2>2 DEF DecodesSoFar
  <2> QED
    BY <2>3 DEF t, g, v, n
<1>12. CASE /\ d = [status |-> "OK", escaped |-> Pending(f), data |-> Values(f)]
            /\ Stops(f) = {} /\ ValueCount(f) <= c
  <2>1. d.status = "OK" /\ d.escaped = Pending(f)
    BY <1>12
  <2>2. CASE Stops(g) # {}
    <3>1. ~new /\ (bad \/ v = Delimiter)
      BY <1>1, <1>12, <2>2 DEF new
    <3>2. v = Delimiter => ~RequiresEscape(FlipBit5(v))
      BY <1>3, EscapedIsPlain
    <3>3. t.status = "INVALID_FRAME"
      <4>1. CASE Pending(f)
        <5>1. ~RequiresEscape(FlipBit5(v))
          BY <3>1, <3>2 DEF bad
        <5>2. t = [d EXCEPT !.status = "INVALID_FRAME"]
          BY <2>1, <4>1, <5>1 DEF DecoderStep
        <5> QED
          BY <1>12, <5>2
      <4>2. CASE ~Pending(f)
        <5>1. v = Delimiter
          BY <3>1, <4>2 DEF bad
        <5>2. t = [d EXCEPT !.status = "INVALID_FRAME"]
          BY <2>1, <4>2, <5>1 DEF DecoderStep
        <5> QED
          BY <1>12, <5>2
      <4> QED
        BY <4>1, <4>2
    <3>4. ValueCount(g) <= c
      BY <1>2, <1>12, <3>1
    <3> HIDE DEF t
    <3>5. DecodesSoFar(t, g, c)
      BY <2>2, <3>3, <3>4 DEF DecodesSoFar
    <3> QED
      BY <3>5 DEF t, g, v, n
  <2>3. CASE Stops(g) = {}
    <3>1. ~bad /\ v # Delimiter
      BY <1>1, <2>3
    <3>2. CASE v = Escape
      <4>1. ~Pending(f)
        BY <1>3, <3>1, <3>2, EscapedIsPlain DEF bad
      <4>2. t = [d EXCEPT !.escaped = TRUE]
        BY <2>1, <3>1, <3>2, <4>1 DEF DecoderStep
      <4>3. Pending(g) = TRUE
        BY <1>5, <3>2 DEF Pending
      <4>4. Values(g) = Values(f) /\ ValueCount(g) <= c
        BY <1>2, <1>12, <3>2 DEF new
      <4>5. t = [status |-> "OK", escaped |-> Pending(g), data |-> Values(g)]
        BY <1>12, <4>2, <4>3, <4>4
      <4> HIDE DEF t
      <4>6. DecodesSoFar(t, g, c)
        BY <2>3, <4>4, <4>5 DEF DecodesSoFar
      <4> QED
        BY <4>6 DEF t, g, v, n
    <3>3. CASE v # Escape
      <4> DEFINE w == DecodedByte(f, n)
      <4>1. ValueCount(g) = ValueCount(f) + 1 /\ Values(g) = Append(Values(f), w) /\ ~Pending(g)
        BY <1>2, <1>5, <2>3, <3>3 DEF new
      <4>2. t = StoreValue(d, w, c)
        <5>1. CASE Pending(f)
          <6>1. RequiresEscape(FlipBit5(v)) /\ w = FlipBit5(v)
            BY <1>6, <1>8, <3>1, <5>1 DEF bad
          <6> QED
            BY <2>1, <5>1, <6>1 DEF DecoderStep
        <5>2. CASE ~Pending(f)
          <6>1. w = v
            BY <1>6, <1>8, <5>2
          <6> QED
            BY <2>1, <3>1, <3>3, <5>2, <6>1 DEF DecoderStep
        <5> QED
          BY <5>1, <5>2
      <4>3. Pending(f) \in BOOLEAN
        BY DEF Pending
      <4> HIDE DEF t, w
      <4>4. DecodesSoFar(StoreValue(d, w, c), g, c)
        BY <1>1, <1>12, <2>3, <4>1, <4>3, StoreDecodes
      <4> QED
        BY <4>2, <4>4 DEF t, g, v, n
    <3> QED
      BY <3>2, <3>3
  <2> QED
    BY <2>2, <2>3
<1> QED
  BY <1>10, <1>11, <1>12 DEF DecodesSoFar

(* Up to the second byte the decoder has read nothing.                     *)
LEMMA NothingDecoded ==
  ASSUME NEW f \in Bytes, Len(f) <= 2, NEW c \in Capacities, NEW d
  PROVE  DecodesSoFar(d, f, c) <=> d = [status |-> "OK", escaped |-> FALSE, data |-> <<>>]
<1>1. Len(f) \in Nat /\ c \in Nat
  BY EmptyBytes DEF Capacities
<1>2. Interior(f) = {}
  BY <1>1 DEF Interior
<1>3. Stops(f) = {} /\ ValuePositions(f) = {}
  BY <1>2 DEF Stops, ValuePositions
<1>4. Pending(f) = FALSE
  BY <1>1 DEF Pending
<1>5. ValueCount(f) = 0
  BY <1>3, FS_EmptySet DEF ValueCount
<1>6. Values(f) = <<>>
  BY <1>5, ValuesTyped, EmptyBytes
<1>7. 0 <= c /\ ~(0 > c)
  BY <1>1
<1> QED
  BY <1>3, <1>4, <1>5, <1>6, <1>7 DEF DecodesSoFar

LEMMA DecoderReads ==
  ASSUME line \in Bytes, DecoderInv, NEW b \in AnyByte, NextByte(b)
  PROVE  DecoderInv'
<1> DEFINE f == line
           g == Append(line, b)
           n == Len(line)
<1>1. /\ line' = g /\ g \in Bytes /\ g # <<>> /\ n \in Nat /\ Len(g) = n + 1
      /\ \A k \in 1..n : g[k] = f[k]
      /\ \A c \in Capacities : decoder'[c] = IF n < 2 THEN decoder[c]
                                             ELSE DecoderStep(decoder[c], f[n], c)
  BY AppendByte DEF NextByte
<1>2. SUFFICES ASSUME g[1] = Delimiter, NEW c \in Capacities
               PROVE  DecodesSoFar(decoder'[c], g, c)
  <2>1. Capacities' = Capacities
    BY DEF Capacities
  <2> QED
    BY <1>1, <1>2, <2>1 DEF DecoderInv
<1>3. CASE f = <<>>
  <2>1. n = 0 /\ Len(g) <= 2
    BY <1>1, <1>3, EmptyBytes
  <2>2. decoder'[c] = [status |-> "OK", escaped |-> FALSE, data |-> <<>>]
    <3>1. decoder'[c] = decoder[c]
      BY <1>1, <2>1
    <3>2. decoder[c] = [status |-> "OK", escaped |-> FALSE, data |-> <<>>]
      BY <1>3 DEF DecoderInv
    <3> QED
      BY <3>1, <3>2
  <2> HIDE DEF g
  <2> QED
    BY <1>1, <2>1, <2>2, NothingDecoded
<1>4. CASE f # <<>>
  <2>1. n # 0 /\ 1 \in 1..n
    BY <1>1, <1>4, EmptyBytes
  <2>2. f[1] = Delimiter
    BY <1>1, <1>2, <2>1
  <2>3. DecodesSoFar(decoder[c], f, c)
    BY <1>4, <2>2 DEF DecoderInv
  <2>4. CASE n < 2
    <3>1. Len(f) <= 2 /\ Len(g) <= 2 /\ decoder'[c] = decoder[c]
      BY <1>1, <2>4
    <3> HIDE DEF g
    <3> QED
      BY <1>1, <2>3, <3>1, NothingDecoded
  <2>5. CASE ~(n < 2)
    <3>1. Len(f) >= 2 /\ decoder'[c] = DecoderStep(decoder[c], f[n], c)
      BY <1>1, <2>5
    <3> QED
      BY <2>2, <2>3, <3>1, DecoderStepDecodes
  <2> QED
    BY <2>4, <2>5
<1> QED
  BY <1>3, <1>4

(* What the loop would return now is what SerialFrame says.                *)
LEMMA DecodesResult ==
  ASSUME line \in Bytes, DecoderInv, NEW c \in Capacities
  PROVE  Decode(line, c) = LoopDecode(c)
<1> DEFINE f == line
           d == decoder[c]
           n == Len(line)
           m == ValueCount(line)
<1>1. Decode(f, c) =
        IF n < 3 \/ f[1] # Delimiter \/ f[n] # Delimiter THEN Failed("INVALID_FRAME")
        ELSE IF c < QueueCapacity /\ m > c THEN Failed("INVALID_ARGUMENT")
        ELSE IF m > QueueCapacity \/ Broken(f) # {} THEN Failed("INVALID_FRAME")
        ELSE [status |-> "OK", data |-> Values(f)]
  BY DEF Decode, TooLong, ValueCount
<1>2. LoopDecode(c) =
        IF n < 3 \/ f[1] # Delimiter \/ f[n] # Delimiter THEN Failed("INVALID_FRAME")
        ELSE IF d.status # "OK" THEN Failed(d.status)
        ELSE IF d.escaped \/ d.data = <<>> THEN Failed("INVALID_FRAME")
        ELSE [status |-> "OK", data |-> d.data]
  BY DEF LoopDecode
<1>3. /\ m \in Nat /\ c \in Nat /\ c <= QueueCapacity /\ QueueCapacity \in Nat /\ n \in Nat
      /\ Len(Values(f)) = m
  BY ValuesTyped, FrameAssumption, EmptyBytes DEF Capacities
<1>4. Broken(f) = {} <=> Stops(f) = {} /\ ~Pending(f)
  BY ValuesBeforeStop
<1> HIDE DEF d, m
<1>5. CASE n < 3 \/ f[1] # Delimiter \/ f[n] # Delimiter
  BY <1>1, <1>2, <1>5
<1>6. CASE ~(n < 3 \/ f[1] # Delimiter \/ f[n] # Delimiter)
  <2>1. DecodesSoFar(d, f, c)
    <3>1. f # <<>>
      BY <1>3, <1>6, EmptyBytes
    <3> QED
      BY <1>6, <3>1 DEF DecoderInv, d
  <2>2. CASE /\ d = [status |-> "OK", escaped |-> Pending(f), data |-> Values(f)]
             /\ Stops(f) = {} /\ m <= c
    <3>1. /\ d.status = "OK" /\ d.escaped = Pending(f) /\ d.data = Values(f)
          /\ ~(m > c) /\ ~(m > QueueCapacity)
      BY <1>3, <2>2
    <3>2. CASE Pending(f)
      BY <1>1, <1>2, <1>4, <1>6, <3>1, <3>2
    <3>3. CASE ~Pending(f)
      <4>1. n - 1 \in ValuePositions(f)
        <5>1. n - 1 \in Interior(f) /\ f[n - 1] # Escape
          BY <1>3, <1>6, <3>3 DEF Interior, Pending
        <5> QED
          BY <2>2, <5>1, ValuesBeforeStop
      <4>2. m # 0
        BY <4>1, ValuesTyped, FS_EmptySet DEF m, ValueCount
      <4>3. Values(f) # <<>>
        BY <1>3, <4>2, EmptyBytes
      <4>4. Broken(f) = {}
        BY <1>4, <2>2, <3>3
      <4> QED
        BY <1>1, <1>2, <1>6, <3>1, <3>3, <4>3, <4>4
    <3> QED
      BY <3>2, <3>3
  <2>3. CASE /\ d.status = "INVALID_FRAME"
             /\ \/ Stops(f) # {} /\ m <= c
                \/ c = QueueCapacity /\ m > c
    <3>1. ~(c < QueueCapacity /\ m > c) /\ (m > QueueCapacity \/ Broken(f) # {})
      BY <1>3, <1>4, <2>3
    <3> QED
      BY <1>1, <1>2, <1>6, <2>3, <3>1
  <2>4. CASE /\ d.status = "INVALID_ARGUMENT"
             /\ c < QueueCapacity /\ m > c
    BY <1>1, <1>2, <1>6, <2>4
  <2> QED
    BY <2>1, <2>2, <2>3, <2>4 DEF DecodesSoFar, m
<1> QED
  BY <1>5, <1>6

LEMMA EncodesResult ==
  ASSUME line \in Bytes, EncoderInv, NEW c \in Nat
  PROVE  Encode(line, c) = LoopEncode(c)
<1> DEFINE start == <<Delimiter>>
           m == BodyLength(line)
           w == Body(line)
<1>1. /\ start \in Bytes /\ w \in Bytes /\ m \in Nat /\ Len(line) \in Nat /\ QueueCapacity \in Nat
      /\ Delimiter \in AnyByte
  <2>1. BodyLength(line) \in Len(line)..(2 * Len(line)) /\ Len(line) \in Nat
    BY BodyProperties, EmptyBytes
  <2>2. m \in Nat
    BY <2>1
  <2> QED
    BY <2>1, <2>2, BodyProperties, NoByte, FrameAssumption DEF Bytes
<1>2. encoder.frame_length = m /\ encoder.frame = start \o w
  BY DEF EncoderInv
<1>3. Append(start \o w, Delimiter) = (start \o w) \o <<Delimiter>>
  <2> HIDE DEF start, w
  <2>1. start \o w \in Bytes
    BY <1>1, Assoc
  <2> QED
    BY <1>1, <2>1, AppendIsJoin
<1>4. Framed(w) = (start \o w) \o <<Delimiter>>
  BY DEF Framed
<1>5. Encode(line, c) = IF line # <<>> /\ Len(line) <= QueueCapacity /\ m + 2 <= c THEN Framed(w) ELSE <<>>
  BY DEF Encode, Encodable
<1>6. LoopEncode(c) = IF line = <<>> \/ Len(line) > QueueCapacity \/ encoder.frame_length + 2 > c
                      THEN <<>> ELSE Append(encoder.frame, Delimiter)
  BY DEF LoopEncode
<1> HIDE DEF start, m, w
<1>7. (Len(line) > QueueCapacity <=> ~(Len(line) <= QueueCapacity)) /\ (m + 2 > c <=> ~(m + 2 <= c))
  BY <1>1
<1> DEFINE sendable == line # <<>> /\ Len(line) <= QueueCapacity /\ m + 2 <= c
           refused == line = <<>> \/ Len(line) > QueueCapacity \/ encoder.frame_length + 2 > c
           sent == Append(encoder.frame, Delimiter)
<1>8. refused <=> ~sendable
  BY <1>2, <1>7
<1>9. sent = Framed(w)
  BY <1>2, <1>3, <1>4
<1>10. Encode(line, c) = (IF sendable THEN Framed(w) ELSE <<>>)
  BY <1>5
<1>11. LoopEncode(c) = (IF refused THEN <<>> ELSE sent)
  BY <1>6
<1> HIDE DEF sendable, refused, sent
<1>12. CASE sendable
  BY <1>8, <1>9, <1>10, <1>11, <1>12
<1>13. CASE ~sendable
  BY <1>8, <1>9, <1>10, <1>11, <1>13
<1> QED
  BY <1>12, <1>13

-----------------------------------------------------------------------------
(* The invariant.                                                          *)

LEMMA LoopsStart == Init => LoopsInv
<1> SUFFICES ASSUME Init PROVE LoopsInv
  OBVIOUS
<1>1. line = <<>> /\ line \in Bytes /\ Len(line) = 0 /\ Delimiters(line) = {}
  BY EmptyBytes, NoByte DEF Init
<1>2. Cardinality({}) = 0
  BY FS_EmptySet
<1>3. EncoderInv
  <2>1. /\ Body(line) \in Bytes /\ Len(Body(line)) = BodyLength(line)
        /\ BodyLength(line) \in Len(line)..(2 * Len(line))
    BY <1>1, BodyProperties
  <2>2. BodyLength(line) = 0
    BY <1>1, <2>1
  <2>3. Body(line) = <<>>
    BY <2>1, <2>2, EmptyBytes
  <2>4. <<Delimiter>> \o <<>> = <<Delimiter>>
    BY EmptyBytes, NoByte DEF Bytes
  <2> QED
    BY <2>2, <2>3, <2>4 DEF EncoderInv, Init
<1>4. DecoderInv
  BY <1>1 DEF DecoderInv, Init
<1>5. CounterInv
  <2>1. Closing(line) = {}
    BY <1>1 DEF Closing
  <2>2. FrameCount(line) = 0
    BY <1>1, <1>2, <2>1, ClosingFinite
  <2> QED
    BY <1>1, <2>2 DEF CounterInv, Init
<1>6. DetectorInv
  <2>1. Cardinality(Delimiters(line)) = 0 /\ ~(0 >= 2)
    BY <1>1, <1>2
  <2>2. ~HasCompleteFrame(line) /\ HasCompleteFrame(line) \in BOOLEAN
    BY <2>1 DEF HasCompleteFrame
  <2>3. HasCompleteFrame(line) = FALSE
    BY <2>2, Zenon
  <2>4. (Delimiters(line) # {}) = FALSE
    BY <1>1, Zenon
  <2> QED
    BY <2>3, <2>4 DEF DetectorInv, Init
<1>7. ReaderInv
  BY <1>1 DEF ReaderInv, ReadsSoFar, ReadsNoise, Init
<1> QED
  BY <1>1, <1>3, <1>4, <1>5, <1>6, <1>7 DEF LoopsInv

LEMMA LoopsStep == LoopsInv /\ [Next]_vars => LoopsInv'
<1> SUFFICES ASSUME LoopsInv, [Next]_vars PROVE LoopsInv'
  OBVIOUS
<1>1. CASE UNCHANGED vars
  <2>1. Capacities' = Capacities /\ FrameCapacities' = FrameCapacities
    BY DEF Capacities, FrameCapacities, MaxEncoded
  <2> QED
    BY <1>1, <2>1 DEF LoopsInv, EncoderInv, DecoderInv, CounterInv, DetectorInv, ReaderInv, vars
<1>2. CASE Next
  <2>1. PICK b \in Alphabet : NextByte(b)
    BY <1>2 DEF Next
  <2>2. b \in AnyByte /\ line \in Bytes
    BY AlphabetAssumption DEF LoopsInv
  <2>3. line' \in Bytes
    BY <2>1, <2>2, AppendByte DEF NextByte
  <2> QED
    BY <2>1, <2>2, <2>3, EncoderReads, DecoderReads, CounterReads, DetectorReads, ReaderReads
       DEF LoopsInv
<1> QED
  BY <1>1, <1>2

LEMMA LoopsHold == Spec => []LoopsInv
  BY LoopsStart, LoopsStep, PTL DEF Spec

-----------------------------------------------------------------------------
(* The results.                                                            *)

(* The encoder's two passes compute the frame that SerialFrame describes,  *)
(* for every payload and every size of the caller's buffer.                *)
THEOREM SerialEncodeIsLoop == Spec => []EncodeIsLoop
<1>1. ASSUME LoopsInv PROVE EncodeIsLoop
  <2>1. \A c \in 0..(MaxEncoded + 1) : c \in Nat
    OBVIOUS
  <2> QED
    BY <1>1, <2>1, EncodesResult DEF EncodeIsLoop, LoopsInv
<1> QED
  BY LoopsHold, <1>1, PTL

(* The decoder's loop accepts and rejects as SerialFrame says, with the    *)
(* same error and the same data, for every string and every buffer.        *)
THEOREM SerialDecodeIsLoop == Spec => []DecodeIsLoop
<1>1. ASSUME LoopsInv PROVE DecodeIsLoop
  BY <1>1, DecodesResult DEF DecodeIsLoop, LoopsInv
<1> QED
  BY LoopsHold, <1>1, PTL

(* The three scanning loops of ring_buffer.c count, find and cut frames as *)
(* SerialFrame says, for every content of a ring.                          *)
THEOREM SerialScannersAreLoops == Spec => []ScannersAreLoops
<1>1. ASSUME LoopsInv PROVE ScannersAreLoops
  <2>1. line \in Bytes /\ ReaderInv /\ FrameCount(line) = counter.frames
    BY <1>1 DEF LoopsInv, CounterInv
  <2>2. HasCompleteFrame(line) = detector.complete
    BY <1>1 DEF LoopsInv, DetectorInv
  <2>3. ASSUME NEW c \in FrameCapacities PROVE ReadFrame(line, c) = LoopReadFrame(c)
    BY <2>1, ReadsResult DEF ReaderInv, LoopReadFrame
  <2> QED
    BY <2>1, <2>2, <2>3 DEF ScannersAreLoops
<1> QED
  BY LoopsHold, <1>1, PTL

LEMMA EncodedIsFrame ==
  ASSUME NEW p \in Bytes, NEW capacity \in Nat, Encode(p, capacity) # <<>>
  PROVE  Encodable(p, capacity)
  BY DEF Encode

(* The decoder of the peer restores every payload the encoder takes, and   *)
(* every frame the decoder accepts is the one the encoder makes of its     *)
(* payload, for any payload capacity.                                      *)
THEOREM SerialRoundTrip == Spec => []RoundTrip
<1>1. ASSUME LoopsInv PROVE RoundTrip
  <2>1. line \in Bytes /\ MaxEncoded \in Nat /\ QueueCapacity \in Nat
    BY <1>1, FrameAssumption DEF LoopsInv, MaxEncoded
  <2>2. Encode(line, MaxEncoded) # <<>> =>
          Decode(Encode(line, MaxEncoded), QueueCapacity) = [status |-> "OK", data |-> line]
    BY <2>1, EncodedIsFrame, DecodeUndoesEncode
  <2>3. Decode(line, QueueCapacity).status = "OK" =>
          Encode(Decode(line, QueueCapacity).data, MaxEncoded) = line
    BY <2>1, EncodeUndoesDecode
  <2> QED
    BY <2>2, <2>3 DEF RoundTrip
<1> QED
  BY LoopsHold, <1>1, PTL

(* An encoded payload is complete at its last byte and never before, and a *)
(* reader takes it whole from behind noise without touching what follows,  *)
(* for any payload capacity.                                               *)
THEOREM SerialFrameBoundaries == Spec => []FrameBoundaries
<1>1. ASSUME LoopsInv PROVE FrameBoundaries
  <2> DEFINE f == Encode(line, MaxEncoded)
             noise == <<17, 94>>
  <2> SUFFICES ASSUME f # <<>>
               PROVE  /\ \A n \in 0..(Len(f) - 1) : ~HasCompleteFrame(SubSeq(f, 1, n))
                      /\ FrameCount(f) = 1
                      /\ ReadFrame((noise \o f) \o f, MaxEncoded)
                           = [status |-> "OK", frame |-> f, rest |-> f]
    BY DEF FrameBoundaries
  <2>1. line \in Bytes /\ MaxEncoded \in Nat
    BY <1>1, FrameAssumption DEF LoopsInv, MaxEncoded
  <2>2. IsFrame(f)
    BY <2>1, EncodedIsFrame, EncodeShape DEF IsFrame
  <2>3. noise \in Bytes /\ Delimiters(noise) = {}
    BY DEF Bytes, AnyByte, Delimiters, Delimiter
  <2> HIDE DEF noise, f
  <2>4. f \in Bytes
    BY <2>2 DEF IsFrame
  <2>5. ReadFrame((noise \o f) \o f, MaxEncoded) = [status |-> "OK", frame |-> f, rest |-> f]
    BY <2>2, <2>3, <2>4, BehindNoise
  <2> QED
    BY <2>2, <2>5, FrameAlone DEF noise, f
<1> QED
  BY LoopsHold, <1>1, PTL
=============================================================================
