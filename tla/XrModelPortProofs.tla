------------------------- MODULE XrModelPortProofs -------------------------
(***************************************************************************)
(* For every ring size, poll size and set of payloads and injected bytes:  *)
(* the modelled path of a port keeps its types, and every byte of an       *)
(* accepted write or receive is in one of its rings, in order, or was      *)
(* taken from the last one.                                                *)
(*                                                                         *)
(* What carries the transmit side is that the frames of tx_queue can be    *)
(* cut anywhere by a poll but only at a boundary by a transfer that is not *)
(* torn: the whole stream written so far consists of frames (WholeFrames), *)
(* so what is left of it after an even number of delimiters begins with    *)
(* the next frame.                                                         *)
(*                                                                         *)
(* A torn transfer costs the rest of one frame and no more (Local), so     *)
(* queue_read still cuts at frame boundaries.                              *)
(*                                                                         *)
(* The same invariant on the receive side, without noise, and the lemmas   *)
(* of FrameStreamProofs turn bytes taken into payloads delivered.          *)
(***************************************************************************)
EXTENDS MCXrModelPort, FrameStreamProofs

-----------------------------------------------------------------------------
(* Rings.                                                                  *)

LEMMA FrameIsFrame ==
  ASSUME NEW p \in Bytes, Frame(p) # <<>>
  PROVE  IsFrame(Frame(p))
<1>1. Encodable(p, MaxEncoded)
  BY DEF Frame, Encode
<1> QED
  BY <1>1, EncodeShape DEF Frame, IsFrame

LEMMA RingWriteFits ==
  ASSUME NEW r \in Ring, NEW s \in Bytes
  PROVE  /\ RingWrite(r, s) \in Ring
         /\ Len(s) <= Room(r) => RingWrite(r, s) = r \o s
         /\ Room(r) = 0 => RingWrite(r, s) = r
         /\ Room(r) \in Nat
<1>1. r \in Bytes /\ Len(r) \in Nat /\ Len(r) <= RingCapacity /\ RingCapacity \in Nat /\ Len(s) \in Nat
  BY EmptyBytes, ModelAssumption DEF Ring
<1>2. Room(r) \in Nat /\ Room(r) = RingCapacity - Len(r)
  BY <1>1 DEF Room
<1>3. /\ Prefix(s, Room(r)) \in Bytes
      /\ Len(Prefix(s, Room(r))) = AtMost(Room(r), Len(s))
  BY <1>2, PrefixSuffix
<1>4. AtMost(Room(r), Len(s)) <= Room(r) /\ AtMost(Room(r), Len(s)) \in Nat
  BY <1>1, <1>2 DEF AtMost
<1>5. RingWrite(r, s) \in Ring
  BY <1>1, <1>2, <1>3, <1>4, Assoc, ConcatProperties DEF RingWrite, Ring, Bytes
<1>6. ASSUME Len(s) <= Room(r) PROVE RingWrite(r, s) = r \o s
  <2>1. AtMost(Room(r), Len(s)) = Len(s)
    BY <1>1, <1>2, <1>6 DEF AtMost
  <2>2. Prefix(s, Room(r)) = s
    BY <2>1, SubSeqFull DEF Prefix, Bytes
  <2> QED
    BY <2>2 DEF RingWrite
<1>7. ASSUME Room(r) = 0 PROVE RingWrite(r, s) = r
  <2>1. AtMost(Room(r), Len(s)) = 0
    BY <1>1, <1>7 DEF AtMost
  <2>2. Prefix(s, Room(r)) = <<>>
    BY <1>3, <2>1, EmptyBytes
  <2> QED
    BY <1>1, <2>2, EmptyBytes DEF RingWrite
<1> QED
  BY <1>2, <1>5, <1>6, <1>7

LEMMA SuffixRing == ASSUME NEW r \in Ring, NEW n \in Nat PROVE Suffix(r, n) \in Ring
<1>1. r \in Bytes /\ Len(r) \in Nat /\ Len(r) <= RingCapacity /\ RingCapacity \in Nat
  BY EmptyBytes, ModelAssumption DEF Ring
<1>2. Suffix(r, n) \in Bytes /\ Len(Suffix(r, n)) = Len(r) - AtMost(n, Len(r)) /\ AtMost(n, Len(r)) \in 0..Len(r)
  BY <1>1, PrefixSuffix
<1> QED
  BY <1>1, <1>2 DEF Ring

(* What a poll moves from one ring to the next one.                        *)
LEMMA MovedBytes ==
  ASSUME NEW s \in Ring, NEW d \in Ring
  PROVE  LET n == Movable(s, d)
         IN  /\ Suffix(s, n) \in Ring
             /\ RingWrite(d, Prefix(s, n)) \in Ring
             /\ \A w \in Bytes : (w \o RingWrite(d, Prefix(s, n))) \o Suffix(s, n) = (w \o d) \o s
             /\ Room(d) = 0 => RingWrite(d, Prefix(s, n)) = d
<1> DEFINE n == Movable(s, d)
<1>1. /\ s \in Bytes /\ d \in Bytes /\ Len(s) \in Nat /\ Room(d) \in Nat
      /\ FifoCapacity \in Nat
  BY EmptyBytes, RingWriteFits, ModelAssumption DEF Ring
<1>2. n \in Nat /\ n <= Len(s) /\ n <= Room(d)
  BY <1>1 DEF Movable, AtMost
<1> HIDE DEF n
<1>3. /\ Prefix(s, n) \in Bytes /\ Len(Prefix(s, n)) = n
      /\ Suffix(s, n) \in Bytes /\ Prefix(s, n) \o Suffix(s, n) = s
  <2>1. AtMost(n, Len(s)) = n
    BY <1>1, <1>2 DEF AtMost
  <2> QED
    BY <1>1, <1>2, <2>1, PrefixSuffix
<1>4. Suffix(s, n) \in Ring
  BY <1>2, SuffixRing
<1>5. /\ RingWrite(d, Prefix(s, n)) \in Ring
      /\ RingWrite(d, Prefix(s, n)) = d \o Prefix(s, n)
      /\ Room(d) = 0 => RingWrite(d, Prefix(s, n)) = d
  BY <1>2, <1>3, RingWriteFits
<1>6. ASSUME NEW w \in Bytes
      PROVE  (w \o (d \o Prefix(s, n))) \o Suffix(s, n) = (w \o d) \o s
  <2> DEFINE b == Prefix(s, n)
             c == Suffix(s, n)
  <2>1. b \in Bytes /\ c \in Bytes /\ b \o c = s
    BY <1>3
  <2> HIDE DEF b, c
  <2>2. w \o (d \o b) = (w \o d) \o b /\ w \o d \in Bytes
    BY <1>1, <2>1, Assoc
  <2> DEFINE v == w \o d
  <2>3. v \in Bytes
    BY <2>2
  <2> HIDE DEF v
  <2>4. (v \o b) \o c = v \o (b \o c)
    BY <2>1, <2>3, Assoc
  <2>5. (w \o (d \o b)) \o c = (w \o d) \o s
    BY <2>1, <2>2, <2>4 DEF v
  <2> QED
    BY <2>5 DEF b, c
<1> QED
  BY <1>4, <1>5, <1>6 DEF n

(* A message that leaves a ring: nothing is altered or reordered.          *)
LEMMA NextMessageCuts ==
  ASSUME NEW r \in Ring
  PROVE  LET m == NextMessage(r)
         IN  /\ m.status \in Status
             /\ m.data \in Bytes
             /\ m.rest \in Ring
             /\ m.bytes \in Bytes
             /\ m.bytes \o m.rest = r
<1> DEFINE cut == ReadFrame(r, MaxEncoded)
           k == Len(r) - Len(cut.rest)
<1>1. r \in Bytes /\ Len(r) \in Nat /\ Len(r) <= RingCapacity /\ MaxEncoded \in Nat /\ QueueCapacity \in Nat
      /\ RingCapacity \in Nat
  BY EmptyBytes, FrameAssumption, ModelAssumption DEF Ring, MaxEncoded
<1>2. /\ cut.frame \in Bytes /\ cut.rest \in Bytes /\ Len(cut.rest) <= Len(r)
      /\ SubSeq(r, 1, k) \in Bytes /\ SubSeq(r, 1, k) \o cut.rest = r
  BY <1>1, ReadFrameCuts
<1> DEFINE d == Decode(cut.frame, QueueCapacity)
<1>3. d.status \in {"OK", "INVALID_FRAME", "INVALID_ARGUMENT"} /\ d.data \in Bytes
  BY <1>1, <1>2, DecodeType
<1>4. NextMessage(r) = [status |-> d.status, data |-> d.data, rest |-> cut.rest, bytes |-> Prefix(r, k)]
  BY DEF NextMessage, AfterCut
<1> HIDE DEF cut, d
<1>5. Len(cut.rest) \in Nat /\ k \in Nat /\ k <= Len(r)
  BY <1>1, <1>2, EmptyBytes
<1>6. Prefix(r, k) = SubSeq(r, 1, k)
  BY <1>1, <1>5 DEF Prefix, AtMost
<1>7. cut.rest \in Ring
  BY <1>1, <1>2, <1>5 DEF Ring
<1> HIDE DEF k
<1> DEFINE m == NextMessage(r)
           b == SubSeq(r, 1, k)
<1>8. m.status = d.status /\ m.data = d.data /\ m.rest = cut.rest /\ m.bytes = b
  <2>1. m = [status |-> d.status, data |-> d.data, rest |-> cut.rest, bytes |-> b]
    BY <1>4, <1>6
  <2> HIDE DEF m, b
  <2> QED
    BY <2>1
<1>9. m.status \in Status /\ m.data \in Bytes
  BY <1>3, <1>8 DEF Status
<1>10. m.rest \in Ring /\ m.bytes \in Bytes /\ m.bytes \o m.rest = r
  BY <1>2, <1>7, <1>8
<1> HIDE DEF m
<1> QED
  BY <1>9, <1>10 DEF m

(* What a cut leaves and what it takes, however it ends.                   *)
LEMMA CutRing ==
  ASSUME NEW r \in Ring
  PROVE  LET cut == ReadFrame(r, MaxEncoded)
         IN  cut.frame \in Bytes /\ AfterCut(r, cut) \in Ring
<1> DEFINE cut == ReadFrame(r, MaxEncoded)
<1>1. r \in Bytes /\ Len(r) \in Nat /\ Len(r) <= RingCapacity /\ RingCapacity \in Nat /\ MaxEncoded \in Nat
  BY EmptyBytes, FrameAssumption, ModelAssumption DEF Ring, MaxEncoded
<1>2. cut.frame \in Bytes /\ cut.rest \in Bytes /\ Len(cut.rest) <= Len(r)
  BY <1>1, ReadFrameCuts
<1> HIDE DEF cut
<1>3. Len(cut.rest) \in Nat
  BY <1>2, EmptyBytes
<1> QED
  BY <1>1, <1>2, <1>3 DEF cut, Ring, AfterCut

-----------------------------------------------------------------------------
(* Streams that transfers have torn.                                       *)

(* all is the stream w of whole frames, some of them cut short.            *)
Local(all, w) ==
  /\ OnlyFrames(all) /\ Pairs(all) = Pairs(w)
  /\ \A i \in Pairs(all) : CutShort(FrameAt(all, i), FrameAt(w, i))

LEMMA JoinDelimiter ==
  ASSUME NEW s \in Bytes
  PROVE  /\ Append(s, Delimiter) = s \o <<Delimiter>> /\ Append(s, Delimiter) \in Bytes
         /\ Len(Append(s, Delimiter)) = Len(s) + 1 /\ <<Delimiter>> \in Bytes
<1>1. Delimiter \in AnyByte
  BY DEF Delimiter, AnyByte
<1>2. s \in Seq(AnyByte) /\ <<Delimiter>> \in Seq(AnyByte) /\ Len(<<Delimiter>>) = 1
  BY <1>1 DEF Bytes
<1>3. Append(s, Delimiter) = s \o <<Delimiter>>
  BY <1>1, <1>2, AppendIsConcat
<1> DEFINE d == <<Delimiter>>
<1>4. s \in Bytes /\ d \in Bytes /\ Len(d) = 1
  BY <1>2 DEF Bytes
<1> HIDE DEF d
<1>5. s \o d \in Bytes /\ Len(s \o d) = Len(s) + Len(d)
  BY <1>4, Assoc
<1> QED
  BY <1>3, <1>4, <1>5 DEF d

(* A frame is itself with nothing cut out.                                 *)
LEMMA CutNothing ==
  ASSUME NEW f, IsFrame(f)
  PROVE  CutShort(f, f) /\ Enclosed(f)
<1> DEFINE n == Len(f)
<1>1. f \in Bytes /\ n \in 3..MaxEncoded /\ f[n] = Delimiter /\ Delimiters(f) = {1, n} /\ MaxEncoded \in Nat
  BY FrameAlone, FrameAssumption DEF IsFrame, MaxEncoded
<1>2. n \in Nat /\ n >= 2 /\ n - 1 \in 1..(n - 1) /\ n - 1 \in Nat
  BY <1>1
<1>3. /\ Prefix(f, n - 1) \in Bytes /\ Len(Prefix(f, n - 1)) = AtMost(n - 1, n)
      /\ Prefix(f, n - 1) = SubSeq(f, 1, AtMost(n - 1, n))
  BY <1>1, <1>2, PrefixSuffix DEF Prefix
<1>4. AtMost(n - 1, n) = n - 1
  BY <1>2 DEF AtMost
<1> DEFINE g == Append(Prefix(f, n - 1), Delimiter)
<1>5. g = f
  <2>1. g \in Bytes /\ Len(g) = (n - 1) + 1
    BY <1>3, <1>4, JoinDelimiter
  <2>2. (n - 1) + 1 = n
    BY <1>2
  <2>3. ASSUME NEW i \in 1..n PROVE g[i] = f[i]
    <3> DEFINE x == Prefix(f, n - 1)
    <3>1. x \in Seq(AnyByte) /\ Len(x) = n - 1
      BY <1>3, <1>4 DEF Bytes
    <3>2. CASE i = n
      BY <1>1, <2>2, <3>1, <3>2
    <3>3. CASE i # n
      <4>1. i \in 1..(n - 1)
        BY <1>2, <3>3
      <4>2. x[i] = f[i]
        BY <1>1, <1>2, <1>3, <1>4, <4>1 DEF Bytes
      <4> HIDE DEF x
      <4>3. Append(x, Delimiter)[i] = x[i]
        BY <3>1, <4>1
      <4> QED
        BY <4>2, <4>3 DEF x
    <3> QED
      BY <3>2, <3>3
  <2> HIDE DEF g
  <2> QED
    BY <1>1, <2>1, <2>2, <2>3, SeqEqual DEF Bytes
<1>6. Enclosed(f)
  BY <1>1, <1>2 DEF Enclosed
<1> QED
  BY <1>2, <1>5, <1>6 DEF CutShort

(* What is cut off a frame that is already short makes it shorter.         *)
LEMMA CutAgain ==
  ASSUME NEW f \in Bytes, NEW p \in Bytes, NEW s \in Bytes, p # <<>>,
         CutShort((p \o s) \o <<Delimiter>>, f)
  PROVE  CutShort(p \o <<Delimiter>>, f)
<1> DEFINE d == <<Delimiter>>
           b == p \o s
<1>1. PICK m \in 1..(Len(f) - 1) : b \o d = Append(Prefix(f, m), Delimiter)
  BY DEF CutShort
<1> DEFINE x == Prefix(f, m)
<1>2. m \in Nat /\ m <= Len(f) /\ Len(f) \in Nat /\ m <= Len(f) - 1
  BY EmptyBytes
<1>3. x \in Bytes /\ Len(x) = m /\ Suffix(f, m) \in Bytes /\ x \o Suffix(f, m) = f
  <2>1. AtMost(m, Len(f)) = m
    BY <1>2 DEF AtMost
  <2> QED
    BY <1>2, <2>1, PrefixSuffix
<1>4. b \in Bytes /\ d \in Bytes
  BY JoinDelimiter, Assoc
<1> HIDE DEF b, x
<1>5. Append(x, Delimiter) = x \o d
  BY <1>3, JoinDelimiter
<1> HIDE DEF d
<1>6. b \o d = x \o d
  BY <1>1, <1>5 DEF x
<1>7. Len(b) = Len(x)
  <2>1. Len(b \o d) = Len(b) + Len(d) /\ Len(x \o d) = Len(x) + Len(d)
    BY <1>3, <1>4, Assoc
  <2>2. Len(b) \in Nat /\ Len(x) \in Nat /\ Len(d) \in Nat
    BY <1>3, <1>4, EmptyBytes
  <2> QED
    BY <1>6, <2>1, <2>2
<1>8. b = x
  <2>1. Prefix(b \o d, Len(b)) = b
    BY <1>4, PrefixOfConcat
  <2>2. Prefix(x \o d, Len(x)) = x
    BY <1>3, <1>4, PrefixOfConcat
  <2> QED
    BY <1>6, <1>7, <2>1, <2>2
<1> DEFINE k == Len(p)
<1>9. k \in Nat /\ k # 0 /\ k <= m
  <2>1. Len(p \o s) = k + Len(s) /\ Len(s) \in Nat /\ k \in Nat /\ k # 0
    BY Assoc, EmptyBytes
  <2>2. Len(p \o s) = m
    BY <1>3, <1>8 DEF b
  <2> HIDE DEF k
  <2> QED
    BY <2>1, <2>2
<1>10. Prefix(f, k) = p
  <2>1. Prefix(b, k) = p
    BY PrefixOfConcat DEF b
  <2> DEFINE y == Suffix(f, m)
  <2>2. y \in Bytes /\ x \o y = f
    BY <1>3
  <2> HIDE DEF k, y
  <2>3. \A l \in Nat : l <= Len(x) => Prefix(x \o y, l) = Prefix(x, l)
    <3>1. x \in Bytes
      BY <1>3
    <3> QED
      BY <2>2, <3>1, PrefixOfConcat
  <2> QED
    BY <1>3, <1>8, <1>9, <2>1, <2>2, <2>3
<1>11. k \in 1..(Len(f) - 1)
  BY <1>2, <1>9
<1>12. Append(p, Delimiter) = p \o d
  BY JoinDelimiter DEF d
<1> QED
  BY <1>10, <1>11, <1>12 DEF CutShort, d

LEMMA CutNotLonger ==
  ASSUME NEW f \in Bytes, NEW g, CutShort(g, f)
  PROVE  g \in Bytes /\ Len(g) <= Len(f)
<1>1. PICK m \in 1..(Len(f) - 1) : g = Append(Prefix(f, m), Delimiter)
  BY DEF CutShort
<1>2. m \in Nat /\ m <= Len(f) /\ Len(f) \in Nat /\ m + 1 <= Len(f)
  BY EmptyBytes
<1>3. Prefix(f, m) \in Bytes /\ Len(Prefix(f, m)) = m
  <2>1. AtMost(m, Len(f)) = m
    BY <1>2 DEF AtMost
  <2> QED
    BY <1>2, <2>1, PrefixSuffix
<1>4. g \in Bytes /\ Len(g) = m + 1
  BY <1>1, <1>3, JoinDelimiter
<1> QED
  BY <1>2, <1>4

LEMMA SamePairs ==
  ASSUME NEW a \in Bytes, NEW w \in Bytes, Pairs(a) = Pairs(w)
  PROVE  Cardinality(Delimiters(a)) \div 2 = Cardinality(Delimiters(w)) \div 2
<1> DEFINE m == Cardinality(Delimiters(a)) \div 2
           n == Cardinality(Delimiters(w)) \div 2
<1>1. m \in Nat /\ n \in Nat /\ 1..m = 1..n
  BY PairsConcat DEF Pairs
<1> HIDE DEF m, n
<1>2. Cardinality(1..m) = m /\ Cardinality(1..n) = n
  BY <1>1, FS_Interval
<1> QED
  BY <1>1, <1>2 DEF m, n

LEMMA FrameAppended ==
  ASSUME NEW v \in Bytes, AtBoundary(v), NEW f, Enclosed(f)
  PROVE  LET l == Cardinality(Delimiters(v)) \div 2
         IN  /\ l \in Nat /\ Pairs(v) = 1..l /\ Pairs(v \o f) = 1..(l + 1)
             /\ \A i \in 1..l : FrameAt(v \o f, i) = FrameAt(v, i)
             /\ FrameAt(v \o f, l + 1) = f
<1> DEFINE l == Cardinality(Delimiters(v)) \div 2
<1>1. f \in Bytes /\ FrameAt(f, 1) = f
  BY EnclosedFrame DEF Enclosed
<1>2. Cardinality(Delimiters(f)) \div 2 = 1
  <2>1. Cardinality(Delimiters(f)) = 2 /\ 2 \div 2 = 1
    BY EnclosedFrame
  <2> QED
    BY <2>1
<1>3. /\ l \in Nat /\ Pairs(v) = 1..l /\ Pairs(v \o f) = 1..(l + 1)
      /\ \A i \in 1..l : FrameAt(v \o f, i) = FrameAt(v, i)
      /\ \A i \in 1..1 : FrameAt(v \o f, l + i) = FrameAt(f, i)
  BY <1>1, <1>2, PairsConcat
<1>4. 1 \in 1..1
  OBVIOUS
<1> HIDE DEF l
<1>5. FrameAt(v \o f, l + 1) = f
  BY <1>1, <1>3, <1>4
<1> QED
  BY <1>3, <1>5 DEF l

(* The next accepted write.                                                *)
LEMMA LocalAppend ==
  ASSUME NEW a \in Bytes, NEW w \in Bytes, Local(a, w), AtBoundary(w), NEW f, IsFrame(f)
  PROVE  Local(a \o f, w \o f)
<1> DEFINE m == Cardinality(Delimiters(a)) \div 2
           n == Cardinality(Delimiters(w)) \div 2
<1>1. f \in Bytes /\ CutShort(f, f) /\ Enclosed(f)
  BY CutNothing DEF IsFrame
<1>2. OnlyFrames(a) /\ AtBoundary(a) /\ Pairs(a) = Pairs(w) /\ m = n
  BY SamePairs DEF Local, OnlyFrames
<1>3. OnlyFrames(f)
  BY <1>1, EnclosedFrame
<1> DEFINE b == a \o f
           x == w \o f
<1>6. OnlyFrames(b)
  BY <1>1, <1>2, <1>3, OnlyFramesConcat
<1>7. /\ m \in Nat /\ Pairs(a) = 1..m /\ Pairs(b) = 1..(m + 1)
      /\ \A i \in 1..m : FrameAt(b, i) = FrameAt(a, i)
      /\ FrameAt(b, m + 1) = f
  BY <1>1, <1>2, FrameAppended
<1>8. /\ Pairs(x) = 1..(n + 1)
      /\ \A i \in 1..n : FrameAt(x, i) = FrameAt(w, i)
      /\ FrameAt(x, n + 1) = f
  BY <1>1, FrameAppended
<1> HIDE DEF m, n, b, x
<1>9. ASSUME NEW i \in 1..(m + 1) PROVE CutShort(FrameAt(b, i), FrameAt(x, i))
  <2>1. CASE i = m + 1
    BY <1>1, <1>2, <1>7, <1>8, <2>1
  <2>2. CASE i # m + 1
    <3>1. i \in 1..m
      BY <1>7, <2>2
    <3> QED
      BY <1>2, <1>7, <1>8, <3>1 DEF Local
  <2> QED
    BY <2>1, <2>2
<1> QED
  BY <1>2, <1>6, <1>7, <1>8, <1>9 DEF Local, b, x

(* The frame of a stream that a cut has shortened.                         *)
LEMMA LocalShorten ==
  ASSUME NEW w \in Bytes, NEW z \in Bytes, AtBoundary(z), NEW t \in Bytes,
         NEW p \in Bytes, p # <<>>, NEW s \in Bytes,
         Enclosed((p \o s) \o <<Delimiter>>), Enclosed(p \o <<Delimiter>>),
         Local((z \o ((p \o s) \o <<Delimiter>>)) \o t, w)
  PROVE  Local((z \o (p \o <<Delimiter>>)) \o t, w)
<1> DEFINE c == (p \o s) \o <<Delimiter>>
           b == p \o <<Delimiter>>
           u == (z \o c) \o t
           v == (z \o b) \o t
           m == Cardinality(Delimiters(z)) \div 2
           k == Cardinality(Delimiters(t)) \div 2
<1>0. Enclosed(c) /\ Enclosed(b)
  OBVIOUS
<1> HIDE DEF b, c
<1>1. /\ m \in Nat /\ k \in Nat
      /\ Pairs(u) = 1..((m + 1) + k)
      /\ \A i \in 1..m : FrameAt(u, i) = FrameAt(z, i)
      /\ FrameAt(u, m + 1) = c
      /\ \A i \in 1..k : FrameAt(u, (m + 1) + i) = FrameAt(t, i)
      /\ OnlyFrames(u) <=> OnlyFrames(z) /\ OnlyFrames(t)
  BY <1>0, FrameBetween
<1>2. /\ Pairs(v) = 1..((m + 1) + k)
      /\ \A i \in 1..m : FrameAt(v, i) = FrameAt(z, i)
      /\ FrameAt(v, m + 1) = b
      /\ \A i \in 1..k : FrameAt(v, (m + 1) + i) = FrameAt(t, i)
      /\ OnlyFrames(v) <=> OnlyFrames(z) /\ OnlyFrames(t)
  BY <1>0, FrameBetween
<1> DEFINE g(i) == FrameAt(w, i)
<1>3. /\ OnlyFrames(u) /\ Pairs(u) = Pairs(w)
      /\ \A i \in Pairs(u) : CutShort(FrameAt(u, i), g(i))
  BY DEF Local, c
<1>4. m + 1 \in 1..((m + 1) + k)
  <2> HIDE DEF m, k
  <2> QED
    BY <1>1
<1>5. g(m + 1) \in Bytes
  <2>1. m + 1 \in Pairs(w)
    BY <1>1, <1>3, <1>4
  <2> QED
    BY <2>1, FrameAtProperties
<1>6. CutShort(c, g(m + 1))
  BY <1>1, <1>3, <1>4
<1>7. CutShort(b, g(m + 1))
  <2> DEFINE f == g(m + 1)
  <2>1. f \in Bytes /\ CutShort(c, f)
    BY <1>5, <1>6
  <2> HIDE DEF f
  <2>2. CutShort(b, f)
    BY <2>1, CutAgain DEF b, c
  <2> QED
    BY <2>2 DEF f
<1> HIDE DEF u, v, m, k, b, c, g
<1>8. ASSUME NEW i \in 1..((m + 1) + k) PROVE CutShort(FrameAt(v, i), g(i))
  <2>1. CASE i = m + 1
    BY <1>2, <1>7, <2>1
  <2>2. CASE i < m + 1
    <3>1. i \in 1..m
      BY <1>1, <2>2
    <3> QED
      BY <1>1, <1>2, <1>3, <3>1
  <2>3. CASE i > m + 1
    <3> DEFINE j == i - (m + 1)
    <3>1. j \in 1..k /\ i = (m + 1) + j
      BY <1>1, <2>3
    <3> HIDE DEF j
    <3>2. FrameAt(v, i) = FrameAt(u, i)
      BY <1>1, <1>2, <3>1
    <3> QED
      BY <1>1, <1>3, <3>2
  <2>4. i = m + 1 \/ i < m + 1 \/ i > m + 1
    BY <1>1
  <2> QED
    BY <2>1, <2>2, <2>3, <2>4
<1>9. OnlyFrames(v) /\ Pairs(v) = Pairs(w)
  BY <1>1, <1>2, <1>3
<1>10. \A i \in Pairs(v) : CutShort(FrameAt(v, i), g(i))
  BY <1>2, <1>8
<1>11. Local(v, w)
  BY <1>9, <1>10 DEF Local, g
<1> QED
  BY <1>11 DEF v, b

LEMMA CountedIsComplete ==
  ASSUME NEW q \in Bytes, FrameCount(q) > 0
  PROVE  HasCompleteFrame(q) /\ q # <<>>
<1> DEFINE D == Delimiters(q)
           T == {j \in D : (\E i \in D : i < j) /\ q[j - 1] # Delimiter}
<1>1. /\ D \in SUBSET (1..Len(q)) /\ IsFiniteSet(D) /\ Cardinality(D) \in Nat
      /\ Len(q) \in Nat
  BY DelimitersFinite
<1>2. T # {}
  <2>1. Cardinality(T) > 0 /\ ~(0 > 0)
    BY DEF FrameCount
  <2> QED
    BY <2>1, FS_EmptySet
<1>3. PICK j \in D : \E i \in D : i < j
  BY <1>2
<1>4. PICK i \in D : i < j
  BY <1>3
<1> HIDE DEF D, T
<1>5. i # j /\ {i, j} \subseteq D
  BY <1>1, <1>3, <1>4
<1>6. Cardinality({i, j}) = 2
  <2>1. IsFiniteSet({i}) /\ Cardinality({i}) = 1 /\ j \notin {i}
    BY <1>5, FS_Singleton
  <2>2. Cardinality({i} \cup {j}) = Cardinality({i}) + 1
    BY <2>1, FS_AddElement
  <2>3. {i} \cup {j} = {i, j}
    OBVIOUS
  <2> QED
    BY <2>1, <2>2, <2>3
<1>7. Cardinality({i, j}) <= Cardinality(D)
  BY <1>1, <1>5, FS_Subset
<1>8. HasCompleteFrame(q)
  BY <1>1, <1>6, <1>7 DEF HasCompleteFrame, D
<1>9. q # <<>>
  BY <1>1, <1>3, EmptyBytes
<1> QED
  BY <1>8, <1>9

(* The next frame of a reader is one that was written, or what is left of  *)
(* it, so it fits the frame buffer.                                        *)
LEMMA NextFits ==
  ASSUME NEW a \in Bytes, NEW q \in Bytes, NEW t \in Bytes, NEW w \in Bytes,
         AtBoundary(a), HasCompleteFrame(q), Local((a \o q) \o t, w), WholeFrames(w)
  PROVE  LET i == (Cardinality(Delimiters(a)) \div 2) + 1
         IN  /\ Len(FrameAt(q, 1)) <= MaxEncoded
             /\ i \in Pairs(w) /\ FrameAt((a \o q) \o t, i) = FrameAt(q, 1)
<1> DEFINE i == (Cardinality(Delimiters(a)) \div 2) + 1
           g == (a \o q) \o t
<1>1. i \in Pairs(g) /\ FrameAt(g, i) = FrameAt(q, 1)
  BY NextIsPair
<1> HIDE DEF i, g
<1>2. i \in Pairs(w) /\ CutShort(FrameAt(q, 1), FrameAt(w, i))
  BY <1>1 DEF Local, g
<1> DEFINE f == FrameAt(w, i)
<1>3. f \in Bytes /\ Len(f) <= MaxEncoded
  <2>1. f \in Bytes
    BY <1>2, FrameAtProperties
  <2>2. Len(f) \in Nat /\ MaxEncoded \in Nat
    BY <2>1, EmptyBytes, FrameAssumption DEF MaxEncoded
  <2>3. ~(Len(f) > MaxEncoded)
    BY <1>2, WholeNotOverlong DEF Overlong
  <2> QED
    BY <2>1, <2>2, <2>3
<1> HIDE DEF f
<1>4. FrameAt(q, 1) \in Bytes /\ Len(FrameAt(q, 1)) <= Len(f)
  BY <1>2, <1>3, CutNotLonger DEF f
<1>5. Len(FrameAt(q, 1)) <= MaxEncoded
  <2>1. Len(FrameAt(q, 1)) \in Nat /\ Len(f) \in Nat /\ MaxEncoded \in Nat
    BY <1>3, <1>4, EmptyBytes, FrameAssumption DEF MaxEncoded
  <2> QED
    BY <1>3, <1>4, <2>1
<1> QED
  BY <1>1, <1>2, <1>5 DEF i, g

(* What a transfer does to the stream: nothing where it begins with a      *)
(* frame, and elsewhere it shortens the frame it begins in.                *)
LEMMA LocalCut ==
  ASSUME NEW a \in Bytes, NEW q \in Bytes, NEW w \in Bytes,
         Local(a \o q, w), WholeFrames(w), FrameCount(q) > 0
  PROVE  LET cut == ReadFrame(q, MaxEncoded)
         IN  /\ Len(cut.frame) <= MaxEncoded
             /\ Local((a \o cut.frame) \o cut.rest, w)
             /\ AtBoundary(a) => cut.frame \o cut.rest = q
<1> DEFINE cut == ReadFrame(q, MaxEncoded)
<1>1. HasCompleteFrame(q) /\ q # <<>> /\ OnlyFrames(a \o q)
  BY CountedIsComplete DEF Local
<1>2. cut.frame \in Bytes /\ cut.rest \in Bytes
  <2>1. MaxEncoded \in Nat
    BY FrameAssumption DEF MaxEncoded
  <2> QED
    BY <2>1, ReadFrameCuts
<1>3. CASE AtBoundary(a)
  <2>1. (a \o q) \o <<>> = a \o q /\ <<>> \in Bytes
    BY Assoc, EmptyBytes
  <2>6. Len(FrameAt(q, 1)) <= MaxEncoded
    BY <1>1, <1>3, <2>1, NextFits
  <2>7. Len(cut.frame) <= MaxEncoded /\ cut.frame \o cut.rest = q
    BY <1>1, <1>3, <2>6, CutNext
  <2> DEFINE x == cut.frame
             r == cut.rest
  <2>8. x \in Bytes /\ r \in Bytes
    BY <1>2
  <2> HIDE DEF x, r
  <2>9. (a \o x) \o r = a \o (x \o r)
    BY <2>8, Associates DEF Join
  <2>10. (a \o x) \o r = a \o q
    BY <2>7, <2>9 DEF x, r
  <2> QED
    BY <2>7, <2>10 DEF x, r
<1>4. CASE ~AtBoundary(a)
  <2> DEFINE d == <<Delimiter>>
  <2>1. /\ Len(cut.frame) <= MaxEncoded
        /\ \E z, p, s, t \in Bytes :
             /\ AtBoundary(z) /\ p # <<>>
             /\ Enclosed((p \o s) \o d) /\ Enclosed(p \o d)
             /\ a \o q = (z \o ((p \o s) \o d)) \o t
             /\ (a \o cut.frame) \o cut.rest = (z \o (p \o d)) \o t
    BY <1>1, <1>4, CutInside
  <2>2. PICK z \in Bytes, p \in Bytes, s \in Bytes, t \in Bytes :
             /\ AtBoundary(z) /\ p # <<>>
             /\ Enclosed((p \o s) \o d) /\ Enclosed(p \o d)
             /\ a \o q = (z \o ((p \o s) \o d)) \o t
             /\ (a \o cut.frame) \o cut.rest = (z \o (p \o d)) \o t
    BY <2>1
  <2> HIDE DEF cut
  <2>3. Local((z \o ((p \o s) \o d)) \o t, w)
    BY <2>2
  <2>4. Local((z \o (p \o d)) \o t, w)
    BY <2>2, <2>3, LocalShorten
  <2>5. Local((a \o cut.frame) \o cut.rest, w)
    BY <2>2, <2>4
  <2> QED
    BY <1>4, <2>1, <2>5 DEF cut
<1> QED
  BY <1>3, <1>4

(* Every frame of the stream of accepted writes is one that decodes.       *)
Decodable(w) == \A i \in Pairs(w) : Decode(FrameAt(w, i), QueueCapacity).status = "OK"

LEMMA DecodableAppend ==
  ASSUME NEW w \in Bytes, AtBoundary(w), Decodable(w), NEW f, IsFrame(f),
         Decode(f, QueueCapacity).status = "OK"
  PROVE  Decodable(w \o f)
<1> DEFINE l == Cardinality(Delimiters(w)) \div 2
           g == w \o f
           S(h) == Decode(h, QueueCapacity).status
<1>1. Enclosed(f)
  BY CutNothing
<1>2. /\ l \in Nat /\ Pairs(w) = 1..l /\ Pairs(g) = 1..(l + 1)
      /\ \A i \in 1..l : FrameAt(g, i) = FrameAt(w, i)
      /\ FrameAt(g, l + 1) = f
  BY <1>1, FrameAppended
<1>3. S(f) = "OK" /\ \A i \in Pairs(w) : S(FrameAt(w, i)) = "OK"
  BY DEF Decodable
<1> HIDE DEF l, g, S
<1>4. \A i \in 1..(l + 1) : i \in 1..l \/ i = l + 1
  BY <1>2
<1>5. \A i \in Pairs(g) : S(FrameAt(g, i)) = "OK"
  BY <1>2, <1>3, <1>4
<1> QED
  BY <1>5 DEF Decodable, S, g

(* A decoder with the driver's own buffer has two results, and the failing *)
(* one has no data.                                                        *)
LEMMA DecodeEnds ==
  ASSUME NEW f
  PROVE  LET d == Decode(f, QueueCapacity)
         IN  d.status = "OK" \/ (d.status = "INVALID_FRAME" /\ d.data = <<>>)
<1>1. ~(QueueCapacity < QueueCapacity)
  BY FrameAssumption
<1> QED
  BY <1>1 DEF Decode, Failed

-----------------------------------------------------------------------------
(* The invariant.                                                          *)

Rings == [tx_queue : Ring, tx_fifo : Ring, rx_pending : Ring, rx_fifo : Ring, rx_queue : Ring]

CallOK ==
  /\ call \in [op : {"none", "read", "queue_read", "transfer_frames"}, length : Nat, data : Bytes]
  /\ Len(call.data) <= call.length
  /\ ret \in [status : Status, count : Nat]

(* Before the first call nothing has happened to the rings.                *)
FreshOK ==
  /\ is_initialized \in BOOLEAN
  /\ ~is_initialized => port = EmptyPort /\ call.op = "none"

TxHistory == [written : Bytes, fetched : Bytes, took : Bytes, collected : Bytes,
              raw : BOOLEAN, torn : BOOLEAN]

(* What left the writes and what is still to be fetched.                   *)
OnTheWay == (tx.fetched \o port.tx_fifo) \o port.tx_queue

(* The transmit side, with what makes a transfer at a boundary safe.       *)
TxOK ==
  /\ tx \in TxHistory
  /\ WholeFrames(tx.written) /\ Decodable(tx.written)
  /\ TxKept
  /\ TearsStayLocal

RxOK ==
  /\ rx \in [offered : Bytes, taken : Bytes, delivered : Bytes, raw : BOOLEAN, truncated : BOOLEAN]
  /\ RxKept

ModelInv == port \in Rings /\ CallOK /\ FreshOK /\ TxOK /\ RxOK

LEMMA ModelInvImplies == ModelInv => TypeOK /\ TxKept /\ RxKept /\ TearsStayLocal
  BY DEF ModelInv, Rings, CallOK, FreshOK, TxOK, RxOK, TypeOK, TxHistory

LEMMA TearsAreLocal ==
  /\ TearsStayLocal <=> (~tx.raw => Local(OnTheWay, tx.written))
  /\ TearsStayLocal' <=> (~tx'.raw => Local(OnTheWay', tx'.written))
  BY DEF TearsStayLocal, Local, OnTheWay

LEMMA EmptyTx ==
  /\ NoTx \in TxHistory
  /\ NoRx \in [offered : Bytes, taken : Bytes, delivered : Bytes, raw : BOOLEAN, truncated : BOOLEAN]
  /\ EmptyPort \in Rings
  /\ NoTx.written = <<>> /\ NoTx.fetched = <<>> /\ NoRx.offered = <<>> /\ NoRx.taken = <<>>
  /\ EmptyPort.tx_fifo = <<>> /\ EmptyPort.tx_queue = <<>>
  /\ EmptyPort.rx_fifo = <<>> /\ EmptyPort.rx_pending = <<>>
<1>1. <<>> \in Bytes /\ <<>> \in Ring
  BY EmptyBytes, ModelAssumption DEF Ring
<1> QED
  BY <1>1 DEF NoTx, NoRx, EmptyPort, Rings, TxHistory

(* The empty stream consists of no frame.                                  *)
LEMMA EmptyStream ==
  /\ Delimiters(<<>>) = {} /\ FrameCount(<<>>) = 0 /\ WholeFrames(<<>>)
  /\ Pairs(<<>>) = {} /\ AtBoundary(<<>>) /\ Decodable(<<>>) /\ Local(<<>>, <<>>)
<1>1. Delimiters(<<>>) = {} /\ Cardinality({}) = 0 /\ Len(<<>>) = 0
  BY FS_EmptySet, EmptyBytes DEF Delimiters
<1>2. FrameCount(<<>>) = 0
  BY <1>1 DEF FrameCount
<1>3. WholeFrames(<<>>)
  BY <1>1 DEF WholeFrames
<1>4. Pairs(<<>>) = {} /\ AtBoundary(<<>>)
  <2>1. 0 \div 2 = 0 /\ 0 % 2 = 0 /\ 1..0 = {}
    OBVIOUS
  <2> QED
    BY <1>1, <2>1 DEF Pairs, AtBoundary
<1>5. OnlyFrames(<<>>)
  <2>1. 1..0 = {}
    OBVIOUS
  <2> QED
    BY <1>1, <1>4, <2>1 DEF OnlyFrames
<1> QED
  BY <1>1, <1>2, <1>3, <1>4, <1>5 DEF Decodable, Local

LEMMA EmptiedTx ==
  ASSUME tx' = NoTx, port' = EmptyPort PROVE TxOK'
<1>1. /\ tx' \in TxHistory /\ tx'.written = <<>> /\ tx'.fetched = <<>>
      /\ port'.tx_fifo = <<>> /\ port'.tx_queue = <<>>
  BY EmptyTx
<1>2. OnTheWay' = <<>>
  BY <1>1, EmptyBytes DEF OnTheWay
<1>3. TxKept'
  BY <1>1, <1>2 DEF TxKept, OnTheWay
<1>4. TearsStayLocal'
  BY <1>1, <1>2, EmptyStream, TearsAreLocal
<1> QED
  BY <1>1, <1>3, <1>4, EmptyStream DEF TxOK

LEMMA EmptiedRx ==
  ASSUME rx' = NoRx, port' = EmptyPort PROVE RxOK'
<1>1. RxKept'
  BY EmptyTx, EmptyBytes DEF RxKept
<1> QED
  BY <1>1, EmptyTx DEF RxOK

(* A step that moves the bytes of one direction at most.                   *)
LEMMA TxMoved ==
  ASSUME TxOK, tx' \in TxHistory, tx'.written = tx.written, OnTheWay' = OnTheWay,
         tx'.raw = tx.raw, tx'.torn = tx.torn
  PROVE  TxOK'
<1>1. TxKept'
  BY DEF TxOK, TxKept, OnTheWay
<1>2. TearsStayLocal'
  BY TearsAreLocal DEF TxOK
<1> QED
  BY <1>1, <1>2 DEF TxOK

LEMMA TxUntouched ==
  ASSUME TxOK, tx' = tx, port'.tx_fifo = port.tx_fifo, port'.tx_queue = port.tx_queue
  PROVE  TxOK'
<1>1. OnTheWay' = OnTheWay
  BY DEF OnTheWay
<1>2. tx' \in TxHistory
  BY DEF TxOK
<1> QED
  BY <1>1, <1>2, TxMoved

LEMMA RxUntouched ==
  ASSUME RxOK, rx'.offered = rx.offered, rx'.taken = rx.taken, rx'.raw = rx.raw,
         rx' \in [offered : Bytes, taken : Bytes, delivered : Bytes, raw : BOOLEAN, truncated : BOOLEAN],
         port'.rx_fifo = port.rx_fifo, port'.rx_pending = port.rx_pending
  PROVE  RxOK'
  BY DEF RxOK, RxKept

(* The first call finds the rings as they were at the start.               *)
LEMMA ReadyIsPort == ASSUME FreshOK PROVE Ready = port
  BY DEF FreshOK, Ready

LEMMA ReturnOK ==
  ASSUME NEW status \in Status, NEW count \in Nat, Return(status, count)
  PROVE  CallOK' /\ call'.op = "none"
<1>1. call' = NoCall /\ ret' = [status |-> status, count |-> count]
  BY DEF Return
<1>2. /\ NoCall \in [op : {"none", "read", "queue_read", "transfer_frames"}, length : Nat, data : Bytes]
      /\ Len(NoCall.data) <= NoCall.length /\ NoCall.op = "none"
  BY EmptyBytes DEF NoCall
<1> QED
  BY <1>1, <1>2 DEF CallOK

LEMMA FieldTypes ==
  ASSUME ModelInv
  PROVE  /\ port.tx_queue \in Ring /\ port.tx_fifo \in Ring /\ port.rx_pending \in Ring
         /\ port.rx_fifo \in Ring /\ port.rx_queue \in Ring
         /\ tx.written \in Bytes /\ tx.fetched \in Bytes /\ tx.collected \in Bytes
         /\ tx.took \in Bytes /\ tx.raw \in BOOLEAN /\ tx.torn \in BOOLEAN
         /\ rx.offered \in Bytes /\ rx.taken \in Bytes /\ rx.delivered \in Bytes
         /\ call.length \in Nat /\ call.data \in Bytes /\ Len(call.data) \in Nat
         /\ \A r \in Ring : r \in Bytes /\ Len(r) \in Nat
<1>1. \A r \in Ring : r \in Bytes /\ Len(r) \in Nat
  BY EmptyBytes DEF Ring
<1>2. call.length \in Nat /\ call.data \in Bytes
  BY DEF ModelInv, CallOK
<1>3. Len(call.data) \in Nat
  BY <1>2, EmptyBytes
<1> QED
  BY <1>1, <1>2, <1>3 DEF ModelInv, Rings, TxOK, RxOK, TxHistory

-----------------------------------------------------------------------------
(* One step at a time.                                                     *)

LEMMA ModelInit == Init => ModelInv
<1> SUFFICES ASSUME Init PROVE ModelInv
  OBVIOUS
<1>1. port \in Rings
  BY EmptyTx DEF Init
<1>2. CallOK /\ FreshOK
  <2>1. /\ NoCall \in [op : {"none", "read", "queue_read", "transfer_frames"}, length : Nat, data : Bytes]
        /\ Len(NoCall.data) <= NoCall.length /\ NoCall.op = "none"
    BY EmptyBytes DEF NoCall
  <2> QED
    BY <2>1 DEF Init, CallOK, FreshOK, Status
<1>3. TxOK
  <2>1. /\ tx \in TxHistory /\ tx.written = <<>> /\ tx.fetched = <<>>
        /\ port.tx_fifo = <<>> /\ port.tx_queue = <<>>
    BY EmptyTx DEF Init
  <2>2. OnTheWay = <<>>
    BY <2>1, EmptyBytes DEF OnTheWay
  <2>3. TxKept
    BY <2>1, <2>2 DEF TxKept, OnTheWay
  <2>4. TearsStayLocal
    BY <2>1, <2>2, EmptyStream, TearsAreLocal
  <2> QED
    BY <2>1, <2>3, <2>4, EmptyStream DEF TxOK
<1>4. RxOK
  BY EmptyTx, EmptyBytes DEF Init, RxOK, RxKept
<1> QED
  BY <1>1, <1>2, <1>3, <1>4 DEF ModelInv

LEMMA AnswerStep ==
  ASSUME ModelInv, NEW status \in Status, NEW count \in Nat, Answer(status, count)
  PROVE  ModelInv' /\ port' = port
<1>1. is_initialized' = TRUE /\ port' = port /\ Return(status, count) /\ tx' = tx /\ rx' = rx
  BY ReadyIsPort DEF Answer, Enter, ModelInv
<1>2. CallOK' /\ FreshOK'
  BY <1>1, ReturnOK DEF FreshOK
<1>3. TxOK' /\ RxOK'
  BY <1>1, TxUntouched, RxUntouched DEF ModelInv, RxOK
<1> QED
  BY <1>1, <1>2, <1>3 DEF ModelInv

LEMMA BeginStep ==
  ASSUME ModelInv, NEW op \in {"read", "queue_read", "transfer_frames"}, NEW n \in Nat, Begin(op, n)
  PROVE  ModelInv' /\ port' = port
<1>1. /\ is_initialized' = TRUE /\ port' = port /\ tx' = [tx EXCEPT !.took = <<>>]
      /\ rx' = rx /\ ret' = ret
      /\ call' = [op |-> op, length |-> n, data |-> <<>>]
  BY ReadyIsPort DEF Begin, Enter, ModelInv
<1>2. CallOK' /\ FreshOK'
  BY <1>1, EmptyBytes DEF FreshOK, CallOK, ModelInv
<1>3. TxOK' /\ RxOK'
  <2>1. /\ tx' \in TxHistory /\ tx'.written = tx.written /\ tx'.fetched = tx.fetched
        /\ tx'.raw = tx.raw /\ tx'.torn = tx.torn
    BY <1>1, EmptyBytes DEF ModelInv, TxOK, TxHistory
  <2>2. OnTheWay' = OnTheWay
    BY <1>1, <2>1 DEF OnTheWay
  <2>3. TxOK'
    BY <2>1, <2>2, TxMoved DEF ModelInv
  <2> QED
    BY <1>1, <2>3, RxUntouched DEF ModelInv, RxOK
<1> QED
  BY <1>1, <1>2, <1>3 DEF ModelInv

(* A frame that fits is a frame, and the ring has room for it.             *)
LEMMA AcceptedFrame ==
  ASSUME NEW r \in Ring, NEW p \in Bytes, Accepts(r, p)
  PROVE  /\ IsFrame(Frame(p)) /\ Frame(p) \in Bytes /\ r \o Frame(p) \in Ring
         /\ Decode(Frame(p), QueueCapacity).status = "OK"
<1>1. IsFrame(Frame(p)) /\ Frame(p) \in Bytes
  BY FrameIsFrame DEF Accepts, IsFrame
<1>2. r \in Bytes
  BY DEF Ring
<1>3. r \o Frame(p) \in Bytes /\ Len(r \o Frame(p)) = Len(r) + Len(Frame(p))
  BY <1>1, <1>2, Assoc
<1>4. Decode(Frame(p), QueueCapacity).status = "OK"
  <2>1. Encodable(p, MaxEncoded) /\ MaxEncoded \in Nat
    BY FrameAssumption DEF Accepts, Frame, Encode, MaxEncoded
  <2>2. Decode(Encode(p, MaxEncoded), QueueCapacity) = [status |-> "OK", data |-> p]
    BY <2>1, DecodeUndoesEncode
  <2> QED
    BY <2>2 DEF Frame
<1> QED
  BY <1>1, <1>3, <1>4 DEF Accepts, Ring

LEMMA WriteAcceptedStep ==
  ASSUME ModelInv, NEW p \in Payloads, WriteAccepted(p)
  PROVE  ModelInv' /\ port'.rx_fifo = port.rx_fifo
<1> DEFINE f == Frame(p)
<1>1. /\ is_initialized' = TRUE /\ Accepts(port.tx_queue, p)
      /\ port' = [port EXCEPT !.tx_queue = port.tx_queue \o f]
      /\ tx' = [tx EXCEPT !.written = tx.written \o f]
      /\ Return("OK", Len(p)) /\ rx' = rx
  BY ReadyIsPort DEF WriteAccepted, Enter, ModelInv
<1>2. p \in Bytes /\ Len(p) \in Nat
  BY ModelAssumption, EmptyBytes
<1>3. /\ IsFrame(f) /\ f \in Bytes /\ port.tx_queue \o f \in Ring
      /\ Decode(f, QueueCapacity).status = "OK"
  BY <1>1, <1>2, FieldTypes, AcceptedFrame
<1> HIDE DEF f
<1>4. /\ port' \in Rings /\ port'.tx_queue = port.tx_queue \o f /\ port'.tx_fifo = port.tx_fifo
      /\ port'.rx_fifo = port.rx_fifo /\ port'.rx_pending = port.rx_pending
  BY <1>1, <1>3 DEF ModelInv, Rings
<1>5. CallOK' /\ FreshOK'
  BY <1>1, <1>2, ReturnOK DEF FreshOK, Status
<1>6. TxOK'
  <2>1. tx.written \o f \in Bytes
    BY <1>3, FieldTypes, Assoc
  <2>2. /\ tx' \in TxHistory
        /\ tx'.written = tx.written \o f /\ tx'.fetched = tx.fetched
        /\ tx'.raw = tx.raw /\ tx'.torn = tx.torn
    BY <1>1, <2>1 DEF ModelInv, TxOK, TxHistory
  <2>3. /\ tx.written \in Bytes /\ WholeFrames(tx.written) /\ AtBoundary(tx.written)
        /\ Decodable(tx.written)
    BY FieldTypes DEF ModelInv, TxOK, WholeFrames, AtBoundary
  <2>4. WholeFrames(tx.written \o f) /\ Decodable(tx.written \o f)
    BY <1>3, <2>3, WholeFramesAppend, DecodableAppend
  <2>5. OnTheWay \in Bytes /\ OnTheWay' = OnTheWay \o f
    <3> DEFINE a == tx.fetched \o port.tx_fifo
               b == port.tx_queue
    <3>1. a \in Bytes /\ b \in Bytes
      BY FieldTypes, Assoc
    <3>2. OnTheWay = a \o b /\ OnTheWay' = a \o (b \o f)
      BY <1>4, <2>2 DEF OnTheWay
    <3> HIDE DEF a, b
    <3>3. a \o b \in Bytes /\ a \o (b \o f) = (a \o b) \o f
      BY <1>3, <3>1, Assoc
    <3> QED
      BY <3>2, <3>3
  <2>6. TxKept'
    BY <2>2, <2>5 DEF ModelInv, TxOK, TxKept, OnTheWay
  <2>7. ASSUME ~tx.raw PROVE Local(OnTheWay \o f, tx.written \o f)
    <3>1. Local(OnTheWay, tx.written)
      BY <2>7, TearsAreLocal DEF ModelInv, TxOK
    <3> QED
      BY <1>3, <2>3, <2>5, <3>1, LocalAppend
  <2>8. TearsStayLocal'
    BY <2>2, <2>5, <2>7, TearsAreLocal
  <2> QED
    BY <2>2, <2>4, <2>6, <2>8 DEF TxOK
<1>7. RxOK'
  BY <1>1, <1>4, RxUntouched DEF ModelInv, RxOK
<1> QED
  BY <1>4, <1>5, <1>6, <1>7 DEF ModelInv

LEMMA ReceiveAcceptedStep ==
  ASSUME ModelInv, NEW p \in Payloads, ReceiveAccepted(p)
  PROVE  ModelInv' /\ port'.rx_fifo = port.rx_fifo
<1> DEFINE f == Frame(p)
<1>1. /\ is_initialized' = TRUE /\ Accepts(port.rx_pending, p)
      /\ port' = [port EXCEPT !.rx_pending = port.rx_pending \o f]
      /\ rx' = [rx EXCEPT !.offered = rx.offered \o f]
      /\ Return("OK", Len(p)) /\ tx' = tx
  BY ReadyIsPort DEF ReceiveAccepted, Enter, ModelInv
<1>2. p \in Bytes /\ Len(p) \in Nat
  BY ModelAssumption, EmptyBytes
<1>3. f \in Bytes /\ port.rx_pending \o f \in Ring
  BY <1>1, <1>2, FieldTypes, AcceptedFrame
<1> HIDE DEF f
<1>4. /\ port' \in Rings /\ port'.rx_pending = port.rx_pending \o f /\ port'.tx_fifo = port.tx_fifo
      /\ port'.rx_fifo = port.rx_fifo /\ port'.tx_queue = port.tx_queue
  BY <1>1, <1>3 DEF ModelInv, Rings
<1>5. CallOK' /\ FreshOK'
  BY <1>1, <1>2, ReturnOK DEF FreshOK, Status
<1>6. RxOK'
  <2>1. rx.offered \o f \in Bytes
    BY <1>3, FieldTypes, Assoc
  <2>2. /\ rx' \in [offered : Bytes, taken : Bytes, delivered : Bytes, raw : BOOLEAN, truncated : BOOLEAN]
        /\ rx'.offered = rx.offered \o f /\ rx'.taken = rx.taken /\ rx'.raw = rx.raw
    BY <1>1, <2>1 DEF ModelInv, RxOK
  <2>3. (rx.taken \o port.rx_fifo) \o (port.rx_pending \o f)
          = ((rx.taken \o port.rx_fifo) \o port.rx_pending) \o f
    <3> DEFINE a == rx.taken \o port.rx_fifo
               b == port.rx_pending
    <3>1. a \in Bytes /\ b \in Bytes
      BY FieldTypes, Assoc
    <3> HIDE DEF a, b
    <3>2. a \o (b \o f) = (a \o b) \o f
      BY <1>3, <3>1, Assoc
    <3> QED
      BY <3>2 DEF a, b
  <2>4. RxKept'
    BY <1>4, <2>2, <2>3 DEF ModelInv, RxOK, RxKept
  <2> QED
    BY <2>2, <2>4 DEF RxOK
<1>7. TxOK'
  BY <1>1, <1>4, TxUntouched DEF ModelInv
<1> QED
  BY <1>4, <1>5, <1>6, <1>7 DEF ModelInv

(* A poll flushes and stages: two moves between neighbouring rings.        *)
LEMMA PollPortStep ==
  ASSUME ModelInv, PollPort
  PROVE  ModelInv' /\ (Room(port.rx_fifo) = 0 => port'.rx_fifo = port.rx_fifo)
<1> DEFINE i == Movable(port.tx_queue, port.tx_fifo)
           k == Movable(port.rx_pending, port.rx_fifo)
           txq == Suffix(port.tx_queue, i)
           txf == RingWrite(port.tx_fifo, Prefix(port.tx_queue, i))
           rxp == Suffix(port.rx_pending, k)
           rxf == RingWrite(port.rx_fifo, Prefix(port.rx_pending, k))
<1>1. /\ is_initialized' = TRUE /\ port' = StageRxBytes(FlushTxQueue(port))
      /\ Return(IF HasCompleteFrame(port'.rx_fifo) THEN "MESSAGE_READY" ELSE "MESSAGE_NOT_READY", 0)
      /\ tx' = tx /\ rx' = rx
  BY ReadyIsPort DEF PollPort, Enter, ModelInv
<1>2. /\ txq \in Ring /\ txf \in Ring /\ (tx.fetched \o txf) \o txq = (tx.fetched \o port.tx_fifo) \o port.tx_queue
      /\ rxp \in Ring /\ rxf \in Ring /\ (rx.taken \o rxf) \o rxp = (rx.taken \o port.rx_fifo) \o port.rx_pending
      /\ Room(port.rx_fifo) = 0 => rxf = port.rx_fifo
  BY FieldTypes, MovedBytes
<1>3. FlushTxQueue(port) = [port EXCEPT !.tx_queue = txq, !.tx_fifo = txf]
  BY DEF FlushTxQueue, TransferBytes, ModelInv, Rings
<1>4. port' = [tx_queue |-> txq, tx_fifo |-> txf, rx_pending |-> rxp, rx_fifo |-> rxf,
               rx_queue |-> port.rx_queue]
  <2> DEFINE r == FlushTxQueue(port)
  <2> HIDE DEF txq, txf, i
  <2>1. r = [tx_queue |-> txq, tx_fifo |-> txf, rx_pending |-> port.rx_pending,
             rx_fifo |-> port.rx_fifo, rx_queue |-> port.rx_queue]
    BY <1>3 DEF ModelInv, Rings
  <2>2. port' = [r EXCEPT !.rx_pending = Suffix(@, Movable(r.rx_pending, r.rx_fifo)),
                          !.rx_fifo = RingWrite(@, Prefix(r.rx_pending, Movable(r.rx_pending, r.rx_fifo)))]
    BY <1>1 DEF StageRxBytes, TransferBytes
  <2> HIDE DEF r
  <2>3. r.rx_pending = port.rx_pending /\ r.rx_fifo = port.rx_fifo
    BY <2>1
  <2>4. port' = [r EXCEPT !.rx_pending = rxp, !.rx_fifo = rxf]
    BY <2>2, <2>3
  <2> HIDE DEF rxp, rxf
  <2> QED
    BY <2>1, <2>4
<1> HIDE DEF txq, txf, rxp, rxf, i, k
<1>5. /\ port' \in Rings /\ port'.tx_queue = txq /\ port'.tx_fifo = txf
      /\ port'.rx_pending = rxp /\ port'.rx_fifo = rxf
  BY <1>2, <1>4, FieldTypes DEF Rings
<1>6. CallOK' /\ FreshOK'
  BY <1>1, ReturnOK DEF FreshOK, Status
<1>7. TxOK'
  <2>1. OnTheWay' = OnTheWay
    BY <1>1, <1>2, <1>5 DEF OnTheWay
  <2>2. tx' \in TxHistory
    BY <1>1 DEF ModelInv, TxOK
  <2> QED
    BY <1>1, <2>1, <2>2, TxMoved DEF ModelInv
<1>8. RxOK'
  <2>1. RxKept'
    BY <1>1, <1>2, <1>5 DEF ModelInv, RxOK, RxKept
  <2> QED
    BY <1>1, <2>1 DEF ModelInv, RxOK
<1> QED
  BY <1>2, <1>5, <1>6, <1>7, <1>8 DEF ModelInv

LEMMA InjectCount ==
  ASSUME NEW r \in Ring, NEW s \in Bytes
  PROVE  AtMost(Len(s), Room(r)) \in Nat /\ RingWrite(r, s) \in Ring
         /\ (Room(r) = 0 => RingWrite(r, s) = r)
<1>1. Len(s) \in Nat /\ Room(r) \in Nat
  BY EmptyBytes, RingWriteFits
<1>2. AtMost(Len(s), Room(r)) \in Nat
  BY <1>1 DEF AtMost
<1> QED
  BY <1>2, RingWriteFits

LEMMA InjectRxStep ==
  ASSUME ModelInv, NEW s \in RawBytes, InjectRx(s)
  PROVE  ModelInv' /\ (Room(port.rx_fifo) = 0 => port'.rx_fifo = port.rx_fifo)
<1> DEFINE x == RingWrite(port.rx_fifo, s)
<1>1. /\ is_initialized' = TRUE /\ tx' = tx /\ rx' = [rx EXCEPT !.raw = TRUE]
      /\ port' = [port EXCEPT !.rx_fifo = x]
      /\ Return("OK", AtMost(Len(s), Room(port.rx_fifo)))
  BY ReadyIsPort DEF InjectRx, Enter, ModelInv, Injected
<1>2. /\ AtMost(Len(s), Room(port.rx_fifo)) \in Nat /\ x \in Ring
      /\ Room(port.rx_fifo) = 0 => x = port.rx_fifo
  BY FieldTypes, InjectCount, ModelAssumption
<1> HIDE DEF x
<1>3. /\ port' \in Rings /\ port'.rx_fifo = x
      /\ port'.tx_fifo = port.tx_fifo /\ port'.tx_queue = port.tx_queue
  BY <1>1, <1>2 DEF ModelInv, Rings
<1>4. CallOK' /\ FreshOK'
  BY <1>1, <1>2, ReturnOK DEF FreshOK, Status
<1>5. TxOK'
  BY <1>1, <1>3, TxUntouched DEF ModelInv
<1>6. RxOK'
  BY <1>1 DEF ModelInv, RxOK, RxKept
<1> QED
  BY <1>2, <1>3, <1>4, <1>5, <1>6 DEF ModelInv

LEMMA InjectTxStep ==
  ASSUME ModelInv, NEW s \in RawBytes, InjectTx(s)
  PROVE  ModelInv' /\ port'.rx_fifo = port.rx_fifo
<1> DEFINE x == RingWrite(port.tx_fifo, s)
<1>1. /\ is_initialized' = TRUE /\ rx' = rx /\ tx' = [tx EXCEPT !.raw = TRUE]
      /\ port' = [port EXCEPT !.tx_fifo = x]
      /\ Return("OK", AtMost(Len(s), Room(port.tx_fifo)))
  BY ReadyIsPort DEF InjectTx, Enter, ModelInv, Injected
<1>2. AtMost(Len(s), Room(port.tx_fifo)) \in Nat /\ x \in Ring
  BY FieldTypes, InjectCount, ModelAssumption
<1> HIDE DEF x
<1>3. port' \in Rings /\ port'.rx_fifo = port.rx_fifo /\ port'.rx_pending = port.rx_pending
  BY <1>1, <1>2 DEF ModelInv, Rings
<1>4. CallOK' /\ FreshOK'
  BY <1>1, <1>2, ReturnOK DEF FreshOK, Status
<1>5. TxOK'
  <2>1. tx' \in TxHistory /\ tx'.written = tx.written /\ tx'.raw
    BY <1>1 DEF ModelInv, TxOK, TxHistory
  <2>2. TxKept' /\ TearsStayLocal'
    BY <2>1, TearsAreLocal DEF TxKept
  <2> QED
    BY <2>1, <2>2 DEF ModelInv, TxOK
<1>6. RxOK'
  BY <1>1, <1>3, RxUntouched DEF ModelInv, RxOK
<1> QED
  BY <1>3, <1>4, <1>5, <1>6 DEF ModelInv

LEMMA FrameCountNat == ASSUME NEW r \in Ring PROVE FrameCount(r) \in Nat
<1> DEFINE T == {j \in Delimiters(r) : (\E i \in Delimiters(r) : i < j) /\ r[j - 1] # Delimiter}
<1>1. T \in SUBSET Delimiters(r) /\ r \in Bytes
  BY DEF Ring
<1> HIDE DEF T
<1>2. Cardinality(T) \in Nat
  BY <1>1, DelimitersFinite
<1> QED
  BY <1>2 DEF T, FrameCount

LEMMA LevelStep ==
  ASSUME ModelInv, NEW ring \in {"rx_fifo", "tx_fifo"}, Level(ring)
  PROVE  ModelInv' /\ port' = port
<1>1. Ready[ring] \in Ring
  BY ReadyIsPort, FieldTypes DEF ModelInv
<1>2. FrameCount(Ready[ring]) \in Nat
  BY <1>1, FrameCountNat
<1> QED
  BY <1>2, AnswerStep DEF Level, Status

LEMMA ResetStep == ASSUME ModelInv, Reset PROVE ModelInv' /\ port' = EmptyPort
<1>1. /\ is_initialized' = TRUE /\ port' = EmptyPort /\ tx' = NoTx /\ rx' = NoRx /\ Return("OK", 0)
  BY DEF Reset
<1>2. CallOK' /\ FreshOK'
  BY <1>1, ReturnOK DEF FreshOK, Status
<1> QED
  BY <1>1, <1>2, EmptyTx, EmptiedTx, EmptiedRx DEF ModelInv

-----------------------------------------------------------------------------
(* Frames moved past the poll.                                             *)

(* A transfer fits, keeps the transmit stream unless it begins inside a    *)
(* frame, and then shortens only that frame.                               *)
LEMMA TransferFrameKeeps ==
  ASSUME ModelInv, MayTransfer(port), TransferFrame(port)
  PROVE  port' \in Rings /\ TxOK' /\ RxOK' /\ port'.rx_fifo = port.rx_fifo
<1> DEFINE q == port.tx_queue
           b == port.tx_fifo
           cut == ReadFrame(q, MaxEncoded)
           f == cut.frame
           rest == AfterCut(q, cut)
           x == RingWrite(b, f)
           a == tx.fetched \o b
<1>1. /\ port' = [port EXCEPT !.tx_queue = rest, !.tx_fifo = x]
      /\ tx' = [tx EXCEPT !.torn = @ \/ InsideFrame]
      /\ rx' = rx
  BY DEF TransferFrame
<1>2. /\ q \in Ring /\ q \in Bytes /\ b \in Ring /\ b \in Bytes /\ tx.fetched \in Bytes
      /\ a \in Bytes
  BY FieldTypes, Assoc
<1>3. f \in Bytes /\ rest \in Ring /\ rest = cut.rest
  BY <1>2, CutRing DEF AfterCut
<1>4. x \in Ring
  BY <1>2, <1>3, RingWriteFits
<1>5. FrameCount(q) > 0 /\ Len(b) + MaxEncoded <= RingCapacity
  BY DEF MayTransfer, CanAcceptFrame
<1>6. WholeFrames(tx.written) /\ tx.written \in Bytes
  BY FieldTypes DEF ModelInv, TxOK
<1>7. ASSUME ~tx.raw
      PROVE  /\ Len(f) <= MaxEncoded /\ Local((a \o f) \o rest, tx.written)
             /\ AtBoundary(a) => f \o rest = q
  <2>1. Local(a \o q, tx.written)
    BY <1>7, TearsAreLocal DEF ModelInv, TxOK, OnTheWay
  <2> HIDE DEF a, q
  <2> QED
    BY <1>2, <1>3, <1>5, <1>6, <2>1, LocalCut
<1> HIDE DEF f, rest, x, cut
<1>8. ASSUME ~tx.raw PROVE x = b \o f
  <2>1. Len(f) \in Nat /\ Len(b) \in Nat /\ RingCapacity \in Nat /\ MaxEncoded \in Nat
    BY <1>2, <1>3, EmptyBytes, ModelAssumption, FrameAssumption DEF MaxEncoded
  <2> DEFINE l == Len(f)
             k == Len(b)
  <2>2. l \in Nat /\ k \in Nat /\ l <= MaxEncoded /\ k + MaxEncoded <= RingCapacity
    BY <1>5, <1>7, <1>8, <2>1
  <2>3. Room(b) = RingCapacity - k
    BY DEF Room
  <2> HIDE DEF l, k
  <2>4. l <= RingCapacity - k
    BY <2>1, <2>2
  <2>5. Len(f) <= Room(b)
    BY <2>3, <2>4 DEF l
  <2> HIDE DEF b
  <2> QED
    BY <1>2, <1>3, <2>5, RingWriteFits DEF x
<1>9. /\ port' \in Rings /\ port'.tx_queue = rest /\ port'.tx_fifo = x
      /\ port'.rx_fifo = port.rx_fifo /\ port'.rx_pending = port.rx_pending
  BY <1>1, <1>3, <1>4 DEF ModelInv, Rings
<1>10. /\ tx' \in TxHistory
       /\ tx'.written = tx.written /\ tx'.fetched = tx.fetched /\ tx'.raw = tx.raw
       /\ ~tx'.torn => ~tx.torn /\ ~InsideFrame
  <2> DEFINE t == tx.torn \/ InsideFrame
  <2>1. t \in BOOLEAN /\ (~t => ~tx.torn /\ ~InsideFrame) /\ tx' = [tx EXCEPT !.torn = t]
    BY <1>1 DEF InsideFrame
  <2> HIDE DEF t
  <2> QED
    BY <2>1 DEF ModelInv, TxOK, TxHistory
<1>11. ASSUME ~tx.raw PROVE OnTheWay' = (a \o f) \o rest
  <2>1. OnTheWay' = (tx.fetched \o (b \o f)) \o rest
    BY <1>8, <1>9, <1>10, <1>11 DEF OnTheWay
  <2> DEFINE z == tx.fetched
  <2>2. z \in Bytes /\ b \in Bytes /\ f \in Bytes
    BY <1>2, <1>3
  <2> HIDE DEF z, b
  <2>3. z \o (b \o f) = (z \o b) \o f
    BY <2>2, Assoc
  <2> QED
    BY <2>1, <2>3 DEF z
<1>12. ASSUME ~tx.raw, ~InsideFrame PROVE OnTheWay' = OnTheWay
  <2>1. AtBoundary(a)
    <3> DEFINE c == Cardinality(Delimiters(a))
    <3>1. c \in Nat /\ c % 2 # 1
      BY <1>2, <1>12, DelimitersFinite DEF InsideFrame
    <3> HIDE DEF c
    <3>2. c % 2 = 0
      BY <3>1
    <3> QED
      BY <3>2 DEF AtBoundary, c
  <2>2. f \o rest = q /\ f \in Bytes /\ rest \in Bytes
    BY <1>3, <1>7, <1>12, <2>1 DEF Ring
  <2>3. OnTheWay = a \o q /\ OnTheWay' = (a \o f) \o rest
    BY <1>11, <1>12 DEF OnTheWay
  <2> HIDE DEF a, q
  <2>4. (a \o f) \o rest = a \o (f \o rest)
    BY <1>2, <2>2, Associates DEF Join
  <2> QED
    BY <2>2, <2>3, <2>4
<1>13. TxOK'
  <2>1. TxKept'
    BY <1>10, <1>12 DEF ModelInv, TxOK, TxKept, OnTheWay
  <2>2. TearsStayLocal'
    BY <1>7, <1>10, <1>11, TearsAreLocal
  <2> QED
    BY <1>10, <2>1, <2>2 DEF ModelInv, TxOK
<1>14. RxOK'
  BY <1>1, <1>9, RxUntouched DEF ModelInv, RxOK
<1> QED
  BY <1>9, <1>13, <1>14

LEMMA TransferNextTxFrameStep ==
  ASSUME ModelInv, TransferNextTxFrame
  PROVE  ModelInv' /\ port'.rx_fifo = port.rx_fifo
<1>1. Ready = port
  BY ReadyIsPort DEF ModelInv
<1>2. CASE MayTransfer(Ready) /\ Enter /\ TransferFrame(Ready)
             /\ Return(IF TransferOk(Ready) THEN "OK" ELSE "INVALID_FRAME", 0)
  <2>1. port' \in Rings /\ TxOK' /\ RxOK' /\ port'.rx_fifo = port.rx_fifo
    BY <1>1, <1>2, TransferFrameKeeps
  <2>2. CallOK' /\ call'.op = "none"
    BY <1>2, ReturnOK DEF Status
  <2>3. FreshOK'
    BY <1>2 DEF Enter, FreshOK
  <2> QED
    BY <2>1, <2>2, <2>3 DEF ModelInv
<1>3. CASE ~MayTransfer(Ready) /\ Answer("INVALID_FRAME", 0)
  BY <1>3, AnswerStep DEF Status
<1> QED
  BY <1>2, <1>3 DEF TransferNextTxFrame

LEMMA TransferNextFrameStep ==
  ASSUME ModelInv, TransferFramesStep
  PROVE  ModelInv' /\ port'.rx_fifo = port.rx_fifo
<1>1. is_initialized' = is_initialized /\ is_initialized
  BY DEF TransferFramesStep, ModelInv, FreshOK
<1>2. CASE /\ MayTransfer(port)
           /\ TransferFrame(port)
           /\ IF TransferOk(port) THEN UNCHANGED <<call, ret>> ELSE Return("INVALID_FRAME", 0)
  <2>1. port' \in Rings /\ TxOK' /\ RxOK' /\ port'.rx_fifo = port.rx_fifo
    BY <1>2, TransferFrameKeeps
  <2>2. CallOK'
    <3>1. CASE UNCHANGED <<call, ret>>
      BY <3>1 DEF ModelInv, CallOK
    <3>2. CASE Return("INVALID_FRAME", 0)
      BY <3>2, ReturnOK DEF Status
    <3> QED
      BY <1>2, <3>1, <3>2
  <2> QED
    BY <1>1, <2>1, <2>2 DEF ModelInv, FreshOK
<1>3. CASE ~MayTransfer(port) /\ Return("OK", 0) /\ UNCHANGED <<port, tx, rx>>
  <2>1. CallOK'
    BY <1>3, ReturnOK DEF Status
  <2>2. TxOK' /\ RxOK'
    BY <1>3, TxUntouched, RxUntouched DEF ModelInv, RxOK
  <2> QED
    BY <1>1, <1>3, <2>1, <2>2 DEF ModelInv, FreshOK
<1> QED
  BY <1>2, <1>3 DEF TransferFramesStep

-----------------------------------------------------------------------------
(* The loops of read and queue_read.                                       *)

(* What a cut takes out of a ring joins what was taken before.             *)
LEMMA TakenBytes ==
  ASSUME NEW w \in Bytes, NEW r \in Ring, NEW z \in Bytes
  PROVE  LET m == NextMessage(r)
         IN  /\ w \o m.bytes \in Bytes
             /\ (w \o m.bytes) \o m.rest = w \o r
             /\ ((w \o m.bytes) \o m.rest) \o z = (w \o r) \o z
<1> DEFINE m == NextMessage(r)
           b == m.bytes
           c == m.rest
<1>1. b \in Bytes /\ c \in Bytes /\ b \o c = r
  BY NextMessageCuts DEF Ring
<1> HIDE DEF b, c
<1>2. w \o b \in Bytes /\ (w \o b) \o c = w \o (b \o c)
  BY <1>1, Assoc
<1> QED
  BY <1>1, <1>2 DEF b, c

LEMMA DecodeFrameStep ==
  ASSUME ModelInv, DecodeFrame
  PROVE  ModelInv' /\ HasCompleteFrame(port.rx_fifo)
<1> DEFINE m == NextMessage(port.rx_fifo)
           fits == Len(m.data) <= Room(port.rx_queue)
           x == RingWrite(port.rx_queue, m.data)
           t == rx.taken \o m.bytes
<1>1. /\ call.op = "read" /\ HasCompleteFrame(port.rx_fifo)
      /\ port' = [port EXCEPT !.rx_fifo = m.rest, !.rx_queue = x]
      /\ rx' = [rx EXCEPT !.taken = t, !.truncated = @ \/ ~fits]
      /\ UNCHANGED <<call, ret>> \/ Return("INVALID_FRAME", 0)
      /\ is_initialized' = is_initialized /\ tx' = tx
  BY DEF DecodeFrame, MayDecode
<1>2. m.data \in Bytes /\ m.rest \in Ring
  BY FieldTypes, NextMessageCuts
<1>3. /\ t \in Bytes
      /\ (t \o m.rest) \o port.rx_pending = (rx.taken \o port.rx_fifo) \o port.rx_pending
  BY FieldTypes, TakenBytes
<1>4. x \in Ring
  BY <1>2, FieldTypes, RingWriteFits
<1> DEFINE rest == m.rest
<1> HIDE DEF m, x, t, fits
<1>5. /\ port' \in Rings /\ port'.rx_fifo = rest /\ port'.rx_pending = port.rx_pending
      /\ port'.tx_fifo = port.tx_fifo /\ port'.tx_queue = port.tx_queue
  BY <1>1, <1>2, <1>4 DEF ModelInv, Rings
<1>6. CallOK' /\ FreshOK'
  <2>1. CallOK'
    <3>1. CASE UNCHANGED <<call, ret>>
      BY <3>1 DEF ModelInv, CallOK
    <3>2. CASE Return("INVALID_FRAME", 0)
      BY <3>2, ReturnOK DEF Status
    <3> QED
      BY <1>1, <3>1, <3>2
  <2> QED
    BY <1>1, <2>1 DEF ModelInv, FreshOK
<1>7. TxOK'
  BY <1>1, <1>5, TxUntouched DEF ModelInv
<1>8. RxOK'
  <2> DEFINE u == rx.truncated \/ ~fits
  <2>1. u \in BOOLEAN /\ rx' = [rx EXCEPT !.taken = t, !.truncated = u]
    BY <1>1 DEF fits, m
  <2> HIDE DEF u, rest
  <2>2. /\ rx' \in [offered : Bytes, taken : Bytes, delivered : Bytes, raw : BOOLEAN, truncated : BOOLEAN]
        /\ rx'.taken = t /\ rx'.offered = rx.offered /\ rx'.raw = rx.raw
    BY <1>3, <2>1 DEF ModelInv, RxOK
  <2>3. (t \o rest) \o port.rx_pending = (rx.taken \o port.rx_fifo) \o port.rx_pending
    BY <1>3 DEF rest
  <2>4. RxKept'
    BY <1>5, <2>2, <2>3 DEF ModelInv, RxOK, RxKept
  <2> QED
    BY <2>2, <2>4 DEF RxOK
<1> QED
  BY <1>1, <1>5, <1>6, <1>7, <1>8 DEF ModelInv

LEMMA ReadFailedStep == ASSUME ModelInv, ReadFailed PROVE ModelInv' /\ port' = port
<1>1. /\ call.op = "read" /\ Return("INVALID_FRAME", 0)
      /\ port' = port /\ is_initialized' = is_initialized /\ tx' = tx /\ rx' = rx
  BY DEF ReadFailed, AfterFailure, ModelInv, Rings
<1>2. CallOK' /\ FreshOK'
  BY <1>1, ReturnOK DEF ModelInv, FreshOK, Status
<1>3. TxOK' /\ RxOK'
  BY <1>1, TxUntouched, RxUntouched DEF ModelInv, RxOK
<1> QED
  BY <1>1, <1>2, <1>3 DEF ModelInv

LEMMA ReadReturnStep ==
  ASSUME ModelInv, ReadReturn
  PROVE  ModelInv' /\ port'.rx_fifo = port.rx_fifo
<1> DEFINE n == call.length
           s == Suffix(port.rx_queue, n)
           d == rx.delivered \o Prefix(port.rx_queue, n)
<1>1. /\ call.op = "read"
      /\ port' = [port EXCEPT !.rx_queue = s] /\ rx' = [rx EXCEPT !.delivered = d]
      /\ Return("OK", AtMost(n, Len(port.rx_queue)))
      /\ is_initialized' = is_initialized /\ tx' = tx
  BY DEF ReadReturn
<1>2. n \in Nat /\ port.rx_queue \in Ring /\ port.rx_queue \in Bytes /\ rx.delivered \in Bytes
      /\ Len(port.rx_queue) \in Nat
  BY FieldTypes
<1>3. s \in Ring
  BY <1>2, SuffixRing
<1>4. d \in Bytes
  BY <1>2, PrefixSuffix, Assoc
<1>5. AtMost(n, Len(port.rx_queue)) \in Nat
  BY <1>2 DEF AtMost
<1> HIDE DEF s, d, n
<1>6. /\ port' \in Rings /\ port'.rx_fifo = port.rx_fifo /\ port'.rx_pending = port.rx_pending
      /\ port'.tx_fifo = port.tx_fifo /\ port'.tx_queue = port.tx_queue
  BY <1>1, <1>3 DEF ModelInv, Rings
<1>7. CallOK' /\ FreshOK'
  BY <1>1, <1>5, ReturnOK DEF ModelInv, FreshOK, Status
<1>8. TxOK'
  BY <1>1, <1>6, TxUntouched DEF ModelInv
<1>9. RxOK'
  <2>1. /\ rx' \in [offered : Bytes, taken : Bytes, delivered : Bytes, raw : BOOLEAN, truncated : BOOLEAN]
        /\ rx'.taken = rx.taken /\ rx'.offered = rx.offered /\ rx'.raw = rx.raw
    BY <1>1, <1>4 DEF ModelInv, RxOK
  <2> QED
    BY <1>6, <2>1, RxUntouched DEF ModelInv
<1> QED
  BY <1>6, <1>7, <1>8, <1>9 DEF ModelInv

LEMMA FetchFrameStep ==
  ASSUME ModelInv, FetchFrame
  PROVE  ModelInv' /\ port'.rx_fifo = port.rx_fifo
<1> DEFINE m == NextMessage(port.tx_fifo)
           fits == Len(call.data) + Len(m.data) <= call.length
           ok == m.status = "OK" /\ fits
           t == tx.fetched \o m.bytes
           u == tx.took \o m.bytes
           rest == m.rest
<1>1. /\ call.op = "queue_read"
      /\ port' = [port EXCEPT !.tx_fifo = rest]
      /\ tx' = [tx EXCEPT !.fetched = t, !.took = u]
      /\ \/ ok /\ call' = [call EXCEPT !.data = @ \o m.data] /\ ret' = ret
         \/ Return(IF fits THEN m.status ELSE "INVALID_ARGUMENT", 0)
      /\ is_initialized' = is_initialized /\ rx' = rx
  BY DEF FetchFrame
<1>2. m.data \in Bytes /\ rest \in Ring /\ m.status \in Status
  BY FieldTypes, NextMessageCuts
<1>3. /\ t \in Bytes /\ u \in Bytes
      /\ (t \o rest) \o port.tx_queue = (tx.fetched \o port.tx_fifo) \o port.tx_queue
  BY FieldTypes, TakenBytes
<1>4. call.length \in Nat /\ call.data \in Bytes
  BY FieldTypes
<1> HIDE DEF m, t, u, rest, fits
<1>5. /\ port' \in Rings /\ port'.tx_fifo = rest /\ port'.tx_queue = port.tx_queue
      /\ port'.rx_fifo = port.rx_fifo /\ port'.rx_pending = port.rx_pending
  BY <1>1, <1>2 DEF ModelInv, Rings
<1>6. CallOK' /\ FreshOK'
  <2>1. CASE ok /\ call' = [call EXCEPT !.data = @ \o m.data] /\ ret' = ret
    <3> DEFINE d == call.data \o m.data
    <3>1. d \in Bytes /\ Len(d) <= call.length
      BY <1>2, <1>4, <2>1, Assoc DEF fits
    <3>2. call' = [call EXCEPT !.data = d]
      BY <2>1
    <3> HIDE DEF d
    <3>3. CallOK'
      BY <2>1, <3>1, <3>2 DEF ModelInv, CallOK
    <3>4. call'.op = call.op
      BY <3>2 DEF ModelInv, CallOK
    <3> QED
      BY <1>1, <3>3, <3>4 DEF ModelInv, FreshOK
  <2>2. CASE Return(IF fits THEN m.status ELSE "INVALID_ARGUMENT", 0)
    <3> DEFINE status == IF fits THEN m.status ELSE "INVALID_ARGUMENT"
    <3>1. status \in Status
      BY <1>2 DEF Status
    <3> HIDE DEF status
    <3>2. CallOK' /\ call'.op = "none"
      BY <2>2, <3>1, ReturnOK DEF status
    <3> QED
      BY <1>1, <3>2 DEF ModelInv, FreshOK
  <2> QED
    BY <1>1, <2>1, <2>2
<1>7. TxOK'
  <2>1. /\ tx' \in TxHistory
        /\ tx'.fetched = t /\ tx'.written = tx.written /\ tx'.raw = tx.raw /\ tx'.torn = tx.torn
    BY <1>1, <1>3 DEF ModelInv, TxOK, TxHistory
  <2>2. OnTheWay' = OnTheWay
    BY <1>3, <1>5, <2>1 DEF OnTheWay
  <2> QED
    BY <2>1, <2>2, TxMoved DEF ModelInv
<1>8. RxOK'
  BY <1>1, <1>5, RxUntouched DEF ModelInv, RxOK
<1> QED
  BY <1>5, <1>6, <1>7, <1>8 DEF ModelInv

LEMMA QueueReadReturnStep ==
  ASSUME ModelInv, QueueReadReturn
  PROVE  ModelInv' /\ port' = port
<1> DEFINE c == tx.collected \o call.data
<1>1. /\ call.op = "queue_read" /\ tx' = [tx EXCEPT !.collected = c]
      /\ Return("OK", Len(call.data))
      /\ is_initialized' = is_initialized /\ port' = port /\ rx' = rx
  BY DEF QueueReadReturn
<1>2. c \in Bytes /\ Len(call.data) \in Nat
  BY FieldTypes, Assoc
<1> HIDE DEF c
<1>3. CallOK' /\ FreshOK'
  BY <1>1, <1>2, ReturnOK DEF ModelInv, FreshOK, Status
<1>4. TxOK'
  <2>1. /\ tx' \in TxHistory /\ tx'.written = tx.written /\ tx'.fetched = tx.fetched
        /\ tx'.raw = tx.raw /\ tx'.torn = tx.torn
    BY <1>1, <1>2 DEF ModelInv, TxOK, TxHistory
  <2>2. OnTheWay' = OnTheWay
    BY <1>1, <2>1 DEF OnTheWay
  <2> QED
    BY <2>1, <2>2, TxMoved DEF ModelInv
<1>5. RxOK'
  BY <1>1, RxUntouched DEF ModelInv, RxOK
<1> QED
  BY <1>1, <1>3, <1>4, <1>5 DEF ModelInv

-----------------------------------------------------------------------------
LEMMA ModelStutter == ASSUME ModelInv, UNCHANGED vars PROVE ModelInv' /\ port' = port
<1>1. UNCHANGED <<is_initialized, port, call, ret, tx, rx>>
  BY DEF vars
<1>2. CallOK' /\ FreshOK'
  BY <1>1 DEF ModelInv, CallOK, FreshOK
<1>3. TxOK' /\ RxOK'
  BY <1>1, TxUntouched, RxUntouched DEF ModelInv, RxOK
<1> QED
  BY <1>1, <1>2, <1>3 DEF ModelInv

(* Every step keeps the invariant, and a full rx_fifo without two          *)
(* delimiters is left as it is unless the step is a reset.                 *)
LEMMA ModelNext ==
  ASSUME ModelInv, [Next]_vars
  PROVE  /\ ModelInv'
         /\ \/ port'.rx_fifo = port.rx_fifo
            \/ port' = EmptyPort
            \/ HasCompleteFrame(port.rx_fifo)
            \/ Room(port.rx_fifo) # 0
<1>1. CASE \E status \in {"INVALID_PORT", "INVALID_ARGUMENT"} : Answer(status, 0)
  BY <1>1, AnswerStep DEF Status
<1>2. CASE \E p \in Payloads : WriteAccepted(p) \/ ReceiveAccepted(p)
  BY <1>2, WriteAcceptedStep, ReceiveAcceptedStep
<1>3. CASE \E p \in Payloads : WriteRefused(p) \/ ReceiveRefused(p)
  BY <1>3, AnswerStep DEF WriteRefused, ReceiveRefused, Status
<1>4. CASE \E s \in RawBytes : InjectRx(s) \/ InjectTx(s) \/ InjectQueue(s)
  BY <1>4, InjectRxStep, InjectTxStep DEF InjectQueue
<1>5. CASE PollPort
  BY <1>5, PollPortStep
<1>6. CASE \E ring \in {"rx_fifo", "tx_fifo"} : Level(ring)
  BY <1>6, LevelStep
<1>7. CASE TransferNextTxFrame \/ TransferFramesStep
  BY <1>7, TransferNextTxFrameStep, TransferNextFrameStep
<1>8. CASE Begin("transfer_frames", 0) \/ \E n \in Lengths : Begin("read", n) \/ Begin("queue_read", n)
  BY <1>8, BeginStep, ModelAssumption
<1>9. CASE DecodeFrame \/ ReadFailed \/ ReadReturn
  BY <1>9, DecodeFrameStep, ReadFailedStep, ReadReturnStep
<1>10. CASE FetchFrame \/ QueueReadReturn
  BY <1>10, FetchFrameStep, QueueReadReturnStep
<1>11. CASE Reset
  BY <1>11, ResetStep
<1>12. CASE UNCHANGED vars
  BY <1>12, ModelStutter
<1> QED
  BY <1>1, <1>2, <1>3, <1>4, <1>5, <1>6, <1>7, <1>8, <1>9, <1>10, <1>11, <1>12 DEF Next

LEMMA ModelInvHolds == Spec => []ModelInv
<1>1. ModelInv /\ [Next]_vars => ModelInv'
  BY ModelNext
<1> QED
  BY ModelInit, <1>1, PTL DEF Spec

(* No ring of a port ever exceeds its storage, no queue_read returns more  *)
(* than its caller's buffer takes, and every call returns a documented     *)
(* result.                                                                 *)
THEOREM ModelTypeOK == Spec => []TypeOK
  BY ModelInvHolds, ModelInvImplies, PTL

(* Polls and frame transfers in any order lose, duplicate and reorder no   *)
(* byte of an accepted xr17v358_write as long as no transfer begins inside *)
(* a frame and a test injects nothing.                                     *)
THEOREM ModelTxKept == Spec => []TxKept
  BY ModelInvHolds, ModelInvImplies, PTL

(* Polls and reads hand the decoder every byte that xr17v358_receive took  *)
(* from the peer, in order.                                                *)
THEOREM ModelRxKept == Spec => []RxKept
  BY ModelInvHolds, ModelInvImplies, PTL

(* A transfer that begins inside a frame costs at most the rest of that    *)
(* frame: every other message stays whole, and nothing but frames is on    *)
(* its way to queue_read, as long as a test injects nothing.               *)
THEOREM ModelTearsStayLocal == Spec => []TearsStayLocal
  BY ModelInvHolds, ModelInvImplies, PTL

(* Once rx_fifo is full without two delimiters no operation but a reset    *)
(* ever changes it: the port has stopped receiving.                        *)
THEOREM ModelWedgedForGood == Spec => WedgedForGood
<1>1. ASSUME ModelInv, [Next]_vars PROVE [Wedged => Wedged' \/ port' = EmptyPort]_vars
  <2> SUFFICES ASSUME Wedged PROVE Wedged' \/ port' = EmptyPort
    OBVIOUS
  <2>1. Len(port.rx_fifo) = RingCapacity /\ RingCapacity \in Nat
    BY ModelAssumption DEF Wedged
  <2>2. Room(port.rx_fifo) = 0
    BY <2>1 DEF Room
  <2>3. port'.rx_fifo = port.rx_fifo \/ port' = EmptyPort
    BY <1>1, <2>2, ModelNext DEF Wedged
  <2> QED
    BY <2>3 DEF Wedged
<1> QED
  BY ModelInvHolds, <1>1, PTL DEF Spec, WedgedForGood

-----------------------------------------------------------------------------
(* What the decoder makes of the bytes: reads and queue_reads take whole   *)
(* frames from a boundary, so their data are the payloads of the frames    *)
(* that the stream as a whole consists of.                                 *)

RxStream ==
  /\ ~rx.raw => WholeFrames(rx.offered) /\ AtBoundary(rx.taken)
  /\ DeliveredByPhase

TxStream ==
  /\ ~tx.raw => AtBoundary(tx.fetched)
  /\ ~tx.raw /\ call.op = "queue_read" =>
       AtBoundary(tx.took) /\ call.data = PairedData(tx.took)

LEMMA EmptyPairs == PairedData(<<>>) = <<>> /\ AtBoundary(<<>>)
<1>1. Cardinality(Delimiters(<<>>)) = 0
  BY EmptyStream, FS_EmptySet
<1>2. 0 \div 2 = 0 /\ 0 % 2 = 0 /\ 1..0 = {}
  OBVIOUS
<1>3. Pairs(<<>>) = 1..0
  BY <1>1, <1>2 DEF Pairs
<1> DEFINE s == [i \in Pairs(<<>>) |-> Decode(FrameAt(<<>>, i), QueueCapacity).data]
<1>4. s = <<>>
  BY <1>2, <1>3
<1> HIDE DEF s
<1>5. PairedData(<<>>) = FlattenSeq(s)
  BY DEF PairedData, s
<1> QED
  BY <1>1, <1>2, <1>4, <1>5, FlattenAppend DEF AtBoundary

LEMMA StreamInit == Init => RxStream /\ TxStream
<1> SUFFICES ASSUME Init PROVE RxStream /\ TxStream
  OBVIOUS
<1>1. /\ rx.taken = <<>> /\ rx.delivered = <<>> /\ rx.offered = <<>> /\ port.rx_queue = <<>>
      /\ tx.fetched = <<>> /\ call.op = "none"
  BY DEF Init, NoRx, NoTx, EmptyPort, NoCall
<1>2. <<>> \o <<>> = <<>>
  BY EmptyBytes
<1>3. DeliveredByPhase
  BY <1>1, <1>2, EmptyPairs DEF DeliveredByPhase
<1> QED
  BY <1>1, <1>3, EmptyPairs, EmptyStream DEF RxStream, TxStream

(* A step that at most appends bytes to rx_fifo.                           *)
LEMMA RxGrows ==
  ASSUME ModelInv, RxStream, NEW x \in Bytes,
         port'.rx_fifo = port.rx_fifo \o x, port'.rx_queue = port.rx_queue,
         rx'.taken = rx.taken, rx'.delivered = rx.delivered, rx'.truncated = rx.truncated,
         ~rx'.raw => ~rx.raw /\ WholeFrames(rx'.offered)
  PROVE  RxStream'
<1>1. DeliveredByPhase'
  <2> SUFFICES ASSUME ~rx.truncated, ~Overlong(rx.taken \o (port.rx_fifo \o x))
               PROVE  AtBoundary(rx.taken) /\ rx.delivered \o port.rx_queue = PairedData(rx.taken)
    BY DEF DeliveredByPhase
  <2> DEFINE a == rx.taken
             q == port.rx_fifo
  <2>1. a \in Bytes /\ q \in Bytes
    BY FieldTypes
  <2>2. ~Overlong(a \o q)
    <3> HIDE DEF a, q
    <3>1. a \o (q \o x) = (a \o q) \o x /\ a \o q \in Bytes
      BY <2>1, Assoc
    <3>2. ~Overlong((a \o q) \o x)
      BY <3>1 DEF a, q
    <3> QED
      BY <3>1, <3>2, OverlongPrefix
  <2> QED
    BY <2>2 DEF RxStream, DeliveredByPhase
<1> QED
  BY <1>1 DEF RxStream

LEMMA RxStays ==
  ASSUME ModelInv, RxStream, rx' = rx,
         port'.rx_fifo = port.rx_fifo, port'.rx_queue = port.rx_queue
  PROVE  RxStream'
<1>1. port.rx_fifo \o <<>> = port.rx_fifo /\ <<>> \in Bytes
  BY FieldTypes, EmptyBytes
<1>2. ~rx'.raw => ~rx.raw /\ WholeFrames(rx'.offered)
  BY DEF RxStream
<1> QED
  BY <1>1, <1>2, RxGrows

LEMMA TxStays ==
  ASSUME TxStream, tx'.fetched = tx.fetched, ~tx'.raw => ~tx.raw,
         (call' = call /\ tx'.took = tx.took) \/ call'.op # "queue_read"
  PROVE  TxStream'
  BY DEF TxStream

(* The message a read takes when it stands at a boundary.                  *)
LEMMA MessageTaken ==
  ASSUME NEW a \in Bytes, NEW r \in Ring, AtBoundary(a), HasCompleteFrame(r), ~Overlong(a \o r)
  PROVE  LET m == NextMessage(r)
         IN  /\ AtBoundary(a \o m.bytes)
             /\ PairedData(a \o m.bytes) = PairedData(a) \o m.data
<1> DEFINE cut == ReadFrame(r, MaxEncoded)
           d == Decode(cut.frame, QueueCapacity)
           c == Prefix(r, Len(r) - Len(cut.rest))
           m == NextMessage(r)
<1>1. r \in Bytes
  BY DEF Ring
<1>2. AtBoundary(a \o c) /\ PairedData(a \o c) = PairedData(a) \o d.data
  BY <1>1, NextPair
<1>3. m = [status |-> d.status, data |-> d.data, rest |-> cut.rest, bytes |-> c]
  BY DEF NextMessage, AfterCut
<1> HIDE DEF m, c, d, cut
<1>4. m.data = d.data /\ m.bytes = c
  BY <1>3
<1> QED
  BY <1>2, <1>4 DEF m

LEMMA DecodeStream ==
  ASSUME ModelInv, RxStream, DecodeFrame
  PROVE  RxStream'
<1> DEFINE m == NextMessage(port.rx_fifo)
           fits == Len(m.data) <= Room(port.rx_queue)
           x == RingWrite(port.rx_queue, m.data)
           t == rx.taken \o m.bytes
           rest == m.rest
<1>1. /\ HasCompleteFrame(port.rx_fifo)
      /\ port' = [port EXCEPT !.rx_fifo = rest, !.rx_queue = x]
      /\ rx' = [rx EXCEPT !.taken = t, !.truncated = @ \/ ~fits]
  BY DEF DecodeFrame, MayDecode
<1>2. /\ rx.taken \in Bytes /\ port.rx_fifo \in Ring /\ port.rx_fifo \in Bytes
      /\ port.rx_queue \in Ring /\ port.rx_queue \in Bytes /\ rx.delivered \in Bytes
      /\ port.rx_pending \in Bytes
  BY FieldTypes
<1>3. m.data \in Bytes
  BY <1>2, NextMessageCuts
<1>4. t \o rest = rx.taken \o port.rx_fifo
  BY <1>2, TakenBytes
<1>5. fits => x = port.rx_queue \o m.data
  BY <1>2, <1>3, RingWriteFits
<1>6. ASSUME AtBoundary(rx.taken), ~Overlong(rx.taken \o port.rx_fifo)
      PROVE  AtBoundary(t) /\ PairedData(t) = PairedData(rx.taken) \o m.data
  BY <1>1, <1>2, <1>6, MessageTaken
<1> DEFINE u == rx.truncated \/ ~fits
<1>7. u \in BOOLEAN /\ rx' = [rx EXCEPT !.taken = t, !.truncated = u] /\ (~u => fits /\ ~rx.truncated)
  BY <1>1 DEF ModelInv, RxOK
<1> HIDE DEF m, x, t, rest, u, fits
<1>8. /\ rx'.taken = t /\ rx'.truncated = u /\ rx'.raw = rx.raw /\ rx'.offered = rx.offered
      /\ rx'.delivered = rx.delivered
      /\ port'.rx_fifo = rest /\ port'.rx_queue = x
  BY <1>1, <1>7 DEF ModelInv, RxOK, Rings
<1>9. DeliveredByPhase'
  <2> SUFFICES ASSUME ~u, ~Overlong(t \o rest)
               PROVE  AtBoundary(t) /\ rx.delivered \o x = PairedData(t)
    BY <1>8 DEF DeliveredByPhase
  <2>1. AtBoundary(rx.taken) /\ rx.delivered \o port.rx_queue = PairedData(rx.taken)
        /\ ~Overlong(rx.taken \o port.rx_fifo)
    BY <1>4, <1>7 DEF RxStream, DeliveredByPhase
  <2>2. x = port.rx_queue \o m.data
    BY <1>5, <1>7
  <2>3. rx.delivered \o (port.rx_queue \o m.data) = (rx.delivered \o port.rx_queue) \o m.data
    <3> DEFINE y == rx.delivered
               z == port.rx_queue
               v == m.data
    <3>1. y \in Bytes /\ z \in Bytes /\ v \in Bytes
      BY <1>2, <1>3
    <3> HIDE DEF y, z, v
    <3>2. y \o (z \o v) = (y \o z) \o v
      BY <3>1, Assoc
    <3> QED
      BY <3>2 DEF y, z, v
  <2> QED
    BY <1>6, <2>1, <2>2, <2>3
<1>10. ASSUME ~rx.raw PROVE WholeFrames(rx.offered) /\ AtBoundary(t)
  <2>1. /\ WholeFrames(rx.offered) /\ AtBoundary(rx.taken)
        /\ (rx.taken \o port.rx_fifo) \o port.rx_pending = rx.offered
    BY <1>10 DEF RxStream, ModelInv, RxOK, RxKept
  <2>2. rx.taken \o port.rx_fifo \in Bytes
    BY <1>2, Assoc
  <2>3. ~Overlong(rx.taken \o port.rx_fifo)
    <3>1. rx.offered \in Bytes
      BY FieldTypes
    <3>2. ~Overlong(rx.offered)
      BY <2>1, <3>1, WholeNotOverlong
    <3> DEFINE y == rx.taken \o port.rx_fifo
               z == port.rx_pending
    <3>3. y \in Bytes /\ z \in Bytes /\ y \o z = rx.offered
      BY <1>2, <2>1, <2>2
    <3> HIDE DEF y, z
    <3>4. ~Overlong(y \o z)
      BY <3>2, <3>3
    <3> QED
      BY <3>3, <3>4, OverlongPrefix DEF y
  <2> QED
    BY <1>6, <2>1, <2>3
<1> QED
  BY <1>8, <1>9, <1>10 DEF RxStream

LEMMA ReadReturnStream ==
  ASSUME ModelInv, RxStream, ReadReturn
  PROVE  RxStream'
<1> DEFINE n == call.length
           s == Suffix(port.rx_queue, n)
           b == Prefix(port.rx_queue, n)
           d == rx.delivered \o b
<1>1. port' = [port EXCEPT !.rx_queue = s] /\ rx' = [rx EXCEPT !.delivered = d]
  BY DEF ReadReturn
<1>2. n \in Nat /\ port.rx_queue \in Bytes /\ rx.delivered \in Bytes
  BY FieldTypes
<1>3. b \in Bytes /\ s \in Bytes /\ b \o s = port.rx_queue
  BY <1>2, PrefixSuffix
<1> HIDE DEF s, b
<1>4. d \o s = rx.delivered \o port.rx_queue
  <2> DEFINE y == rx.delivered
  <2>1. y \in Bytes
    BY <1>2
  <2> HIDE DEF y
  <2>2. (y \o b) \o s = y \o (b \o s)
    BY <1>3, <2>1, Assoc
  <2> QED
    BY <1>3, <2>2 DEF y
<1> HIDE DEF d
<1>5. /\ rx'.taken = rx.taken /\ rx'.truncated = rx.truncated /\ rx'.raw = rx.raw
      /\ rx'.offered = rx.offered /\ rx'.delivered = d
      /\ port'.rx_fifo = port.rx_fifo /\ port'.rx_queue = s
  BY <1>1 DEF ModelInv, RxOK, Rings
<1>6. DeliveredByPhase'
  BY <1>4, <1>5 DEF RxStream, DeliveredByPhase
<1> QED
  BY <1>5, <1>6 DEF RxStream

(* The message a queue_read takes, whole or torn.                          *)
LEMMA Fetched ==
  ASSUME ModelInv, TxStream, FetchFrame, ~tx.raw
  PROVE  LET m == NextMessage(port.tx_fifo)
         IN  /\ m.bytes \in Bytes /\ Cardinality(Delimiters(m.bytes)) = 2
             /\ AtBoundary(tx.fetched \o m.bytes) /\ AtBoundary(tx.took \o m.bytes)
             /\ PairedData(tx.took \o m.bytes) = call.data \o m.data
             /\ \/ m.status = "OK"
                \/ m.status = "INVALID_FRAME" /\ m.data = <<>> /\ tx.torn
<1> DEFINE q == port.tx_fifo
           cut == ReadFrame(q, MaxEncoded)
           c == Prefix(q, Len(q) - Len(cut.rest))
           d == Decode(cut.frame, QueueCapacity)
           m == NextMessage(q)
           a == tx.fetched
           b == tx.took
           i == (Cardinality(Delimiters(a)) \div 2) + 1
<1>1. /\ q \in Bytes /\ a \in Bytes /\ b \in Bytes /\ port.tx_queue \in Bytes
      /\ tx.written \in Bytes /\ WholeFrames(tx.written) /\ Decodable(tx.written)
  BY FieldTypes DEF ModelInv, TxOK
<1>2. call.op = "queue_read" /\ HasCompleteFrame(q)
  BY DEF FetchFrame, MayFetch
<1>3. AtBoundary(a) /\ AtBoundary(b) /\ call.data = PairedData(b)
  BY <1>2 DEF TxStream
<1>4. Local((a \o q) \o port.tx_queue, tx.written)
  BY TearsAreLocal DEF ModelInv, TxOK, OnTheWay
<1>5. /\ Len(FrameAt(q, 1)) <= MaxEncoded
      /\ i \in Pairs(tx.written) /\ FrameAt((a \o q) \o port.tx_queue, i) = FrameAt(q, 1)
  BY <1>1, <1>2, <1>3, <1>4, NextFits
<1>6. m = [status |-> d.status, data |-> d.data, rest |-> cut.rest, bytes |-> c]
  BY DEF NextMessage, AfterCut
<1>7. /\ cut.frame = FrameAt(q, 1) /\ c \in Bytes /\ Cardinality(Delimiters(c)) = 2
      /\ AtBoundary(a \o c)
  BY <1>1, <1>2, <1>3, <1>5, NextShortPair
<1>8. AtBoundary(b \o c) /\ PairedData(b \o c) = PairedData(b) \o d.data
  BY <1>1, <1>2, <1>3, <1>5, NextShortPair
<1>9. d.status = "OK" \/ (d.status = "INVALID_FRAME" /\ d.data = <<>>)
  BY DecodeEnds
<1>10. ASSUME ~tx.torn PROVE d.status = "OK"
  <2>1. (a \o q) \o port.tx_queue = tx.written
    BY <1>10 DEF ModelInv, TxOK, TxKept
  <2>2. FrameAt(tx.written, i) = cut.frame
    BY <1>5, <1>7, <2>1
  <2> HIDE DEF i, cut
  <2> QED
    BY <1>1, <1>5, <2>2 DEF Decodable
<1> HIDE DEF m, c, d, cut, i
<1>11. m.status = d.status /\ m.data = d.data /\ m.bytes = c
  BY <1>6
<1>12. m.status = "OK" \/ (m.status = "INVALID_FRAME" /\ m.data = <<>> /\ tx.torn)
  BY <1>9, <1>10, <1>11
<1> QED
  BY <1>3, <1>7, <1>8, <1>11, <1>12 DEF m

LEMMA FetchStream ==
  ASSUME ModelInv, TxStream, FetchFrame
  PROVE  TxStream'
<1> DEFINE m == NextMessage(port.tx_fifo)
           fits == Len(call.data) + Len(m.data) <= call.length
           ok == m.status = "OK" /\ fits
           t == tx.fetched \o m.bytes
           u == tx.took \o m.bytes
           b == m.data
<1>1. /\ call.op = "queue_read"
      /\ tx' = [tx EXCEPT !.fetched = t, !.took = u]
      /\ IF ok THEN call' = [call EXCEPT !.data = @ \o b]
         ELSE Return(IF fits THEN m.status ELSE "INVALID_ARGUMENT", 0)
  BY DEF FetchFrame
<1>2. ~tx.raw => AtBoundary(t) /\ AtBoundary(u) /\ PairedData(u) = call.data \o b
  BY Fetched
<1>3. \/ call' = [call EXCEPT !.data = call.data \o b]
      \/ call' = NoCall
  BY <1>1 DEF Return
<1> HIDE DEF m, t, u, b, ok
<1>4. tx'.fetched = t /\ tx'.took = u /\ tx'.raw = tx.raw
  BY <1>1 DEF ModelInv, TxOK, TxHistory
<1>5. call'.op # "queue_read" \/ call'.data = call.data \o b
  BY <1>3 DEF ModelInv, CallOK, NoCall
<1> QED
  BY <1>2, <1>4, <1>5 DEF TxStream

LEMMA QueueReadReturnStream ==
  ASSUME ModelInv, TxStream, QueueReadReturn
  PROVE  TxStream'
<1> DEFINE c == tx.collected \o call.data
<1>1. tx' = [tx EXCEPT !.collected = c] /\ call' = NoCall
  BY DEF QueueReadReturn, Return
<1> HIDE DEF c
<1>2. tx'.fetched = tx.fetched /\ tx'.raw = tx.raw /\ call'.op # "queue_read"
  BY <1>1 DEF ModelInv, TxOK, TxHistory, NoCall
<1> QED
  BY <1>2, TxStays

LEMMA ResetStream ==
  ASSUME Reset PROVE RxStream' /\ TxStream'
<1>1. port' = EmptyPort /\ tx' = NoTx /\ rx' = NoRx /\ call' = NoCall
  BY DEF Reset, Return
<1>2. /\ rx'.taken = <<>> /\ rx'.delivered = <<>> /\ rx'.offered = <<>> /\ port'.rx_queue = <<>>
      /\ tx'.fetched = <<>> /\ call'.op = "none"
  BY <1>1 DEF NoRx, NoTx, EmptyPort, NoCall
<1>3. <<>> \o <<>> = <<>>
  BY EmptyBytes
<1>4. DeliveredByPhase'
  BY <1>2, <1>3, EmptyPairs DEF DeliveredByPhase
<1> QED
  BY <1>2, <1>4, EmptyPairs, EmptyStream DEF RxStream, TxStream

(* A step that changes no history and neither rx_fifo nor rx_queue, made   *)
(* between two calls or by a call that fetches nothing.                    *)
LEMMA BothStay ==
  ASSUME ModelInv, RxStream, TxStream, rx' = rx, tx' = tx,
         port'.rx_fifo = port.rx_fifo, port'.rx_queue = port.rx_queue,
         call' = call \/ call'.op # "queue_read"
  PROVE  RxStream' /\ TxStream'
  BY RxStays, TxStays

LEMMA IdleCall == NoCall.op # "queue_read"
  BY DEF NoCall

LEMMA AnswerStream ==
  ASSUME ModelInv, RxStream, TxStream, NEW status, NEW count, Answer(status, count)
  PROVE  RxStream' /\ TxStream'
<1>1. call = NoCall /\ call' = NoCall /\ port' = port /\ tx' = tx /\ rx' = rx
  BY ReadyIsPort DEF Answer, Enter, Return, ModelInv
<1> QED
  BY <1>1, IdleCall, BothStay

LEMMA BeginStream ==
  ASSUME ModelInv, RxStream, TxStream, NEW op, NEW n, Begin(op, n)
  PROVE  RxStream' /\ TxStream'
<1>1. /\ call'.data = <<>> /\ port' = port /\ rx' = rx
      /\ tx' = [tx EXCEPT !.took = <<>>]
  BY ReadyIsPort DEF Begin, Enter, ModelInv
<1>2. tx'.fetched = tx.fetched /\ tx'.raw = tx.raw /\ tx'.took = <<>>
  BY <1>1 DEF ModelInv, TxOK, TxHistory
<1>3. TxStream'
  BY <1>1, <1>2, EmptyPairs DEF TxStream
<1> QED
  BY <1>1, <1>3, RxStays

LEMMA WriteStream ==
  ASSUME ModelInv, RxStream, TxStream, NEW p \in Payloads, WriteAccepted(p)
  PROVE  RxStream' /\ TxStream'
<1> DEFINE w == tx.written \o Frame(p)
           q == port.tx_queue \o Frame(p)
<1>1. /\ call = NoCall /\ call' = NoCall /\ rx' = rx
      /\ port' = [port EXCEPT !.tx_queue = q] /\ tx' = [tx EXCEPT !.written = w]
  BY ReadyIsPort DEF WriteAccepted, Enter, Return, ModelInv
<1> HIDE DEF w, q
<1>2. /\ port'.rx_fifo = port.rx_fifo /\ port'.rx_queue = port.rx_queue
      /\ tx'.fetched = tx.fetched /\ tx'.raw = tx.raw
  BY <1>1 DEF ModelInv, Rings, TxOK, TxHistory
<1> QED
  BY <1>1, <1>2, IdleCall, RxStays, TxStays

LEMMA ReceiveStream ==
  ASSUME ModelInv, RxStream, TxStream, NEW p \in Payloads, ReceiveAccepted(p)
  PROVE  RxStream' /\ TxStream'
<1> DEFINE w == rx.offered \o Frame(p)
           q == port.rx_pending \o Frame(p)
<1>1. /\ call = NoCall /\ call' = NoCall /\ tx' = tx /\ Accepts(port.rx_pending, p)
      /\ port' = [port EXCEPT !.rx_pending = q] /\ rx' = [rx EXCEPT !.offered = w]
  BY ReadyIsPort DEF ReceiveAccepted, Enter, Return, ModelInv
<1>2. IsFrame(Frame(p))
  BY <1>1, FrameIsFrame, ModelAssumption DEF Accepts
<1>3. ~rx.raw => WholeFrames(w)
  BY <1>2, FieldTypes, WholeFramesAppend DEF RxStream
<1> HIDE DEF w, q
<1>4. /\ port'.rx_fifo = port.rx_fifo /\ port'.rx_queue = port.rx_queue
      /\ rx'.taken = rx.taken /\ rx'.delivered = rx.delivered /\ rx'.truncated = rx.truncated
      /\ rx'.offered = w /\ rx'.raw = rx.raw
  BY <1>1 DEF ModelInv, Rings, RxOK
<1>5. port.rx_fifo \o <<>> = port.rx_fifo /\ <<>> \in Bytes
  BY FieldTypes, EmptyBytes
<1>6. RxStream'
  BY <1>3, <1>4, <1>5, RxGrows
<1> QED
  BY <1>1, <1>6, IdleCall, TxStays

LEMMA RingAppends ==
  ASSUME NEW r \in Ring, NEW s \in Bytes
  PROVE  \E x \in Bytes : RingWrite(r, s) = r \o x
<1>1. Room(r) \in Nat
  BY RingWriteFits
<1>2. Prefix(s, Room(r)) \in Bytes
  BY <1>1, PrefixSuffix
<1> QED
  BY <1>2 DEF RingWrite

LEMMA PollStream ==
  ASSUME ModelInv, RxStream, TxStream, PollPort
  PROVE  RxStream' /\ TxStream'
<1> DEFINE r == FlushTxQueue(port)
           n == Movable(r.rx_pending, r.rx_fifo)
           i == Movable(port.tx_queue, port.tx_fifo)
           txq == Suffix(port.tx_queue, i)
           txf == RingWrite(port.tx_fifo, Prefix(port.tx_queue, i))
           rxp == Suffix(r.rx_pending, n)
           s == Prefix(r.rx_pending, n)
           rxf == RingWrite(r.rx_fifo, s)
<1>1. call = NoCall /\ call' = NoCall /\ tx' = tx /\ rx' = rx /\ port' = StageRxBytes(r)
  BY ReadyIsPort DEF PollPort, Enter, Return, ModelInv
<1>2. r = [port EXCEPT !.tx_queue = txq, !.tx_fifo = txf]
  BY DEF FlushTxQueue, TransferBytes, ModelInv, Rings
<1>3. port' = [r EXCEPT !.rx_pending = rxp, !.rx_fifo = rxf]
  BY <1>1 DEF StageRxBytes, TransferBytes
<1>4. r.rx_fifo \in Ring /\ r.rx_pending \in Ring
  <2> HIDE DEF txq, txf, r
  <2>1. r.rx_fifo = port.rx_fifo /\ r.rx_pending = port.rx_pending
    BY <1>2 DEF ModelInv, Rings
  <2> QED
    BY <2>1, FieldTypes
<1>5. s \in Bytes
  <2>1. Room(r.rx_fifo) \in Nat /\ FifoCapacity \in Nat /\ Len(r.rx_pending) \in Nat /\ r.rx_pending \in Bytes
    BY <1>4, RingWriteFits, EmptyBytes, ModelAssumption DEF Ring
  <2>2. n \in Nat
    BY <2>1 DEF Movable, AtMost
  <2> HIDE DEF n
  <2> QED
    BY <2>1, <2>2, PrefixSuffix
<1>6. PICK x \in Bytes : rxf = r.rx_fifo \o x
  BY <1>4, <1>5, RingAppends
<1> HIDE DEF txq, txf, rxp, rxf, r
<1>7. port'.rx_fifo = port.rx_fifo \o x /\ port'.rx_queue = port.rx_queue
  BY <1>2, <1>3, <1>6 DEF ModelInv, Rings
<1>8. RxStream'
  BY <1>1, <1>7, RxGrows DEF RxStream
<1> QED
  BY <1>1, <1>8, IdleCall, TxStays

LEMMA InjectRxStream ==
  ASSUME ModelInv, RxStream, TxStream, NEW s \in RawBytes, InjectRx(s)
  PROVE  RxStream' /\ TxStream'
<1> DEFINE y == RingWrite(port.rx_fifo, s)
<1>1. /\ call = NoCall /\ call' = NoCall /\ tx' = tx /\ rx' = [rx EXCEPT !.raw = TRUE]
      /\ port' = [port EXCEPT !.rx_fifo = y]
  BY ReadyIsPort DEF InjectRx, Enter, Return, Injected, ModelInv
<1>2. PICK x \in Bytes : y = port.rx_fifo \o x
  BY FieldTypes, RingAppends, ModelAssumption
<1> HIDE DEF y
<1>3. /\ port'.rx_fifo = port.rx_fifo \o x /\ port'.rx_queue = port.rx_queue
      /\ rx'.taken = rx.taken /\ rx'.delivered = rx.delivered /\ rx'.truncated = rx.truncated /\ rx'.raw
  BY <1>1, <1>2 DEF ModelInv, Rings, RxOK
<1>4. RxStream'
  BY <1>3, RxGrows
<1> QED
  BY <1>1, <1>4, IdleCall, TxStays

LEMMA InjectTxStream ==
  ASSUME ModelInv, RxStream, TxStream, NEW s \in RawBytes, InjectTx(s)
  PROVE  RxStream' /\ TxStream'
<1> DEFINE y == RingWrite(port.tx_fifo, s)
<1>1. /\ call = NoCall /\ call' = NoCall /\ rx' = rx /\ tx' = [tx EXCEPT !.raw = TRUE]
      /\ port' = [port EXCEPT !.tx_fifo = y]
  BY ReadyIsPort DEF InjectTx, Enter, Return, Injected, ModelInv
<1> HIDE DEF y
<1>2. /\ port'.rx_fifo = port.rx_fifo /\ port'.rx_queue = port.rx_queue
      /\ tx'.fetched = tx.fetched /\ tx'.raw
  BY <1>1 DEF ModelInv, Rings, TxOK, TxHistory
<1> QED
  BY <1>1, <1>2, IdleCall, RxStays, TxStays

(* Moving a frame past the poll: the histories of what was fetched stay.   *)
LEMMA TransferStream ==
  ASSUME ModelInv, RxStream, TxStream, TransferFrame(port),
         call' = call \/ call' = NoCall
  PROVE  RxStream' /\ TxStream'
<1> DEFINE cut == ReadFrame(port.tx_queue, MaxEncoded)
           q == AfterCut(port.tx_queue, cut)
           f == RingWrite(port.tx_fifo, cut.frame)
           b == tx.torn \/ InsideFrame
<1>1. /\ port' = [port EXCEPT !.tx_queue = q, !.tx_fifo = f]
      /\ tx' = [tx EXCEPT !.torn = b] /\ rx' = rx
  BY DEF TransferFrame, ModelInv, Rings, TxOK
<1> HIDE DEF q, f, b
<1>2. /\ port'.rx_fifo = port.rx_fifo /\ port'.rx_queue = port.rx_queue
      /\ tx'.fetched = tx.fetched /\ tx'.raw = tx.raw /\ tx'.took = tx.took
  BY <1>1 DEF ModelInv, Rings, TxOK, TxHistory
<1>3. RxStream'
  BY <1>1, <1>2, RxStays
<1>4. TxStream'
  BY <1>2, IdleCall, TxStays
<1> QED
  BY <1>3, <1>4

LEMMA TransferStepStream ==
  ASSUME ModelInv, RxStream, TxStream, TransferNextTxFrame \/ TransferFramesStep
  PROVE  RxStream' /\ TxStream'
<1>1. Ready = port
  BY ReadyIsPort DEF ModelInv
<1>2. CASE TransferNextTxFrame
  <2>1. CASE /\ MayTransfer(Ready) /\ Enter /\ TransferFrame(Ready)
             /\ Return(IF TransferOk(Ready) THEN "OK" ELSE "INVALID_FRAME", 0)
    <3>1. TransferFrame(port) /\ call' = NoCall
      BY <1>1, <2>1 DEF Return
    <3> QED
      BY <3>1, TransferStream
  <2>2. CASE ~MayTransfer(Ready) /\ Answer("INVALID_FRAME", 0)
    BY <2>2, AnswerStream
  <2> QED
    BY <1>2, <2>1, <2>2 DEF TransferNextTxFrame
<1>3. CASE TransferFramesStep
  <2>1. call' = call \/ call' = NoCall
    BY <1>3 DEF TransferFramesStep, Return
  <2>2. TransferFrame(port) \/ UNCHANGED <<port, tx, rx>>
    BY <1>3 DEF TransferFramesStep
  <2>3. CASE TransferFrame(port)
    BY <2>1, <2>3, TransferStream
  <2>4. CASE UNCHANGED <<port, tx, rx>>
    BY <2>1, <2>4, IdleCall, BothStay
  <2> QED
    BY <2>2, <2>3, <2>4
<1> QED
  BY <1>2, <1>3

(* The loop of read leaves the transmit side alone.                        *)
LEMMA ReadStream ==
  ASSUME ModelInv, RxStream, TxStream, DecodeFrame \/ ReadFailed \/ ReadReturn
  PROVE  RxStream' /\ TxStream'
<1>1. call.op = "read" /\ tx' = tx /\ (call' = call \/ call' = NoCall)
  BY DEF DecodeFrame, ReadFailed, ReadReturn, Return
<1>2. call'.op # "queue_read"
  BY <1>1 DEF NoCall
<1>3. TxStream'
  BY <1>1, <1>2, TxStays
<1>4. CASE ReadFailed
  <2>1. port' = port /\ rx' = rx
    BY <1>4, ReadFailedStep DEF ReadFailed
  <2> QED
    BY <1>3, <2>1, RxStays
<1> QED
  BY <1>3, <1>4, DecodeStream, ReadReturnStream

(* The loop of queue_read leaves the receive side alone.                   *)
LEMMA QueueReadStream ==
  ASSUME ModelInv, RxStream, TxStream, FetchFrame \/ QueueReadReturn
  PROVE  RxStream' /\ TxStream'
<1>1. rx' = rx /\ port'.rx_fifo = port.rx_fifo /\ port'.rx_queue = port.rx_queue
  <2>1. CASE FetchFrame
    <3> DEFINE rest == NextMessage(port.tx_fifo).rest
    <3>1. rx' = rx /\ port' = [port EXCEPT !.tx_fifo = rest]
      BY <2>1 DEF FetchFrame
    <3> HIDE DEF rest
    <3> QED
      BY <3>1 DEF ModelInv, Rings
  <2>2. CASE QueueReadReturn
    BY <2>2 DEF QueueReadReturn
  <2> QED
    BY <2>1, <2>2
<1> QED
  BY <1>1, RxStays, FetchStream, QueueReadReturnStream

LEMMA StreamNext ==
  ASSUME ModelInv, RxStream, TxStream, [Next]_vars
  PROVE  RxStream' /\ TxStream'
<1>1. CASE \E status \in {"INVALID_PORT", "INVALID_ARGUMENT"} : Answer(status, 0)
  BY <1>1, AnswerStream
<1>2. CASE \E p \in Payloads : WriteAccepted(p) \/ ReceiveAccepted(p)
  BY <1>2, WriteStream, ReceiveStream
<1>3. CASE \E p \in Payloads : WriteRefused(p) \/ ReceiveRefused(p)
  BY <1>3, AnswerStream DEF WriteRefused, ReceiveRefused
<1>4. CASE \E s \in RawBytes : InjectRx(s) \/ InjectTx(s) \/ InjectQueue(s)
  BY <1>4, InjectRxStream, InjectTxStream DEF InjectQueue
<1>5. CASE PollPort
  BY <1>5, PollStream
<1>6. CASE \E ring \in {"rx_fifo", "tx_fifo"} : Level(ring)
  BY <1>6, AnswerStream DEF Level
<1>7. CASE TransferNextTxFrame \/ TransferFramesStep
  BY <1>7, TransferStepStream
<1>8. CASE Begin("transfer_frames", 0) \/ \E n \in Lengths : Begin("read", n) \/ Begin("queue_read", n)
  BY <1>8, BeginStream
<1>9. CASE DecodeFrame \/ ReadFailed \/ ReadReturn
  BY <1>9, ReadStream
<1>10. CASE FetchFrame \/ QueueReadReturn
  BY <1>10, QueueReadStream
<1>11. CASE Reset
  BY <1>11, ResetStream
<1>12. CASE UNCHANGED vars
  BY <1>12, BothStay DEF vars
<1> QED
  BY <1>1, <1>2, <1>3, <1>4, <1>5, <1>6, <1>7, <1>8, <1>9, <1>10, <1>11, <1>12 DEF Next

LEMMA StreamsHold == Spec => [](ModelInv /\ RxStream /\ TxStream)
<1>1. (ModelInv /\ RxStream /\ TxStream) /\ [Next]_vars => (ModelInv /\ RxStream /\ TxStream)'
  BY ModelNext, StreamNext
<1> QED
  BY ModelInit, StreamInit, <1>1, PTL DEF Spec

(* However receives, injections, polls and failing reads cut the bytes up, *)
(* reads return the payloads of the frames between the first and second    *)
(* delimiter the decoder took, the third and fourth, and so on, as long as *)
(* no frame exceeds the frame buffer and rx_queue had room.                *)
THEOREM ModelDeliveredByPhase == Spec => []DeliveredByPhase
<1>1. RxStream => DeliveredByPhase
  BY DEF RxStream
<1> QED
  BY StreamsHold, <1>1, PTL

(* Only the loop of queue_read ends a queue_read.                          *)
LEMMA QueueReadEnds ==
  ASSUME [Next]_vars, call.op = "queue_read", call'.op = "none"
  PROVE  FetchFrame \/ QueueReadReturn
<1>1. call # NoCall /\ call' # call
  BY DEF NoCall
<1>2. /\ ~Enter /\ ~Reset /\ ~UNCHANGED vars
      /\ ~TransferFramesStep /\ ~DecodeFrame /\ ~ReadFailed /\ ~ReadReturn
  BY <1>1 DEF Enter, Reset, vars, TransferFramesStep, DecodeFrame, ReadFailed, ReadReturn
<1>3. \A status, count : ~Answer(status, count)
  BY <1>2 DEF Answer
<1>4. \A op, n : ~Begin(op, n)
  BY <1>2 DEF Begin
<1>5. /\ \A p : ~WriteAccepted(p) /\ ~WriteRefused(p) /\ ~ReceiveAccepted(p) /\ ~ReceiveRefused(p)
      /\ \A s : ~InjectRx(s) /\ ~InjectTx(s) /\ ~InjectQueue(s)
      /\ ~PollPort /\ ~TransferNextTxFrame /\ \A ring : ~Level(ring)
  BY <1>2, <1>3 DEF WriteAccepted, WriteRefused, ReceiveAccepted, ReceiveRefused, InjectRx,
     InjectTx, InjectQueue, PollPort, TransferNextTxFrame, Level
<1> QED
  BY <1>2, <1>3, <1>4, <1>5 DEF Next

LEMMA QueueReadEnd ==
  ASSUME ModelInv, TxStream, QueueReadReturn, ~tx.raw
  PROVE  LET data == PairedData(tx'.took)
         IN  /\ AtBoundary(tx'.took)
             /\ ret' = [status |-> "OK", count |-> Len(data)]
             /\ tx'.collected = tx.collected \o data
             /\ Len(data) <= call.length
             /\ Len(data) = call.length \/ ~HasCompleteFrame(port'.tx_fifo)
<1> DEFINE c == tx.collected \o call.data
<1>1. /\ call.op = "queue_read" /\ ~MayFetch
      /\ tx' = [tx EXCEPT !.collected = c]
      /\ ret' = [status |-> "OK", count |-> Len(call.data)] /\ port' = port
  BY DEF QueueReadReturn, Return
<1>2. AtBoundary(tx.took) /\ call.data = PairedData(tx.took)
  BY <1>1 DEF TxStream
<1>3. Len(call.data) \in Nat /\ call.length \in Nat /\ Len(call.data) <= call.length
  BY FieldTypes DEF ModelInv, CallOK
<1>4. Len(call.data) = call.length \/ ~HasCompleteFrame(port.tx_fifo)
  BY <1>1, <1>3 DEF MayFetch
<1> HIDE DEF c
<1>5. tx'.collected = c /\ tx'.took = tx.took
  BY <1>1 DEF ModelInv, TxOK, TxHistory
<1>6. c = tx.collected \o PairedData(tx.took)
  BY <1>2 DEF c
<1> QED
  BY <1>1, <1>2, <1>3, <1>4, <1>5, <1>6

LEMMA DoesNotFit ==
  ASSUME NEW a \in Bytes, NEW b \in Bytes, Cardinality(Delimiters(b)) = 2, NEW room \in Nat,
         Len(PairedData(a)) < room, Len(PairedData(a \o b)) > room
  PROVE  LastDoesNotFit(a \o b, room)
<1> DEFINE n == Len(a)
           l == Len(b)
           g == a \o b
<1>1. n \in Nat /\ l \in Nat
  BY EmptyBytes
<1>2. Len(g) = n + l
  BY Assoc
<1>3. Prefix(g, n) = a /\ Suffix(g, n) = b
  BY PrefixOfConcat
<1> HIDE DEF n, l, g
<1>4. n \in 0..Len(g)
  BY <1>1, <1>2
<1>5. LastDoesNotFit(g, room)
  BY <1>3, <1>4 DEF LastDoesNotFit, g
<1> QED
  BY <1>5 DEF g

LEMMA QueueReadFails ==
  ASSUME ModelInv, TxStream, FetchFrame, ~tx.raw, call'.op = "none"
  PROVE  LET data == PairedData(tx'.took)
         IN  /\ AtBoundary(tx'.took) /\ tx'.collected = tx.collected
             /\ \/ ret'.status = "INVALID_ARGUMENT" /\ LastDoesNotFit(tx'.took, call.length)
                \/ ret'.status = "INVALID_FRAME" /\ tx.torn /\ Len(data) < call.length
<1> DEFINE m == NextMessage(port.tx_fifo)
           fits == Len(call.data) + Len(m.data) <= call.length
           ok == m.status = "OK" /\ fits
           c == m.bytes
           b == m.data
           t == tx.fetched \o c
           u == tx.took \o c
           answer == IF fits THEN m.status ELSE "INVALID_ARGUMENT"
<1>1. /\ call.op = "queue_read" /\ Len(call.data) < call.length
      /\ tx' = [tx EXCEPT !.fetched = t, !.took = u]
      /\ IF ok THEN call' = [call EXCEPT !.data = @ \o b]
         ELSE Return(answer, 0)
  BY DEF FetchFrame, MayFetch
<1>2. /\ c \in Bytes /\ Cardinality(Delimiters(c)) = 2
      /\ AtBoundary(u) /\ PairedData(u) = call.data \o b
      /\ m.status = "OK" \/ (m.status = "INVALID_FRAME" /\ b = <<>> /\ tx.torn)
  BY Fetched
<1>3. /\ call.data \in Bytes /\ call.length \in Nat /\ Len(call.data) \in Nat /\ tx.took \in Bytes
      /\ port.tx_fifo \in Ring
  BY FieldTypes
<1>4. b \in Bytes
  BY <1>3, NextMessageCuts
<1>5. call.data = PairedData(tx.took)
  BY <1>1 DEF TxStream
<1> DEFINE status == m.status
<1> HIDE DEF m, t, c, b
<1>6. ~ok
  <2> SUFFICES ASSUME ok PROVE FALSE
    OBVIOUS
  <2>1. call' = [call EXCEPT !.data = call.data \o b]
    BY <1>1
  <2>2. call'.op = call.op
    BY <2>1 DEF ModelInv, CallOK
  <2> QED
    BY <1>1, <2>2
<1>7. ret'.status = IF fits THEN status ELSE "INVALID_ARGUMENT"
  <2> HIDE DEF ok, answer
  <2>1. ret' = [status |-> answer, count |-> 0]
    BY <1>1, <1>6 DEF Return
  <2>2. ret'.status = answer
    BY <2>1
  <2> QED
    BY <2>2 DEF answer
<1>8. tx'.took = u /\ tx'.collected = tx.collected
  <2> HIDE DEF u
  <2> QED
    BY <1>1 DEF ModelInv, TxOK, TxHistory
<1>9. CASE fits
  <2>1. status = "INVALID_FRAME" /\ b = <<>> /\ tx.torn
    BY <1>2, <1>6, <1>9
  <2>2. call.data \o b = call.data
    BY <1>3, <2>1, EmptyBytes
  <2> QED
    BY <1>1, <1>2, <1>7, <1>8, <1>9, <2>1, <2>2
<1>10. CASE ~fits
  <2>1. Len(call.data \o b) = Len(call.data) + Len(b) /\ Len(b) \in Nat
    BY <1>3, <1>4, Assoc, EmptyBytes
  <2>2. Len(call.data) + Len(b) > call.length
    <3> DEFINE x == Len(call.data)
               y == Len(b)
               z == call.length
    <3>1. x \in Nat /\ y \in Nat /\ z \in Nat
      BY <1>3, <2>1
    <3>2. ~(x + y <= z)
      BY <1>10 DEF b
    <3> HIDE DEF x, y, z
    <3>3. x + y > z
      BY <3>1, <3>2
    <3> QED
      BY <3>3 DEF x, y, z
  <2>3. Len(PairedData(tx.took)) < call.length /\ Len(PairedData(u)) > call.length
    BY <1>1, <1>2, <1>5, <2>1, <2>2
  <2>4. LastDoesNotFit(u, call.length)
    BY <1>2, <1>3, <2>3, DoesNotFit
  <2> QED
    BY <1>2, <1>7, <1>8, <1>10, <2>4
<1> QED
  BY <1>9, <1>10

(* A queue_read returns exactly the payloads of the frames it took out of  *)
(* tx_fifo and stops no earlier than it must, or it fails because the last *)
(* of them does not fit its buffer or was torn by a transfer; then all it  *)
(* took is lost to the caller, and nothing else.                           *)
THEOREM ModelQueueReadAccounts == Spec => QueueReadAccounts
<1> DEFINE Accounts ==
             call.op = "queue_read" /\ call'.op = "none" /\ ~tx.raw =>
               LET data == PairedData(tx'.took)
               IN  /\ AtBoundary(tx'.took)
                   /\ \/ /\ ret' = [status |-> "OK", count |-> Len(data)]
                         /\ tx'.collected = tx.collected \o data
                         /\ Len(data) <= call.length
                         /\ Len(data) = call.length \/ ~HasCompleteFrame(port'.tx_fifo)
                      \/ /\ ret'.status = "INVALID_ARGUMENT"
                         /\ tx'.collected = tx.collected
                         /\ LastDoesNotFit(tx'.took, call.length)
                      \/ /\ ret'.status = "INVALID_FRAME" /\ tx.torn
                         /\ tx'.collected = tx.collected
                         /\ Len(data) < call.length
<1>1. ASSUME ModelInv, TxStream, [Next]_vars PROVE Accounts
  <2> SUFFICES ASSUME call.op = "queue_read", call'.op = "none", ~tx.raw PROVE Accounts
    OBVIOUS
  <2>1. CASE QueueReadReturn
    BY <1>1, <2>1, QueueReadEnd
  <2>2. CASE FetchFrame
    BY <1>1, <2>2, QueueReadFails
  <2> QED
    BY <1>1, <2>1, <2>2, QueueReadEnds
<1>2. ModelInv /\ TxStream /\ [Next]_vars => [Accounts]_vars
  BY <1>1
<1>3. QueueReadAccounts <=> [][Accounts]_vars
  BY DEF QueueReadAccounts
<1> HIDE DEF Accounts
<1> QED
  BY StreamsHold, <1>2, <1>3, PTL DEF Spec

LEMMA PairsCounted ==
  ASSUME NEW q \in Bytes, FrameCount(q) = Cardinality(Delimiters(q)) \div 2
  PROVE  FrameCount(q) = Cardinality(Pairs(q))
<1> DEFINE c == Cardinality(Delimiters(q))
<1>1. c \in Nat
  BY DelimitersFinite
<1> HIDE DEF c
<1>2. c \div 2 \in Nat
  BY <1>1
<1> DEFINE m == c \div 2
<1> HIDE DEF m
<1>3. Cardinality(1..m) = m
  BY <1>2, FS_Interval DEF m
<1> QED
  BY <1>3 DEF m, c, Pairs

LEMMA CountersInStreams == ModelInv /\ RxStream /\ TxStream => CountersAgree
<1> SUFFICES ASSUME ModelInv, RxStream, TxStream PROVE CountersAgree
  OBVIOUS
<1>1. /\ rx.taken \in Bytes /\ port.rx_fifo \in Bytes /\ port.rx_pending \in Bytes
      /\ tx.fetched \in Bytes /\ port.tx_fifo \in Bytes /\ port.tx_queue \in Bytes
  BY FieldTypes
<1>2. ASSUME ~rx.raw PROVE FrameCount(port.rx_fifo) = Cardinality(Pairs(port.rx_fifo))
  <2>1. /\ WholeFrames((rx.taken \o port.rx_fifo) \o port.rx_pending)
        /\ Cardinality(Delimiters(rx.taken)) % 2 = 0
    BY <1>2 DEF RxStream, ModelInv, RxOK, RxKept, AtBoundary
  <2> QED
    BY <1>1, <2>1, CountersMatch, PairsCounted
<1>3. ASSUME ~tx.raw, ~tx.torn PROVE FrameCount(port.tx_fifo) = Cardinality(Pairs(port.tx_fifo))
  <2>1. /\ WholeFrames((tx.fetched \o port.tx_fifo) \o port.tx_queue)
        /\ Cardinality(Delimiters(tx.fetched)) % 2 = 0
    BY <1>3 DEF TxStream, ModelInv, TxOK, TxKept, AtBoundary
  <2> QED
    BY <1>1, <2>1, CountersMatch, PairsCounted
<1> QED
  BY <1>2, <1>3 DEF CountersAgree

(* fifo_level and queue_size count exactly the messages that a poll        *)
(* announces and a read or queue_read takes: on undamaged streams the two  *)
(* scanners of ring_buffer.c recognise the same frames.                    *)
THEOREM ModelCountersAgree == Spec => []CountersAgree
  BY StreamsHold, CountersInStreams, PTL
=============================================================================
