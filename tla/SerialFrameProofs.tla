-------------------------- MODULE SerialFrameProofs --------------------------
(***************************************************************************)
(* Facts about the message format that hold for every payload and every    *)
(* byte string, whatever QueueCapacity is.                                 *)
(***************************************************************************)
EXTENDS SerialFrame, SequenceTheorems, FiniteSetTheorems, WellFoundedInduction, TLAPS

-----------------------------------------------------------------------------
(* Strings of bytes.                                                       *)

LEMMA PrefixSuffix ==
  ASSUME NEW s \in Bytes, NEW n \in Nat
  PROVE  /\ Prefix(s, n) \in Bytes /\ Len(Prefix(s, n)) = AtMost(n, Len(s))
         /\ Suffix(s, n) \in Bytes /\ Len(Suffix(s, n)) = Len(s) - AtMost(n, Len(s))
         /\ Prefix(s, n) \o Suffix(s, n) = s
         /\ AtMost(n, Len(s)) \in 0..Len(s)
<1> DEFINE m == AtMost(n, Len(s))
<1>1. m \in 0..Len(s) /\ Len(s) \in Nat
  BY DEF AtMost, Bytes
<1> HIDE DEF m
<1>2. \A i \in 1..Len(s) : s[i] \in AnyByte
  BY ElementOfSeq DEF Bytes
<1>3. SubSeq(s, 1, m) \in Bytes /\ Len(SubSeq(s, 1, m)) = m
  <2>1. \A i \in 1..m : s[i] \in AnyByte
    BY <1>1, <1>2
  <2>2. /\ SubSeq(s, 1, m) \in Seq(AnyByte)
        /\ Len(SubSeq(s, 1, m)) = IF 1 <= m THEN m - 1 + 1 ELSE 0
    BY <1>1, <2>1, SubSeqProperties
  <2> QED
    BY <1>1, <2>2 DEF Bytes
<1>4. SubSeq(s, m + 1, Len(s)) \in Bytes /\ Len(SubSeq(s, m + 1, Len(s))) = Len(s) - m
  <2>1. \A i \in (m + 1)..Len(s) : s[i] \in AnyByte
    BY <1>1, <1>2
  <2>2. /\ SubSeq(s, m + 1, Len(s)) \in Seq(AnyByte)
        /\ Len(SubSeq(s, m + 1, Len(s)))
             = IF m + 1 <= Len(s) THEN Len(s) - (m + 1) + 1 ELSE 0
    BY <1>1, <2>1, SubSeqProperties
  <2> QED
    BY <1>1, <2>2 DEF Bytes
<1>5. SubSeq(s, 1, m) \o SubSeq(s, m + 1, Len(s)) = s
  <2>1. 1 \in 1..(Len(s) + 1) /\ m \in (1 - 1)..Len(s) /\ Len(s) \in m..Len(s)
    BY <1>1
  <2>2. SubSeq(s, 1, m) \o SubSeq(s, m + 1, Len(s)) = SubSeq(s, 1, Len(s))
    BY <2>1, ConcatAdjacentSubSeq DEF Bytes
  <2> QED
    BY <2>2, SubSeqFull DEF Bytes
<1> QED
  BY <1>1, <1>3, <1>4, <1>5 DEF Prefix, Suffix, m

LEMMA Assoc ==
  ASSUME NEW a \in Bytes, NEW b \in Bytes, NEW c \in Bytes
  PROVE  (a \o b) \o c = a \o (b \o c) /\ a \o b \in Bytes /\ Len(a \o b) = Len(a) + Len(b)
  BY ConcatAssociative, ConcatProperties DEF Bytes

LEMMA EmptyBytes ==
  /\ <<>> \in Bytes /\ Len(<<>>) = 0
  /\ \A s \in Bytes : s \o <<>> = s /\ <<>> \o s = s /\ Len(s) \in Nat
                      /\ (Len(s) = 0 => s = <<>>)
  BY EmptySeq, ConcatEmptySeq DEF Bytes

-----------------------------------------------------------------------------
(* Counting.                                                               *)

(* Every non-empty set of naturals has a least element: the form of        *)
(* induction over positions that the proofs below use.                     *)
LEMMA LeastElement ==
  ASSUME NEW T \in SUBSET Nat, T # {}
  PROVE  \E m \in T : \A y \in T : m <= y
<1> DEFINE R == {ss \in Nat \X Nat : ss[1] < ss[2]}
<1>1. IsWellFoundedOn(R, Nat)
  BY NatLessThanWellFounded DEF OpToRel
<1>2. \A x, y \in Nat : y < x => <<y, x>> \in R
  OBVIOUS
<1> HIDE DEF R
<1>3. PICK x \in T : \A y \in T : ~(<<y, x>> \in R)
  BY <1>1, WFMin
<1>4. \A y \in T : ~(y < x)
  BY <1>2, <1>3
<1>5. \A y \in T : x <= y
  BY <1>4
<1> QED
  BY <1>5

UpTo(S, n) == {j \in S : j <= n}

(* The elements of a set of naturals up to n are counted one by one.       *)
LEMMA CountUpTo ==
  ASSUME NEW S \in SUBSET Nat, NEW n \in Nat
  PROVE  /\ IsFiniteSet(UpTo(S, n))
         /\ Cardinality(UpTo(S, n)) \in Nat
         /\ Cardinality(UpTo(S, n + 1)) =
              IF n + 1 \in S THEN Cardinality(UpTo(S, n)) + 1
              ELSE Cardinality(UpTo(S, n))
<1>1. UpTo(S, n) \in SUBSET Nat /\ \A s \in UpTo(S, n) : s <= n
  BY DEF UpTo
<1>2. IsFiniteSet(UpTo(S, n))
  BY <1>1, FS_BoundedSetOfNaturals
<1>3. Cardinality(UpTo(S, n)) \in Nat
  BY <1>2, FS_CardinalityType
<1> DEFINE m == n + 1
<1>a. \A j \in S : j <= m <=> (j <= n \/ j = m)
  OBVIOUS
<1>b. ~(m <= n)
  OBVIOUS
<1> HIDE DEF m
<1>4. CASE m \in S
  <2>1. UpTo(S, m) = UpTo(S, n) \cup {m}
    BY <1>a, <1>4 DEF UpTo
  <2>2. m \notin UpTo(S, n)
    BY <1>b DEF UpTo
  <2> QED
    BY <1>2, <1>3, <1>4, <2>1, <2>2, FS_AddElement DEF m
<1>5. CASE m \notin S
  <2>1. UpTo(S, m) = UpTo(S, n)
    BY <1>a, <1>5 DEF UpTo
  <2> QED
    BY <1>2, <1>3, <1>5, <2>1 DEF m
<1> QED
  BY <1>4, <1>5

(* A finite set of positive naturals has an i-th element.                  *)
LEMMA NthExists ==
  ASSUME NEW S \in SUBSET (Nat \ {0}), NEW n \in Nat, \A s \in S : s <= n,
         NEW i \in 1..Cardinality(S)
  PROVE  \E k \in S : Cardinality(UpTo(S, k)) = i
<1> DEFINE C(k) == Cardinality(UpTo(S, k))
           T == {k \in Nat : C(k) >= i}
<1>1. S \in SUBSET Nat
  OBVIOUS
<1>2. UpTo(S, n) = S /\ UpTo(S, 0) = {}
  <2>1. \A j \in S : ~(j <= 0)
    OBVIOUS
  <2> QED
    BY <2>1 DEF UpTo
<1>3. n \in T
  BY <1>1, <1>2, CountUpTo
<1>4. PICK k \in T : \A y \in T : k <= y
  BY <1>3, LeastElement
<1>5. C(0) = 0
  BY <1>2, FS_EmptySet
<1>6. k # 0
  BY <1>4, <1>5
<1>7. k - 1 \in Nat /\ k = (k - 1) + 1
  BY <1>4, <1>6
<1>8. C(k - 1) \in Nat /\ C(k) = IF k \in S THEN C(k - 1) + 1 ELSE C(k - 1)
  BY <1>1, <1>7, CountUpTo
<1>9. k - 1 \notin T
  BY <1>4, <1>7
<1>10. C(k - 1) < i
  BY <1>7, <1>8, <1>9
<1>11. k \in S /\ C(k) = i
  BY <1>4, <1>8, <1>10
<1> QED
  BY <1>11

-----------------------------------------------------------------------------
(* Encoding.                                                               *)

LEMMA EscapesType ==
  ASSUME NEW p, NEW i \in Nat
  PROVE  Escapes(p, i) \in Nat /\ Escapes(p, i) <= i
<1>1. IsFiniteSet(1..i) /\ Cardinality(1..i) = i
  BY FS_Interval
<1>2. {j \in 1..i : RequiresEscape(p[j])} \in SUBSET (1..i)
  OBVIOUS
<1> QED
  BY <1>1, <1>2, FS_Subset, FS_CardinalityType DEF Escapes

LEMMA EncodedByteType ==
  ASSUME NEW b \in AnyByte
  PROVE  EncodedByte(b) \in AnyByte /\ EncodedByte(b) # Delimiter
<1>1. CASE RequiresEscape(b)
  <2>1. b = 126 \/ b = 125
    BY <1>1 DEF RequiresEscape, Delimiter, Escape
  <2>2. FlipBit5(126) = 94 /\ FlipBit5(125) = 93
    BY DEF FlipBit5
  <2> QED
    BY <1>1, <2>1, <2>2 DEF EncodedByte, AnyByte, Delimiter
<1>2. CASE ~RequiresEscape(b)
  BY <1>2 DEF EncodedByte, RequiresEscape
<1> QED
  BY <1>1, <1>2

(* The stuffed payload consists of bytes, at most two for each byte of the *)
(* payload, and contains no delimiter.                                     *)
LEMMA BodyProperties ==
  ASSUME NEW p \in Bytes
  PROVE  /\ Body(p) \in Bytes
         /\ Len(Body(p)) = BodyLength(p)
         /\ BodyLength(p) \in Len(p)..(2 * Len(p))
         /\ \A k \in 1..BodyLength(p) : Body(p)[k] # Delimiter
<1>1. Len(p) \in Nat
  BY DEF Bytes
<1>2. BodyLength(p) \in Nat /\ BodyLength(p) \in Len(p)..(2 * Len(p))
  BY <1>1, EscapesType DEF BodyLength, ValueEnd
<1> DEFINE at(k) == IF \E i \in 1..Len(p) : ValueEnd(p, i) = k
                    THEN EncodedByte(p[CHOOSE i \in 1..Len(p) : ValueEnd(p, i) = k])
                    ELSE Escape
<1>3. ASSUME NEW k \in 1..BodyLength(p)
      PROVE  at(k) \in AnyByte /\ at(k) # Delimiter
  <2>1. CASE \E i \in 1..Len(p) : ValueEnd(p, i) = k
    <3> DEFINE i == CHOOSE i \in 1..Len(p) : ValueEnd(p, i) = k
    <3>1. i \in 1..Len(p)
      BY <2>1
    <3> HIDE DEF i
    <3>2. p[i] \in AnyByte
      BY <3>1, ElementOfSeq DEF Bytes
    <3>3. EncodedByte(p[i]) \in AnyByte /\ EncodedByte(p[i]) # Delimiter
      BY <3>2, EncodedByteType
    <3> QED
      BY <2>1, <3>3 DEF i
  <2>2. CASE ~ \E i \in 1..Len(p) : ValueEnd(p, i) = k
    BY <2>2 DEF Escape, AnyByte, Delimiter
  <2> QED
    BY <2>1, <2>2
<1>4. Body(p) = [k \in 1..BodyLength(p) |-> at(k)]
  BY DEF Body
<1> HIDE DEF at
<1> QED
  BY <1>2, <1>3, <1>4 DEF Bytes

(* What a frame looks like, for every payload the driver may be given:     *)
(* bytes, within the size of the frame buffers, and the two delimiters are *)
(* its first and last byte and nowhere else.                               *)
THEOREM EncodeShape ==
  ASSUME NEW p \in Bytes, Encodable(p, MaxEncoded)
  PROVE  LET f == Encode(p, MaxEncoded)
         IN  /\ f \in Bytes
             /\ Len(f) \in 3..MaxEncoded
             /\ \A k \in 1..Len(f) : f[k] = Delimiter <=> k \in {1, Len(f)}
<1> DEFINE f == Encode(p, MaxEncoded)
           n == BodyLength(p)
<1>1. Len(p) \in Nat /\ Len(p) > 0 /\ Len(p) <= QueueCapacity /\ QueueCapacity \in Nat
  BY FrameAssumption, EmptySeq DEF Encodable, Bytes
<1>2. /\ Body(p) \in Bytes /\ Len(Body(p)) = n
      /\ n \in Nat /\ n >= 1 /\ n + 2 <= MaxEncoded
      /\ \A k \in 1..n : Body(p)[k] # Delimiter
  BY <1>1, BodyProperties DEF Encodable
<1> HIDE DEF n
<1>3. <<Delimiter>> \in Bytes /\ Len(<<Delimiter>>) = 1
  BY DEF Bytes, AnyByte, Delimiter
<1>4. /\ <<Delimiter>> \o Body(p) \in Bytes
      /\ Len(<<Delimiter>> \o Body(p)) = n + 1
      /\ \A k \in 1..(n + 1) : (<<Delimiter>> \o Body(p))[k]
                                 = IF k <= 1 THEN Delimiter ELSE Body(p)[k - 1]
  BY <1>2, <1>3, ConcatProperties DEF Bytes
<1>5. f = (<<Delimiter>> \o Body(p)) \o <<Delimiter>>
  BY DEF Encode, Framed
<1> HIDE DEF f
<1>6. /\ f \in Bytes /\ Len(f) = n + 2
      /\ \A k \in 1..(n + 2) : f[k] = IF k <= n + 1 THEN (<<Delimiter>> \o Body(p))[k]
                                      ELSE <<Delimiter>>[k - (n + 1)]
  BY <1>2, <1>3, <1>4, <1>5, ConcatProperties DEF Bytes
<1>7. ASSUME NEW k \in 1..(n + 2)
      PROVE  f[k] = Delimiter <=> k \in {1, n + 2}
  <2>1. CASE k = 1
    BY <1>2, <1>4, <1>6, <2>1
  <2>2. CASE k = n + 2
    BY <1>2, <1>6, <2>2
  <2>3. CASE k # 1 /\ k # n + 2
    <3>1. k \in 1..(n + 1) /\ k - 1 \in 1..n /\ ~(k <= 1)
      BY <1>2, <2>3
    <3> QED
      BY <1>2, <1>4, <1>6, <2>3, <3>1
  <2> QED
    BY <2>1, <2>2, <2>3
<1>8. \A k \in 1..Len(f) : f[k] = Delimiter <=> k \in {1, Len(f)}
  BY <1>2, <1>6, <1>7
<1>9. Len(f) \in 3..MaxEncoded
  BY <1>1, <1>2, <1>6 DEF MaxEncoded
<1> QED
  BY <1>6, <1>8, <1>9 DEF f

(* The driver's frame buffers are always large enough: a payload of 1 to   *)
(* QUEUE_CAPACITY bytes is never refused by the encoder.                   *)
THEOREM EncodeFits ==
  ASSUME NEW p \in Bytes, Len(p) \in 1..QueueCapacity
  PROVE  Encodable(p, MaxEncoded)
<1>1. p # <<>>
  BY EmptySeq DEF Bytes
<1>2. BodyLength(p) \in Len(p)..(2 * Len(p)) /\ Len(p) \in Nat
  BY BodyProperties
<1> QED
  BY <1>1, <1>2, FrameAssumption DEF Encodable, MaxEncoded

-----------------------------------------------------------------------------
(* Scanning.                                                               *)

LEMMA FirstOfProperties ==
  ASSUME NEW S \in SUBSET Nat, S # {}
  PROVE  FirstOf(S) \in S /\ \A j \in S : FirstOf(S) <= j
  BY LeastElement DEF FirstOf

(* Cutting a string in two loses nothing.                                  *)
LEMMA CutProperties ==
  ASSUME NEW q \in Bytes, NEW n \in Nat
  PROVE  LET rest == SubSeq(q, n + 1, Len(q))
         IN  /\ rest \in Bytes
             /\ Len(rest) = IF n < Len(q) THEN Len(q) - n ELSE 0
             /\ Len(rest) \in 0..Len(q)
             /\ SubSeq(q, 1, Len(q) - Len(rest)) \in Bytes
             /\ Len(SubSeq(q, 1, Len(q) - Len(rest))) = Len(q) - Len(rest)
             /\ SubSeq(q, 1, Len(q) - Len(rest)) \o rest = q
<1> DEFINE rest == SubSeq(q, n + 1, Len(q))
<1>1. Len(q) \in Nat /\ \A i \in 1..Len(q) : q[i] \in AnyByte
  BY ElementOfSeq DEF Bytes
<1>2. rest \in Bytes /\ Len(rest) = IF n < Len(q) THEN Len(q) - n ELSE 0
  <2>1. \A i \in (n + 1)..Len(q) : q[i] \in AnyByte
    BY <1>1
  <2>2. /\ rest \in Seq(AnyByte)
        /\ Len(rest) = IF n + 1 <= Len(q) THEN Len(q) - (n + 1) + 1 ELSE 0
    BY <1>1, <2>1, SubSeqProperties
  <2> HIDE DEF rest
  <2> QED
    BY <1>1, <2>2 DEF Bytes
<1> HIDE DEF rest
<1> DEFINE m == Len(q) - Len(rest)
<1>3. /\ m \in 0..Len(q) /\ m = IF n < Len(q) THEN n ELSE Len(q)
      /\ Len(rest) \in 0..Len(q)
  BY <1>1, <1>2
<1> HIDE DEF m
<1>4. SubSeq(q, 1, m) \in Bytes /\ Len(SubSeq(q, 1, m)) = m
  <2>1. \A i \in 1..m : q[i] \in AnyByte
    BY <1>1, <1>3
  <2>2. /\ SubSeq(q, 1, m) \in Seq(AnyByte)
        /\ Len(SubSeq(q, 1, m)) = IF 1 <= m THEN m - 1 + 1 ELSE 0
    BY <1>3, <2>1, SubSeqProperties
  <2> QED
    BY <1>3, <2>2 DEF Bytes
<1>5. rest = SubSeq(q, m + 1, Len(q))
  <2>1. CASE n < Len(q)
    BY <1>3, <2>1 DEF rest
  <2>2. CASE ~(n < Len(q))
    <3>1. SubSeq(q, m + 1, Len(q)) = <<>>
      BY <1>1, <1>3, <2>2, SubSeqEmpty
    <3>2. rest = <<>>
      BY <1>1, <2>2, SubSeqEmpty DEF rest
    <3> QED
      BY <3>1, <3>2
  <2> QED
    BY <2>1, <2>2
<1>6. SubSeq(q, 1, m) \o SubSeq(q, m + 1, Len(q)) = SubSeq(q, 1, Len(q))
  <2>1. 1 \in 1..(Len(q) + 1) /\ m \in (1 - 1)..Len(q) /\ Len(q) \in m..Len(q)
    BY <1>1, <1>3
  <2> QED
    BY <2>1, ConcatAdjacentSubSeq DEF Bytes
<1>7. SubSeq(q, 1, Len(q)) = q
  BY SubSeqFull DEF Bytes
<1> QED
  BY <1>2, <1>4, <1>5, <1>6, <1>7, <1>3 DEF m, rest

(* read_frame takes a prefix of the ring and leaves the rest untouched,    *)
(* whether it finds a frame or not.                                        *)
THEOREM ReadFrameCuts ==
  ASSUME NEW q \in Bytes, NEW capacity \in Nat
  PROVE  LET r == ReadFrame(q, capacity)
         IN  /\ r.status \in {"OK", "INVALID_FRAME"}
             /\ r.frame \in Bytes
             /\ r.rest \in Bytes
             /\ Len(r.rest) <= Len(q)
             /\ SubSeq(q, 1, Len(q) - Len(r.rest)) \in Bytes
             /\ SubSeq(q, 1, Len(q) - Len(r.rest)) \o r.rest = q
<1> DEFINE start == FirstOf(Delimiters(q))
           later == {j \in Delimiters(q) : j > start}
           Rest(last) == SubSeq(q, last + 1, Len(q))
           Lost(last) == [status |-> "INVALID_FRAME", frame |-> <<>>, rest |-> Rest(last)]
           found == [status |-> "OK", frame |-> SubSeq(q, start, FirstOf(later)),
                     rest |-> Rest(FirstOf(later))]
           Good(r) == /\ r.status \in {"OK", "INVALID_FRAME"}
                      /\ r.frame \in Bytes
                      /\ r.rest \in Bytes
                      /\ Len(r.rest) <= Len(q)
                      /\ SubSeq(q, 1, Len(q) - Len(r.rest)) \in Bytes
                      /\ SubSeq(q, 1, Len(q) - Len(r.rest)) \o r.rest = q
<1>1. Len(q) \in Nat /\ DOMAIN q = 1..Len(q) /\ \A i \in 1..Len(q) : q[i] \in AnyByte
  BY ElementOfSeq, LenProperties DEF Bytes
<1>2. \A n \in Nat : /\ Rest(n) \in Bytes
                    /\ Len(Rest(n)) <= Len(q)
                    /\ SubSeq(q, 1, Len(q) - Len(Rest(n))) \in Bytes
                    /\ SubSeq(q, 1, Len(q) - Len(Rest(n))) \o Rest(n) = q
  <2> SUFFICES ASSUME NEW n \in Nat
               PROVE  /\ Rest(n) \in Bytes
                      /\ Len(Rest(n)) <= Len(q)
                      /\ SubSeq(q, 1, Len(q) - Len(Rest(n))) \in Bytes
                      /\ SubSeq(q, 1, Len(q) - Len(Rest(n))) \o Rest(n) = q
    OBVIOUS
  <2>1. /\ Rest(n) \in Bytes
        /\ Len(Rest(n)) \in 0..Len(q)
        /\ SubSeq(q, 1, Len(q) - Len(Rest(n))) \in Bytes
        /\ SubSeq(q, 1, Len(q) - Len(Rest(n))) \o Rest(n) = q
    BY CutProperties
  <2> HIDE DEF Rest
  <2>2. Len(Rest(n)) <= Len(q)
    BY <1>1, <2>1
  <2> QED
    BY <2>1, <2>2
<1>3. Delimiters(q) \in SUBSET (1..Len(q))
  BY <1>1 DEF Delimiters
<1> HIDE DEF Rest
<1>4. \A n \in Nat : Good(Lost(n))
  BY <1>2, EmptySeq DEF Bytes
<1>5. CASE Delimiters(q) = {}
  BY <1>1, <1>4, <1>5 DEF ReadFrame, Rest
<1>6. CASE Delimiters(q) # {} /\ later # {} /\ FirstOf(later) < start + capacity
  <2>1. start \in Delimiters(q) /\ start \in Nat /\ start >= 1
    BY <1>3, <1>6, FirstOfProperties
  <2>2. later \in SUBSET Nat
    BY <1>3
  <2>3. FirstOf(later) \in 1..Len(q)
    <3> HIDE DEF later
    <3>1. FirstOf(later) \in later
      BY <1>6, <2>2, FirstOfProperties
    <3> QED
      BY <1>3, <3>1 DEF later
  <2>4. \A i \in start..FirstOf(later) : q[i] \in AnyByte
    BY <1>1, <2>1, <2>3
  <2>5. SubSeq(q, start, FirstOf(later)) \in Bytes
    BY <2>1, <2>3, <2>4, SubSeqProperties DEF Bytes
  <2> DEFINE last == FirstOf(later)
  <2>6. Good(found)
    <3>1. last \in Nat
      BY <1>1, <2>3
    <3> HIDE DEF last
    <3>2. /\ Rest(last) \in Bytes
          /\ Len(Rest(last)) <= Len(q)
          /\ SubSeq(q, 1, Len(q) - Len(Rest(last))) \in Bytes
          /\ SubSeq(q, 1, Len(q) - Len(Rest(last))) \o Rest(last) = q
      BY <1>2, <3>1
    <3>3. found = [status |-> "OK", frame |-> SubSeq(q, start, last), rest |-> Rest(last)]
      BY DEF last
    <3>4. SubSeq(q, start, last) \in Bytes
      BY <2>5 DEF last
    <3> HIDE DEF found, start
    <3> QED
      BY <3>2, <3>3, <3>4
  <2>7. ReadFrame(q, capacity) = found
    BY <1>6 DEF ReadFrame, Rest
  <2> QED
    BY <2>6, <2>7
<1>7. CASE Delimiters(q) # {} /\ ~(later # {} /\ FirstOf(later) < start + capacity)
  <2>1. start \in Nat
    BY <1>3, <1>7, FirstOfProperties
  <2>2. LastReadAt(start, capacity) \in Nat
    BY <2>1 DEF LastReadAt
  <2>3. ReadFrame(q, capacity) = Lost(LastReadAt(start, capacity))
    BY <1>7 DEF ReadFrame, Rest
  <2> QED
    BY <1>4, <2>2, <2>3
<1> QED
  BY <1>5, <1>6, <1>7

-----------------------------------------------------------------------------
(* Decoding.                                                               *)

LEMMA DecodedByteType ==
  ASSUME NEW f, NEW k, f[k] \in AnyByte
  PROVE  DecodedByte(f, k) \in AnyByte
<1> DEFINE b == f[k]
<1>1. b \in Nat /\ b <= 255
  BY DEF AnyByte
<1> HIDE DEF b
<1>2. FlipBit5(b) \in AnyByte
  <2>1. CASE (b \div 32) % 2 = 0
    <3>1. b < 224
      BY <1>1, <2>1
    <3> QED
      BY <1>1, <2>1, <3>1 DEF FlipBit5, AnyByte
  <2>2. CASE (b \div 32) % 2 # 0
    <3>1. b >= 32
      BY <1>1, <2>2
    <3> QED
      BY <1>1, <2>2, <3>1 DEF FlipBit5, AnyByte
  <2> QED
    BY <2>1, <2>2
<1> QED
  BY <1>2 DEF DecodedByte, b

(* What the decoder returns is a payload the encoder would accept in size. *)
THEOREM DecodeType ==
  ASSUME NEW f \in Bytes, NEW capacity \in Nat
  PROVE  LET d == Decode(f, capacity)
         IN  /\ d.status \in {"OK", "INVALID_FRAME", "INVALID_ARGUMENT"}
             /\ d.data \in Bytes
             /\ Len(d.data) <= QueueCapacity
<1> DEFINE at == ValuePositions(f)
<1>1. Len(f) \in Nat /\ \A i \in 1..Len(f) : f[i] \in AnyByte
  BY ElementOfSeq DEF Bytes
<1>2. at \in SUBSET (1..Len(f))
  BY <1>1 DEF ValuePositions, Interior
<1> HIDE DEF at
<1>3. Cardinality(at) \in Nat
  <2>1. IsFiniteSet(1..Len(f))
    BY <1>1, FS_Interval
  <2>2. IsFiniteSet(at)
    BY <1>2, <2>1, FS_Subset
  <2> QED
    BY <2>2, FS_CardinalityType
<1>4. ASSUME NEW i \in 1..Cardinality(at)
      PROVE  DecodedByte(f, Nth(at, i)) \in AnyByte
  <2>1. at \in SUBSET (Nat \ {0}) /\ \A s \in at : s <= Len(f)
    BY <1>1, <1>2
  <2>2. \E k \in at : Cardinality(UpTo(at, k)) = i
    BY <1>1, <2>1, NthExists
  <2>3. Nth(at, i) \in at
    BY <2>2 DEF UpTo, Nth
  <2> QED
    BY <1>1, <1>2, <2>3, DecodedByteType
<1>5. Values(f) = [i \in 1..Cardinality(at) |-> DecodedByte(f, Nth(at, i))]
  BY DEF Values, at
<1>6. Values(f) \in Bytes /\ Len(Values(f)) = Cardinality(at)
  BY <1>3, <1>4, <1>5 DEF Bytes
<1>7. <<>> \in Bytes /\ Len(<<>>) = 0 /\ QueueCapacity \in Nat
  BY EmptySeq, FrameAssumption DEF Bytes
<1>8. ~TooLong(f) => Cardinality(at) <= QueueCapacity
  BY <1>3, <1>7 DEF TooLong, at
<1> QED
  BY <1>6, <1>7, <1>8 DEF Decode, Failed
=============================================================================
