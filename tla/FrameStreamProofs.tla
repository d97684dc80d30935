-------------------------- MODULE FrameStreamProofs --------------------------
(***************************************************************************)
(* What the message format does to whole payloads and to streams of        *)
(* frames, for every payload, every byte string and every QueueCapacity:   *)
(* the decoder undoes the encoder and accepts nothing else, and a reader   *)
(* that stands at the boundary of two frames takes exactly the next one.   *)
(*                                                                         *)
(* Where a fact holds for every position or every length, its proof takes  *)
(* a least position at which it fails (LeastElement) and finds a smaller   *)
(* one.                                                                    *)
(***************************************************************************)
EXTENDS FrameStream, SerialFrameProofs

-----------------------------------------------------------------------------
(* The elements of a set of naturals, listed in order.                     *)

Increasing(e, m) == \A i \in 1..m : \A j \in 1..m : i < j => e[i] < e[j]

LEMMA StepwiseIncreasing ==
  ASSUME NEW m \in Nat, NEW e \in [1..m -> Nat],
         \A i \in 1..m : i + 1 \in 1..m => e[i] < e[i + 1]
  PROVE  Increasing(e, m)
<1> SUFFICES ASSUME NEW i \in 1..m PROVE \A j \in 1..m : i < j => e[i] < e[j]
  BY DEF Increasing
<1> DEFINE T == {j \in 1..m : i < j /\ ~(e[i] < e[j])}
<1> SUFFICES ASSUME T # {} PROVE FALSE
  OBVIOUS
<1>1. T \in SUBSET Nat
  OBVIOUS
<1>2. PICK j \in T : \A y \in T : j <= y
  BY <1>1, LeastElement
<1>3. j \in 1..m /\ i < j /\ ~(e[i] < e[j])
  BY <1>2
<1>4. j - 1 \in 1..m /\ (j - 1) + 1 = j /\ i <= j - 1 /\ ~(j <= j - 1)
  BY <1>3
<1>5. j - 1 \notin T
  BY <1>2, <1>4
<1>6. e[j - 1] < e[j]
  BY <1>3, <1>4
<1>7. i = j - 1 \/ e[i] < e[j - 1]
  BY <1>3, <1>4, <1>5
<1>8. e[i] \in Nat /\ e[j - 1] \in Nat /\ e[j] \in Nat
  BY <1>3, <1>4
<1> QED
  BY <1>3, <1>6, <1>7, <1>8

Listed(e, m) == {e[i] : i \in 1..m}

LEMMA Enumeration ==
  ASSUME NEW m \in Nat, NEW e \in [1..m -> Nat], Increasing(e, m),
         NEW S, S = Listed(e, m)
  PROVE  /\ IsFiniteSet(S) /\ Cardinality(S) = m
         /\ \A i \in 1..m : Cardinality(UpTo(S, e[i])) = i
         /\ \A i \in 1..m : Nth(S, i) = e[i]
<1>0. S = {e[i] : i \in 1..m}
  BY DEF Listed
<1>1. S \in SUBSET Nat
  BY <1>0
<1>2. \A i \in 1..m : IsFiniteSet(UpTo(S, e[i])) /\ Cardinality(UpTo(S, e[i])) = i
  <2> DEFINE T == {i \in 1..m : ~(IsFiniteSet(UpTo(S, e[i])) /\ Cardinality(UpTo(S, e[i])) = i)}
  <2> SUFFICES ASSUME T # {} PROVE FALSE
    OBVIOUS
  <2>0. T \in SUBSET Nat
    OBVIOUS
  <2>1. PICK i \in T : \A y \in T : i <= y
    <3> HIDE DEF T
    <3> QED
      BY <2>0, LeastElement
  <2>2. i \in 1..m /\ ~(IsFiniteSet(UpTo(S, e[i])) /\ Cardinality(UpTo(S, e[i])) = i)
    BY <2>1
  <2>3. CASE i = 1
    <3>1. UpTo(S, e[i]) = {e[i]}
      <4>1. \A j \in 1..m : e[j] <= e[i] <=> j = i
        <5> SUFFICES ASSUME NEW j \in 1..m PROVE e[j] <= e[i] <=> j = i
          OBVIOUS
        <5>1. j = i \/ i < j
          BY <2>3
        <5>2. i < j => e[i] < e[j]
          BY <2>2 DEF Increasing
        <5>3. e[i] \in Nat /\ e[j] \in Nat
          BY <2>2
        <5> QED
          BY <2>2, <5>1, <5>2, <5>3
      <4>2. e[i] \in S /\ \A y \in S : y <= e[i] <=> y = e[i]
        BY <1>0, <2>2, <4>1
      <4>3. UpTo(S, e[i]) = {y \in S : y <= e[i]}
        BY DEF UpTo
      <4> DEFINE x == e[i]
      <4>4. x \in S /\ (\A y \in S : y <= x <=> y = x) /\ UpTo(S, x) = {y \in S : y <= x}
        BY <4>2, <4>3
      <4> HIDE DEF x
      <4>5. UpTo(S, x) = {x}
        BY <4>4
      <4> QED
        BY <4>5 DEF x
    <3>2. IsFiniteSet({}) /\ Cardinality({}) = 0
      BY FS_EmptySet
    <3>3. IsFiniteSet({} \cup {e[i]}) /\ Cardinality({} \cup {e[i]}) = 0 + 1
      BY <3>2, FS_AddElement
    <3>4. UpTo(S, e[i]) = {} \cup {e[i]}
      BY <3>1
    <3>5. IsFiniteSet(UpTo(S, e[i])) /\ Cardinality(UpTo(S, e[i])) = 0 + 1
      BY <3>3, <3>4
    <3> QED
      BY <2>2, <2>3, <3>5
  <2>4. CASE i # 1
    <3>1. i - 1 \in 1..m /\ i - 1 < i /\ ~(i <= i - 1) /\ (i - 1) + 1 = i
      BY <2>2, <2>4
    <3>2. IsFiniteSet(UpTo(S, e[i - 1])) /\ Cardinality(UpTo(S, e[i - 1])) = i - 1
      <4>1. i - 1 \notin T
        BY <2>1, <3>1
      <4> QED
        BY <3>1, <4>1
    <3>3. \A j \in 1..m : e[j] <= e[i] <=> (e[j] <= e[i - 1] \/ j = i)
      <4> SUFFICES ASSUME NEW j \in 1..m
                   PROVE  e[j] <= e[i] <=> (e[j] <= e[i - 1] \/ j = i)
        OBVIOUS
      <4>1. e[i - 1] < e[i] /\ e[i] \in Nat /\ e[i - 1] \in Nat /\ e[j] \in Nat
        BY <2>2, <3>1 DEF Increasing
      <4>2. j = i \/ j = i - 1 \/ j < i - 1 \/ i < j
        BY <2>2, <3>1
      <4>3. (j < i - 1 => e[j] < e[i - 1]) /\ (i < j => e[i] < e[j])
        BY <2>2, <3>1 DEF Increasing
      <4> QED
        BY <4>1, <4>2, <4>3
    <3>4. UpTo(S, e[i]) = UpTo(S, e[i - 1]) \cup {e[i]}
      <4>1. e[i] \in S /\ \A y \in S : y <= e[i] <=> (y <= e[i - 1] \/ y = e[i])
        BY <1>0, <2>2, <3>3
      <4> DEFINE x == e[i]
                 z == e[i - 1]
      <4>2. /\ x \in S /\ \A y \in S : y <= x <=> (y <= z \/ y = x)
            /\ UpTo(S, x) = {y \in S : y <= x} /\ UpTo(S, z) = {y \in S : y <= z}
        BY <4>1 DEF UpTo
      <4> HIDE DEF x, z
      <4>3. UpTo(S, x) = UpTo(S, z) \cup {x}
        BY <4>2
      <4> QED
        BY <4>3 DEF x, z
    <3>5. e[i] \notin UpTo(S, e[i - 1])
      <4>1. e[i - 1] < e[i] /\ e[i] \in Nat /\ e[i - 1] \in Nat
        BY <2>2, <3>1 DEF Increasing
      <4> QED
        BY <4>1 DEF UpTo
    <3> DEFINE U == UpTo(S, e[i - 1])
               x == e[i]
    <3>6. IsFiniteSet(U) /\ Cardinality(U) = i - 1 /\ x \notin U /\ UpTo(S, e[i]) = U \cup {x}
      BY <3>2, <3>4, <3>5
    <3> HIDE DEF U, x
    <3>7. IsFiniteSet(U \cup {x}) /\ Cardinality(U \cup {x}) = Cardinality(U) + 1
      BY <3>6, FS_AddElement
    <3> QED
      BY <2>2, <3>1, <3>6, <3>7
  <2> QED
    BY <2>3, <2>4
<1>3. IsFiniteSet(S) /\ Cardinality(S) = m
  <2>1. CASE m = 0
    <3>1. S = {}
      BY <1>0, <2>1
    <3> QED
      BY <2>1, <3>1, FS_EmptySet
  <2>2. CASE m # 0
    <3>1. m \in 1..m
      BY <2>2
    <3>2. \A j \in 1..m : e[j] <= e[m]
      <4> SUFFICES ASSUME NEW j \in 1..m PROVE e[j] <= e[m]
        OBVIOUS
      <4>1. e[j] \in Nat /\ e[m] \in Nat
        BY <3>1
      <4>2. j = m \/ j < m
        OBVIOUS
      <4>3. j < m => e[j] < e[m]
        BY <3>1 DEF Increasing
      <4> QED
        BY <4>1, <4>2, <4>3
    <3>3. UpTo(S, e[m]) = S
      BY <1>0, <3>2 DEF UpTo
    <3> QED
      BY <1>2, <3>1, <3>3
  <2> QED
    BY <2>1, <2>2
<1>4. ASSUME NEW i \in 1..m
      PROVE  Nth(S, i) = e[i]
  <2> DEFINE C(k) == Cardinality({j \in S : j <= k})
  <2>1. \A j \in 1..m : C(e[j]) = j
    BY <1>2 DEF UpTo
  <2> HIDE DEF C
  <2>2. e[i] \in S /\ C(e[i]) = i
    BY <1>0, <2>1
  <2>3. \A k \in S : C(k) = i => k = e[i]
    BY <1>0, <2>1
  <2>4. (CHOOSE k \in S : C(k) = i) = e[i]
    BY <2>2, <2>3
  <2> QED
    BY <2>4 DEF C, Nth
<1> QED
  BY <1>2, <1>3, <1>4

-----------------------------------------------------------------------------
(* Where the encoder puts each value.                                      *)

LEMMA FlipTwice ==
  ASSUME NEW b \in AnyByte
  PROVE  FlipBit5(b) \in AnyByte /\ FlipBit5(FlipBit5(b)) = b
<1>1. b \in Nat /\ b <= 255
  BY DEF AnyByte
<1>2. CASE (b \div 32) % 2 = 0
  <2>1. b < 224
    BY <1>1, <1>2
  <2>2. ((b + 32) \div 32) % 2 = 1
    BY <1>1, <1>2
  <2> QED
    BY <1>1, <1>2, <2>1, <2>2 DEF FlipBit5, AnyByte
<1>3. CASE (b \div 32) % 2 # 0
  <2>1. b >= 32
    BY <1>1, <1>3
  <2>2. ((b - 32) \div 32) % 2 = 0
    BY <1>1, <1>3, <2>1
  <2> QED
    BY <1>1, <1>3, <2>1, <2>2 DEF FlipBit5, AnyByte
<1> QED
  BY <1>2, <1>3

LEMMA EncodedByteProperties ==
  ASSUME NEW b \in AnyByte
  PROVE  /\ EncodedByte(b) \in AnyByte
         /\ EncodedByte(b) # Delimiter /\ EncodedByte(b) # Escape
         /\ RequiresEscape(b) => EncodedByte(b) = FlipBit5(b) /\ FlipBit5(EncodedByte(b)) = b
         /\ ~RequiresEscape(b) => EncodedByte(b) = b
<1>1. CASE RequiresEscape(b)
  <2>1. b = 126 \/ b = 125
    BY <1>1 DEF RequiresEscape, Delimiter, Escape
  <2>2. FlipBit5(126) = 94 /\ FlipBit5(125) = 93 /\ FlipBit5(94) = 126 /\ FlipBit5(93) = 125
    BY DEF FlipBit5
  <2>3. EncodedByte(b) = FlipBit5(b)
    BY <1>1 DEF EncodedByte
  <2> QED
    BY <1>1, <2>1, <2>2, <2>3 DEF AnyByte, Delimiter, Escape
<1>2. CASE ~RequiresEscape(b)
  BY <1>2 DEF EncodedByte, RequiresEscape
<1> QED
  BY <1>1, <1>2

(* A value takes one position of the body, an escaped one two.             *)
LEMMA ValueEndStep ==
  ASSUME NEW p \in Bytes
  PROVE  /\ ValueEnd(p, 0) = 0
         /\ \A i \in Nat : ValueEnd(p, i) \in Nat
         /\ \A i \in 1..Len(p) :
              ValueEnd(p, i) = ValueEnd(p, i - 1) + (IF RequiresEscape(p[i]) THEN 2 ELSE 1)
<1> DEFINE S == {j \in 1..Len(p) : RequiresEscape(p[j])}
<1>1. Len(p) \in Nat /\ S \in SUBSET Nat
  BY EmptyBytes
<1>2. \A i \in 0..Len(p) : {j \in 1..i : RequiresEscape(p[j])} = UpTo(S, i)
  BY <1>1 DEF UpTo
<1>3. \A i \in Nat : ValueEnd(p, i) \in Nat
  BY EscapesType DEF ValueEnd
<1>4. ValueEnd(p, 0) = 0
  BY EscapesType DEF ValueEnd
<1>5. ASSUME NEW i \in 1..Len(p)
      PROVE  ValueEnd(p, i) = ValueEnd(p, i - 1) + (IF RequiresEscape(p[i]) THEN 2 ELSE 1)
  <2>1. i - 1 \in Nat /\ i - 1 \in 0..Len(p) /\ i \in 0..Len(p) /\ (i - 1) + 1 = i
    BY <1>1
  <2>2. i \in S <=> RequiresEscape(p[i])
    OBVIOUS
  <2>3. Escapes(p, i) = Cardinality(UpTo(S, i)) /\ Escapes(p, i - 1) = Cardinality(UpTo(S, i - 1))
    BY <1>2, <2>1 DEF Escapes
  <2> HIDE DEF S
  <2>4. /\ Cardinality(UpTo(S, i - 1)) \in Nat
        /\ Cardinality(UpTo(S, i)) = IF i \in S THEN Cardinality(UpTo(S, i - 1)) + 1
                                     ELSE Cardinality(UpTo(S, i - 1))
    BY <1>1, <2>1, CountUpTo
  <2> QED
    BY <2>1, <2>2, <2>3, <2>4 DEF ValueEnd
<1> QED
  BY <1>3, <1>4, <1>5

Ends(p) == [i \in 1..Len(p) |-> ValueEnd(p, i)]

LEMMA EndsIncrease ==
  ASSUME NEW p \in Bytes
  PROVE  Ends(p) \in [1..Len(p) -> Nat] /\ Increasing(Ends(p), Len(p))
<1>1. Ends(p) \in [1..Len(p) -> Nat] /\ Len(p) \in Nat
  BY ValueEndStep, EmptyBytes DEF Ends
<1>2. ASSUME NEW i \in 1..Len(p), i + 1 \in 1..Len(p)
      PROVE  Ends(p)[i] < Ends(p)[i + 1]
  <2>1. (i + 1) - 1 = i /\ i \in Nat
    OBVIOUS
  <2>2. ValueEnd(p, i + 1) = ValueEnd(p, i) + (IF RequiresEscape(p[i + 1]) THEN 2 ELSE 1)
        /\ ValueEnd(p, i) \in Nat
    BY <1>2, <2>1, ValueEndStep
  <2> QED
    BY <1>2, <2>2 DEF Ends
<1> QED
  BY <1>1, <1>2, StepwiseIncreasing

(* Every position of the body is the last one of some value, or the escape *)
(* character right before it.                                              *)
LEMMA BodyPositions ==
  ASSUME NEW p \in Bytes
  PROVE  /\ \A i \in 1..Len(p) :
              /\ ValueEnd(p, i) \in 1..BodyLength(p)
              /\ Body(p)[ValueEnd(p, i)] = EncodedByte(p[i])
         /\ \A k \in 1..BodyLength(p) : \E i \in 1..Len(p) :
              \/ k = ValueEnd(p, i)
              \/ /\ RequiresEscape(p[i])
                 /\ k + 1 = ValueEnd(p, i) /\ k - 1 = ValueEnd(p, i - 1)
                 /\ Body(p)[k] = Escape
         /\ \A i, j \in 1..Len(p) : ValueEnd(p, i) = ValueEnd(p, j) => i = j
<1> DEFINE E(i) == ValueEnd(p, i)
           n == Len(p)
<1>1. n \in Nat /\ \A i \in Nat : E(i) \in Nat
  BY EmptyBytes, ValueEndStep
<1>2. \A i, j \in 1..n : i < j => E(i) < E(j)
  BY EndsIncrease DEF Increasing, Ends
<1>3. \A i \in 1..n : E(i) = E(i - 1) + (IF RequiresEscape(p[i]) THEN 2 ELSE 1)
  BY ValueEndStep
<1>4. E(0) = 0 /\ BodyLength(p) = E(n)
  BY ValueEndStep DEF BodyLength
<1> HIDE DEF E
<1>5. \A i \in 1..n : E(i) \in 1..E(n)
  <2> SUFFICES ASSUME NEW i \in 1..n PROVE E(i) \in 1..E(n)
    OBVIOUS
  <2>1. E(i) >= 1
    <3>1. i - 1 \in Nat /\ E(i - 1) \in Nat
      BY <1>1
    <3>2. E(i) = E(i - 1) + 2 \/ E(i) = E(i - 1) + 1
      BY <1>3
    <3> QED
      BY <3>1, <3>2
  <2>2. i = n \/ i < n
    BY <1>1
  <2>3. n \in 1..n
    BY <1>1
  <2> QED
    BY <1>1, <1>2, <2>1, <2>2, <2>3
<1>6. \A i, j \in 1..n : E(i) = E(j) => i = j
  <2> SUFFICES ASSUME NEW i \in 1..n, NEW j \in 1..n, E(i) = E(j) PROVE i = j
    OBVIOUS
  <2>1. ~(E(i) < E(j)) /\ ~(E(j) < E(i))
    BY <1>1
  <2> QED
    BY <1>1, <1>2, <2>1
<1>7. Body(p) = [k \in 1..E(n) |->
                   IF \E i \in 1..n : E(i) = k
                   THEN EncodedByte(p[CHOOSE i \in 1..n : E(i) = k]) ELSE Escape]
  BY <1>4 DEF Body, E
<1>8. ASSUME NEW i \in 1..n PROVE Body(p)[E(i)] = EncodedByte(p[i])
  <2>1. (CHOOSE j \in 1..n : E(j) = E(i)) = i
    BY <1>6
  <2> QED
    BY <1>5, <1>7, <2>1
<1>9. ASSUME NEW k \in 1..E(n)
      PROVE  \E i \in 1..n :
               \/ k = E(i)
               \/ /\ RequiresEscape(p[i])
                  /\ k + 1 = E(i) /\ k - 1 = E(i - 1)
                  /\ Body(p)[k] = Escape
  <2> DEFINE T == {i \in 1..n : k <= E(i)}
  <2>0. n \in T
    <3>1. n # 0
      BY <1>1, <1>4
    <3> QED
      BY <1>1, <3>1
  <2>1. PICK i \in T : \A y \in T : i <= y
    <3>1. T \in SUBSET Nat /\ T # {}
      BY <2>0
    <3> HIDE DEF T
    <3> QED
      BY <3>1, LeastElement
  <2>2. i \in 1..n /\ k <= E(i) /\ E(i) \in Nat /\ E(i - 1) \in Nat
    BY <1>1, <2>1
  <2>3. E(i - 1) < k
    <3>1. CASE i = 1
      BY <1>4, <3>1
    <3>2. CASE i # 1
      <4>1. i - 1 \in 1..n /\ ~(i <= i - 1)
        BY <2>2, <3>2
      <4>2. i - 1 \notin T
        BY <2>1, <4>1
      <4> QED
        BY <1>1, <2>2, <4>1, <4>2
    <3> QED
      BY <3>1, <3>2
  <2>4. k = E(i) \/ (RequiresEscape(p[i]) /\ k + 1 = E(i) /\ k - 1 = E(i - 1))
    <3>1. (RequiresEscape(p[i]) /\ E(i) = E(i - 1) + 2) \/ E(i) = E(i - 1) + 1
      BY <1>3, <2>2
    <3>2. k \in Nat /\ E(i) \in Nat /\ E(i - 1) \in Nat
      BY <1>1, <2>2
    <3> DEFINE a == E(i - 1)
               c == E(i)
    <3> HIDE DEF a, c
    <3>3. k <= c /\ a < k /\ a \in Nat /\ c \in Nat
          /\ ((RequiresEscape(p[i]) /\ c = a + 2) \/ c = a + 1)
      BY <2>2, <2>3, <3>1, <3>2 DEF a, c
    <3>4. k = c \/ (RequiresEscape(p[i]) /\ k + 1 = c /\ k - 1 = a)
      BY <3>2, <3>3
    <3> QED
      BY <3>4 DEF a, c
  <2>5. ASSUME k + 1 = E(i), k - 1 = E(i - 1) PROVE Body(p)[k] = Escape
    <3>1. \A j \in 1..n : E(j) # k
      <4> SUFFICES ASSUME NEW j \in 1..n, E(j) = k PROVE FALSE
        OBVIOUS
      <4>1. j = i \/ i < j \/ j < i
        BY <2>2
      <4>2. ~(E(i) < E(j)) /\ j # i
        BY <2>2, <2>5
      <4>3. j < i
        BY <1>2, <2>2, <4>1, <4>2
      <4>4. j \in T /\ ~(i <= j)
        BY <2>2, <4>3
      <4> QED
        BY <2>1, <4>4
    <3> QED
      BY <1>7, <3>1
  <2> QED
    BY <2>2, <2>4, <2>5
<1> QED
  BY <1>4, <1>5, <1>6, <1>8, <1>9 DEF E

LEMMA ConcatAt ==
  ASSUME NEW a \in Bytes, NEW b \in Bytes
  PROVE  /\ a \o b \in Bytes /\ Len(a \o b) = Len(a) + Len(b)
         /\ \A k \in 1..Len(a) : (a \o b)[k] = a[k]
         /\ \A k \in 1..Len(b) : (a \o b)[Len(a) + k] = b[k]
<1>1. a \in Seq(AnyByte) /\ b \in Seq(AnyByte) /\ Len(a) \in Nat /\ Len(b) \in Nat
  BY EmptyBytes DEF Bytes
<1>2. /\ a \o b \in Bytes /\ Len(a \o b) = Len(a) + Len(b)
      /\ \A k \in 1..(Len(a) + Len(b)) :
           (a \o b)[k] = IF k <= Len(a) THEN a[k] ELSE b[k - Len(a)]
  BY <1>1, ConcatProperties DEF Bytes
<1>3. \A k \in 1..Len(a) : k \in 1..(Len(a) + Len(b)) /\ k <= Len(a)
  BY <1>1
<1>4. \A k \in 1..Len(b) : /\ Len(a) + k \in 1..(Len(a) + Len(b)) /\ ~(Len(a) + k <= Len(a))
                           /\ (Len(a) + k) - Len(a) = k
  BY <1>1
<1> QED
  BY <1>2, <1>3, <1>4

LEMMA FramedPositions ==
  ASSUME NEW b \in Bytes
  PROVE  /\ Framed(b) \in Bytes /\ Len(Framed(b)) = Len(b) + 2
         /\ Framed(b)[1] = Delimiter /\ Framed(b)[Len(b) + 2] = Delimiter
         /\ \A k \in 1..Len(b) : Framed(b)[k + 1] = b[k]
<1> DEFINE d == <<Delimiter>>
           n == Len(b)
           c == d \o b
<1>1. d \in Bytes /\ Len(d) = 1 /\ d[1] = Delimiter /\ n \in Nat
  BY EmptyBytes DEF Bytes, AnyByte, Delimiter
<1> HIDE DEF d
<1>2. /\ c \in Bytes /\ Len(c) = 1 + n /\ c[1] = Delimiter
      /\ \A k \in 1..n : c[1 + k] = b[k]
  <2>1. /\ c \in Bytes /\ Len(c) = Len(d) + Len(b)
        /\ \A k \in 1..Len(d) : c[k] = d[k]
        /\ \A k \in 1..Len(b) : c[Len(d) + k] = b[k]
    BY <1>1, ConcatAt
  <2> HIDE DEF c
  <2> QED
    BY <1>1, <2>1
<1>3. Framed(b) = c \o d
  BY DEF Framed, d
<1> HIDE DEF c
<1>4. /\ c \o d \in Bytes /\ Len(c \o d) = (1 + n) + 1
      /\ \A k \in 1..(1 + n) : (c \o d)[k] = c[k]
      /\ (c \o d)[(1 + n) + 1] = Delimiter
  <2> DEFINE f == c \o d
  <2>1. /\ f \in Bytes /\ Len(f) = Len(c) + Len(d)
        /\ \A k \in 1..Len(c) : f[k] = c[k]
        /\ \A k \in 1..Len(d) : f[Len(c) + k] = d[k]
    BY <1>1, <1>2, ConcatAt
  <2> HIDE DEF f
  <2>2. 1 \in 1..Len(d)
    BY <1>1
  <2>3. f[Len(c) + 1] = Delimiter
    BY <1>1, <2>1, <2>2
  <2>4. f \in Bytes /\ Len(f) = (1 + n) + 1 /\ \A k \in 1..(1 + n) : f[k] = c[k]
        /\ f[(1 + n) + 1] = Delimiter
    BY <1>1, <1>2, <2>1, <2>3
  <2> QED
    BY <2>4 DEF f
<1>5. /\ (1 + n) + 1 = n + 2 /\ 1 \in 1..(1 + n)
      /\ \A k \in 1..n : k + 1 \in 1..(1 + n) /\ k + 1 = 1 + k
  BY <1>1
<1> QED
  BY <1>2, <1>3, <1>4, <1>5

(* What stands before a value in the body.                                 *)
LEMMA BeforeValue ==
  ASSUME NEW p \in Bytes, NEW i \in 1..Len(p)
  PROVE  /\ RequiresEscape(p[i]) =>
              /\ ValueEnd(p, i) - 1 \in 1..BodyLength(p)
              /\ Body(p)[ValueEnd(p, i) - 1] = Escape
         /\ ~RequiresEscape(p[i]) /\ ValueEnd(p, i) # 1 =>
              /\ ValueEnd(p, i) - 1 \in 1..BodyLength(p)
              /\ Body(p)[ValueEnd(p, i) - 1] # Escape
<1> DEFINE E(j) == ValueEnd(p, j)
           n == Len(p)
<1>1. /\ n \in Nat /\ E(0) = 0 /\ \A j \in Nat : E(j) \in Nat
      /\ E(i) = E(i - 1) + (IF RequiresEscape(p[i]) THEN 2 ELSE 1)
      /\ E(i) \in 1..BodyLength(p) /\ BodyLength(p) \in Nat
  BY EmptyBytes, ValueEndStep, BodyPositions DEF BodyLength
<1>2. \A j, l \in 1..n : j < l => E(j) < E(l)
  BY EndsIncrease DEF Increasing, Ends
<1> HIDE DEF E
<1>3. i - 1 \in Nat /\ E(i) \in Nat /\ E(i - 1) \in Nat /\ i \in 1..n
  BY <1>1
<1>4. CASE RequiresEscape(p[i])
  <2> DEFINE k == E(i) - 1
  <2>1. E(i) = E(i - 1) + 2
    BY <1>1, <1>4
  <2>2. k \in 1..BodyLength(p) /\ k - 1 = E(i - 1) /\ k + 1 = E(i)
    <3> DEFINE x == E(i)
               y == E(i - 1)
               l == BodyLength(p)
    <3>1. x \in Nat /\ y \in Nat /\ x = y + 2 /\ x \in 1..l /\ l \in Nat
      BY <1>1, <1>3, <2>1
    <3> HIDE DEF x, y, l
    <3>2. x - 1 \in 1..l /\ (x - 1) - 1 = y /\ (x - 1) + 1 = x
      BY <3>1
    <3> QED
      BY <3>2 DEF x, y, l
  <2> HIDE DEF k
  <2>3. PICK j \in 1..n :
          \/ k = E(j)
          \/ /\ RequiresEscape(p[j])
             /\ k + 1 = E(j) /\ k - 1 = E(j - 1)
             /\ Body(p)[k] = Escape
    BY <2>2, BodyPositions DEF E
  <2>4. k # E(j)
    <3> SUFFICES ASSUME k = E(j) PROVE FALSE
      OBVIOUS
    <3>1. E(j) < E(i) /\ E(i - 1) < E(j) /\ E(j) \in Nat
      <4> DEFINE x == E(i)
                 y == E(i - 1)
      <4>1. x \in Nat /\ y \in Nat /\ k - 1 = y /\ k + 1 = x /\ k \in Nat
        BY <1>1, <1>3, <2>2
      <4> HIDE DEF x, y
      <4>2. k < x /\ y < k
        BY <4>1
      <4> QED
        BY <1>1, <4>2 DEF x, y
    <3>2. j < i
      <4>1. j = i \/ i < j \/ j < i
        BY <1>3
      <4>2. ~(E(i) < E(j)) /\ E(i) # E(j)
        BY <1>3, <3>1
      <4> QED
        BY <1>2, <4>1, <4>2
    <3>3. j = i - 1 \/ (j < i - 1 /\ i - 1 \in 1..n)
      BY <1>3, <3>2
    <3> QED
      BY <1>2, <1>3, <3>1, <3>3
  <2>5. Body(p)[k] = Escape
    BY <2>3, <2>4
  <2> QED
    BY <1>4, <2>2, <2>5 DEF k, E
<1>5. CASE ~RequiresEscape(p[i]) /\ E(i) # 1
  <2>1. E(i) = E(i - 1) + 1
    BY <1>1, <1>5
  <2>2. i - 1 \in 1..n
    <3>1. i # 1
      <4> SUFFICES ASSUME i = 1 PROVE FALSE
        OBVIOUS
      <4>1. E(i - 1) = 0
        BY <1>1
      <4> QED
        BY <1>5, <2>1, <4>1
    <3> QED
      BY <1>1, <1>3, <3>1
  <2>3. E(i) - 1 = E(i - 1)
    BY <1>3, <2>1
  <2>4. E(i - 1) \in 1..BodyLength(p) /\ Body(p)[E(i - 1)] = EncodedByte(p[i - 1])
    BY <2>2, BodyPositions DEF E
  <2>5. p[i - 1] \in AnyByte
    BY <2>2, ElementOfSeq DEF Bytes
  <2>6. Body(p)[E(i - 1)] # Escape
    BY <2>4, <2>5, EncodedByteProperties
  <2> QED
    BY <1>5, <2>3, <2>4, <2>6 DEF E
<1> QED
  BY <1>4, <1>5 DEF E

-----------------------------------------------------------------------------
(* The decoder undoes the encoder.                                         *)

(* What the decoder of the peer finds in an encoded frame: nothing broken, *)
(* and the values of the payload, each where the encoder put it.           *)
LEMMA EncodedFrame ==
  ASSUME NEW p \in Bytes
  PROVE  LET f == Framed(Body(p))
         IN  /\ Broken(f) = {}
             /\ ValuePositions(f) = {ValueEnd(p, i) + 1 : i \in 1..Len(p)}
             /\ \A i \in 1..Len(p) : DecodedByte(f, ValueEnd(p, i) + 1) = p[i]
<1> DEFINE f == Framed(Body(p))
           n == BodyLength(p)
           E(i) == ValueEnd(p, i)
<1>1. /\ Body(p) \in Bytes /\ Len(Body(p)) = n /\ n \in Nat
      /\ \A k \in 1..n : Body(p)[k] # Delimiter
  BY BodyProperties, EmptyBytes
<1>2. /\ f \in Bytes /\ Len(f) = n + 2 /\ f[1] = Delimiter /\ f[n + 2] = Delimiter
      /\ \A k \in 1..n : f[k + 1] = Body(p)[k]
  BY <1>1, FramedPositions
<1>3. /\ \A i \in 1..Len(p) : E(i) \in 1..n /\ Body(p)[E(i)] = EncodedByte(p[i])
      /\ \A k \in 1..n : \E i \in 1..Len(p) :
           \/ k = E(i)
           \/ RequiresEscape(p[i]) /\ k + 1 = E(i) /\ Body(p)[k] = Escape
  BY BodyPositions
<1>4. \A i \in 1..Len(p) :
        /\ RequiresEscape(p[i]) => E(i) - 1 \in 1..n /\ Body(p)[E(i) - 1] = Escape
        /\ ~RequiresEscape(p[i]) /\ E(i) # 1 => E(i) - 1 \in 1..n /\ Body(p)[E(i) - 1] # Escape
  BY BeforeValue
<1>5. \A i \in 1..Len(p) : p[i] \in AnyByte
  BY ElementOfSeq DEF Bytes
<1>6. \A i \in 1..Len(p) :
        /\ E(i) + 1 \in 2..(n + 1)
        /\ f[E(i) + 1] = EncodedByte(p[i])
        /\ f[E(i) + 1] # Escape
        /\ RequiresEscape(p[i]) => f[E(i) + 1] = FlipBit5(p[i]) /\ FlipBit5(f[E(i) + 1]) = p[i]
        /\ ~RequiresEscape(p[i]) => f[E(i) + 1] = p[i]
  <2> SUFFICES ASSUME NEW i \in 1..Len(p)
               PROVE  /\ E(i) + 1 \in 2..(n + 1)
                      /\ f[E(i) + 1] = EncodedByte(p[i])
                      /\ f[E(i) + 1] # Escape
                      /\ RequiresEscape(p[i]) => f[E(i) + 1] = FlipBit5(p[i]) /\ FlipBit5(f[E(i) + 1]) = p[i]
                      /\ ~RequiresEscape(p[i]) => f[E(i) + 1] = p[i]
    OBVIOUS
  <2> DEFINE x == E(i)
  <2>1. x \in 1..n /\ Body(p)[x] = EncodedByte(p[i])
    BY <1>3
  <2> HIDE DEF x, f
  <2>2. x + 1 \in 2..(n + 1) /\ f[x + 1] = EncodedByte(p[i])
    BY <1>1, <1>2, <2>1
  <2> QED
    BY <1>5, <2>2, EncodedByteProperties DEF x
<1> HIDE DEF f, E, n
<1>7. Interior(f) = 2..(n + 1)
  BY <1>1, <1>2 DEF Interior
<1>8. ASSUME NEW k \in Interior(f) PROVE f[k] # Delimiter /\ k - 1 \in 1..n /\ f[k] = Body(p)[k - 1]
  <2>1. k - 1 \in 1..n /\ (k - 1) + 1 = k
    BY <1>1, <1>7
  <2> QED
    BY <1>1, <1>2, <2>1
<1>9. Broken(f) = {}
  <2> SUFFICES ASSUME NEW k \in Interior(f), BrokenAt(f, k) PROVE FALSE
    BY DEF Broken
  <2>1. f[k] = Escape /\ (k + 1 \notin Interior(f) \/ ~RequiresEscape(FlipBit5(f[k + 1])))
    BY <1>8 DEF BrokenAt
  <2>2. PICK i \in 1..Len(p) :
          \/ k - 1 = E(i)
          \/ RequiresEscape(p[i]) /\ (k - 1) + 1 = E(i) /\ Body(p)[k - 1] = Escape
    BY <1>3, <1>8
  <2>3. CASE k - 1 = E(i)
    <3>1. k = E(i) + 1
      BY <1>7, <2>3
    <3> QED
      BY <1>6, <2>1, <3>1
  <2>4. CASE RequiresEscape(p[i]) /\ (k - 1) + 1 = E(i)
    <3>1. k + 1 = E(i) + 1
      BY <1>7, <2>4
    <3> QED
      BY <1>6, <1>7, <2>1, <2>4, <3>1
  <2> QED
    BY <2>2, <2>3, <2>4
<1>10. ValuePositions(f) = {E(i) + 1 : i \in 1..Len(p)}
  <2>1. ASSUME NEW k \in Interior(f), f[k] # Escape PROVE \E i \in 1..Len(p) : k = E(i) + 1
    <3>1. PICK i \in 1..Len(p) :
            \/ k - 1 = E(i)
            \/ RequiresEscape(p[i]) /\ (k - 1) + 1 = E(i) /\ Body(p)[k - 1] = Escape
      BY <1>3, <1>8
    <3>2. k - 1 = E(i)
      BY <1>8, <2>1, <3>1
    <3>3. k = E(i) + 1
      BY <1>7, <3>2
    <3> QED
      BY <3>3
  <2>2. ValuePositions(f) = {k \in Interior(f) : f[k] # Escape}
    BY <1>9 DEF ValuePositions
  <2> QED
    BY <1>6, <1>7, <2>1, <2>2
<1>11. ASSUME NEW i \in 1..Len(p) PROVE DecodedByte(f, E(i) + 1) = p[i]
  <2> DEFINE x == E(i)
  <2>1. x \in 1..n
    BY <1>3
  <2>2. (x + 1) - 1 = x /\ (x - 1) + 1 = x
    BY <1>1, <2>1
  <2>3. CASE RequiresEscape(p[i])
    <3>1. x - 1 \in 1..n /\ Body(p)[x - 1] = Escape
      BY <1>4, <2>3
    <3>2. f[x] = Escape
      BY <1>2, <2>2, <3>1
    <3> QED
      BY <1>6, <2>2, <2>3, <3>2 DEF DecodedByte
  <2>4. CASE ~RequiresEscape(p[i])
    <3>1. f[x] # Escape
      <4>1. CASE x = 1
        BY <1>2, <4>1 DEF Delimiter, Escape
      <4>2. CASE x # 1
        <5>1. x - 1 \in 1..n /\ Body(p)[x - 1] # Escape
          BY <1>4, <2>4, <4>2
        <5> QED
          BY <1>2, <2>2, <5>1
      <4> QED
        BY <4>1, <4>2
    <3> QED
      BY <1>6, <2>2, <2>4, <3>1 DEF DecodedByte
  <2> QED
    BY <2>3, <2>4
<1> QED
  BY <1>9, <1>10, <1>11 DEF f, E

(* Whatever payload the driver frames, the decoder at the other end        *)
(* returns that payload.                                                   *)
THEOREM DecodeUndoesEncode ==
  ASSUME NEW p \in Bytes, NEW capacity \in Nat, Encodable(p, capacity)
  PROVE  Decode(Encode(p, capacity), QueueCapacity) = [status |-> "OK", data |-> p]
<1> DEFINE f == Encode(p, capacity)
           m == Len(p)
           e == [i \in 1..m |-> ValueEnd(p, i) + 1]
           at == ValuePositions(f)
<1>1. f = Framed(Body(p))
  BY DEF Encode
<1>2. /\ m \in Nat /\ m # 0 /\ m <= QueueCapacity /\ QueueCapacity \in Nat
  BY EmptyBytes, FrameAssumption DEF Encodable
<1>3. /\ f \in Bytes /\ Len(f) = BodyLength(p) + 2 /\ f[1] = Delimiter /\ f[Len(f)] = Delimiter
      /\ BodyLength(p) \in Nat /\ BodyLength(p) >= m
  <2>1. /\ Body(p) \in Bytes /\ Len(Body(p)) = BodyLength(p)
        /\ BodyLength(p) \in m..(2 * m)
    BY BodyProperties
  <2>2. /\ f \in Bytes /\ Len(f) = Len(Body(p)) + 2
        /\ f[1] = Delimiter /\ f[Len(Body(p)) + 2] = Delimiter
    BY <1>1, <2>1, FramedPositions
  <2> HIDE DEF f, m
  <2> QED
    BY <1>2, <2>1, <2>2
<1>4. /\ Broken(f) = {}
      /\ at = {ValueEnd(p, i) + 1 : i \in 1..m}
      /\ \A i \in 1..m : DecodedByte(f, ValueEnd(p, i) + 1) = p[i]
  BY <1>1, EncodedFrame
<1> HIDE DEF f, m
<1>5. e \in [1..m -> Nat] /\ Increasing(e, m)
  <2>1. Ends(p) \in [1..m -> Nat] /\ Increasing(Ends(p), m)
    BY EndsIncrease DEF m
  <2>2. \A i \in 1..m : Ends(p)[i] \in Nat /\ e[i] = Ends(p)[i] + 1
    BY <2>1 DEF Ends, m
  <2>3. \A i, j \in 1..m : i < j => Ends(p)[i] < Ends(p)[j]
    BY <2>1 DEF Increasing
  <2>4. e \in [1..m -> Nat]
    BY <2>2
  <2> HIDE DEF e
  <2>5. \A i, j \in 1..m : i < j => e[i] < e[j]
    BY <2>2, <2>3
  <2> QED
    BY <2>4, <2>5 DEF Increasing
<1>6. at = Listed(e, m)
  <2>1. \A i \in 1..m : e[i] = ValueEnd(p, i) + 1
    OBVIOUS
  <2> HIDE DEF e, at
  <2>2. \A k : (\E i \in 1..m : k = ValueEnd(p, i) + 1) <=> (\E i \in 1..m : k = e[i])
    BY <2>1
  <2>3. at = {e[i] : i \in 1..m}
    BY <1>4, <2>2
  <2> QED
    BY <2>3 DEF Listed
<1> HIDE DEF e, at
<1>7. /\ Cardinality(at) = m
      /\ \A i \in 1..m : Nth(at, i) = e[i]
  <2>1. /\ IsFiniteSet(at) /\ Cardinality(at) = m
        /\ \A i \in 1..m : Cardinality(UpTo(at, e[i])) = i
        /\ \A i \in 1..m : Nth(at, i) = e[i]
    BY <1>2, <1>5, <1>6, Enumeration
  <2> QED
    BY <2>1
<1>8. Values(f) = p
  <2>1. Values(f) = [i \in 1..Cardinality(at) |-> DecodedByte(f, Nth(at, i))]
    BY DEF Values, at
  <2>2. \A i \in 1..m : Nth(at, i) = e[i]
    BY <1>7
  <2>3. \A i \in 1..m : DecodedByte(f, Nth(at, i)) = p[i]
    BY <1>4, <2>2 DEF e
  <2>4. Values(f) = [i \in 1..m |-> p[i]]
    BY <1>7, <2>1, <2>3
  <2>5. p = [i \in 1..m |-> p[i]]
    BY DEF Bytes, m
  <2> QED
    BY <2>4, <2>5
<1>9. ~TooLong(f)
  BY <1>2, <1>7 DEF TooLong, at
<1>10. ~(Len(f) < 3)
  BY <1>2, <1>3
<1>11. Decode(f, QueueCapacity) = [status |-> "OK", data |-> p]
  BY <1>2, <1>3, <1>4, <1>8, <1>9, <1>10 DEF Decode
<1> QED
  BY <1>11 DEF f

-----------------------------------------------------------------------------
(* The encoder undoes the decoder.                                         *)

(* How many values are complete at a position of a frame.                  *)
Complete(f, k) == Cardinality(UpTo(ValuePositions(f), k))

(* The decoder's values, counted along the frame.                          *)
LEMMA DecodedPositions ==
  ASSUME NEW f \in Bytes, Broken(f) = {}
  PROVE  LET at == ValuePositions(f)
             p == Values(f)
         IN  /\ at = {k \in Interior(f) : f[k] # Escape}
             /\ IsFiniteSet(at) /\ Cardinality(at) \in Nat
             /\ p \in Bytes /\ Len(p) = Cardinality(at)
             /\ \A k \in at : /\ Complete(f, k) \in 1..Cardinality(at)
                              /\ p[Complete(f, k)] = DecodedByte(f, k)
             /\ \A i \in 1..Cardinality(at) : \E k \in at : Complete(f, k) = i
             /\ \A k \in Nat : /\ Complete(f, k) \in Nat
                               /\ Complete(f, k + 1) = IF k + 1 \in at THEN Complete(f, k) + 1
                                                       ELSE Complete(f, k)
             /\ Complete(f, 1) = 0
             /\ Complete(f, Len(f) - 1) = Cardinality(at)
<1> DEFINE at == ValuePositions(f)
           p == Values(f)
           C(k) == Complete(f, k)
           m == Cardinality(at)
           L == Len(f)
<1>1. L \in Nat /\ \A i \in 1..L : f[i] \in AnyByte
  BY ElementOfSeq, EmptyBytes DEF Bytes
<1>2. at = {k \in Interior(f) : f[k] # Escape}
  BY DEF ValuePositions
<1>3. at \in SUBSET (2..(L - 1)) /\ at \in SUBSET Nat /\ at \in SUBSET (Nat \ {0})
  BY <1>1, <1>2 DEF Interior
<1>4. p = [i \in 1..m |-> DecodedByte(f, Nth(at, i))]
  BY DEF Values
<1>5. C(1) = 0 /\ C(L - 1) = m /\ IsFiniteSet(at) /\ m \in Nat
  <2> HIDE DEF at
  <2>1. \A k \in at : ~(k <= 1) /\ k <= L - 1
    BY <1>1, <1>3
  <2>2. UpTo(at, 1) = {} /\ UpTo(at, L - 1) = at
    BY <2>1 DEF UpTo
  <2>3. IsFiniteSet(at)
    <3>1. IsFiniteSet(2..(L - 1))
      BY <1>1, FS_Interval
    <3> QED
      BY <1>3, <3>1, FS_Subset
  <2> QED
    BY <2>2, <2>3, FS_EmptySet, FS_CardinalityType DEF Complete, at
<1>6. \A k \in Nat : C(k) \in Nat /\ C(k + 1) = IF k + 1 \in at THEN C(k) + 1 ELSE C(k)
  <2> HIDE DEF at
  <2> QED
    BY <1>3, CountUpTo DEF Complete, at
<1>7. \A i \in 1..m : \E k \in at : C(k) = i
  <2> SUFFICES ASSUME NEW i \in 1..m PROVE \E k \in at : C(k) = i
    OBVIOUS
  <2> HIDE DEF at, C, m, L
  <2>1. \A k \in at : C(k) = Cardinality(UpTo(at, k))
    BY DEF C, at, Complete
  <2>2. \A s \in at : s <= L
    BY <1>1, <1>3
  <2>3. i \in 1..Cardinality(at)
    BY DEF m
  <2>4. \E k \in at : Cardinality(UpTo(at, k)) = i
    BY <1>1, <1>3, <2>2, <2>3, NthExists
  <2> QED
    BY <2>1, <2>4
<1> HIDE DEF at, C, m, L, p
<1>8. \A k \in at : \A l \in at : k < l => C(k) < C(l)
  <2> SUFFICES ASSUME NEW k \in at, NEW l \in at, k < l PROVE C(k) < C(l)
    OBVIOUS
  <2>1. \A n \in Nat : C(n) <= C(n + 1)
    <3> SUFFICES ASSUME NEW n \in Nat PROVE C(n) <= C(n + 1)
      OBVIOUS
    <3>1. C(n) \in Nat /\ (C(n + 1) = C(n) + 1 \/ C(n + 1) = C(n))
      BY <1>6
    <3> QED
      BY <3>1
  <2>2. l - 1 \in Nat /\ (l - 1) + 1 = l /\ k <= l - 1 /\ k \in Nat
    BY <1>3
  <2>3. C(l) = C(l - 1) + 1 /\ C(l - 1) \in Nat /\ C(k) \in Nat
    BY <1>6, <2>2
  <2>4. \A n \in Nat : k <= n => C(k) <= C(n)
    <3> DEFINE T == {n \in Nat : k <= n /\ ~(C(k) <= C(n))}
    <3> SUFFICES ASSUME T # {} PROVE FALSE
      OBVIOUS
    <3>1. PICK n \in T : \A y \in T : n <= y
      <4>1. T \in SUBSET Nat
        OBVIOUS
      <4> HIDE DEF T
      <4> QED
        BY <4>1, LeastElement
    <3>2. n \in Nat /\ k <= n /\ ~(C(k) <= C(n)) /\ n # k
      BY <1>6, <3>1
    <3>3. n - 1 \in Nat /\ (n - 1) + 1 = n /\ k <= n - 1 /\ ~(n <= n - 1)
      BY <2>2, <3>2
    <3>4. n - 1 \notin T
      BY <3>1, <3>3
    <3>5. C(k) <= C(n - 1)
      BY <3>3, <3>4
    <3>6. C(n - 1) <= C(n) /\ C(n) \in Nat /\ C(n - 1) \in Nat
      BY <1>6, <2>1, <3>2, <3>3
    <3> QED
      BY <2>3, <3>2, <3>5, <3>6
  <2> QED
    BY <2>2, <2>3, <2>4
<1>9. ASSUME NEW k \in at PROVE Nth(at, C(k)) = k
  <2>1. \A l \in at : C(l) = C(k) => l = k
    <3> SUFFICES ASSUME NEW l \in at, C(l) = C(k), l # k PROVE FALSE
      OBVIOUS
    <3>1. k \in Nat /\ l \in Nat /\ C(k) \in Nat
      BY <1>3, <1>6
    <3>2. k < l \/ l < k
      BY <3>1
    <3> QED
      BY <1>8, <3>1, <3>2
  <2>2. \A l \in at : C(l) = Cardinality({j \in at : j <= l})
    BY DEF C, Complete, UpTo, at
  <2> QED
    BY <2>1, <2>2 DEF Nth
<1>10. ASSUME NEW k \in at PROVE C(k) \in 1..m
  <2>1. k - 1 \in Nat /\ (k - 1) + 1 = k /\ k <= L - 1 /\ L - 1 \in Nat
    BY <1>1, <1>3
  <2>2. C(k) = C(k - 1) + 1 /\ C(k - 1) \in Nat
    BY <1>6, <2>1
  <2>3. C(k) <= m
    <3>1. UpTo(at, k) \in SUBSET at
      BY DEF UpTo
    <3> QED
      BY <1>5, <3>1, FS_Subset DEF C, Complete, at, m
  <2> QED
    BY <1>5, <2>2, <2>3
<1>11. p \in Bytes /\ Len(p) = m
  <2>1. ASSUME NEW i \in 1..m PROVE DecodedByte(f, Nth(at, i)) \in AnyByte
    <3>1. PICK k \in at : C(k) = i
      BY <1>7
    <3>2. k \in 1..L
      BY <1>1, <1>3
    <3>3. Nth(at, i) = k /\ f[k] \in AnyByte
      BY <1>1, <1>9, <3>1, <3>2
    <3> QED
      BY <3>3, DecodedByteType
  <2> QED
    BY <1>4, <1>5, <2>1 DEF Bytes
<1>12. ASSUME NEW k \in at PROVE p[C(k)] = DecodedByte(f, k)
  BY <1>4, <1>9, <1>10
<1> QED
  BY <1>2, <1>5, <1>6, <1>7, <1>10, <1>11, <1>12 DEF at, C, m, L, p

(* In a frame in which nothing is broken a value ends where the encoder    *)
(* would end it, and needs an escape exactly when the frame has one.       *)
LEMMA DecodedEnds ==
  ASSUME NEW f \in Bytes, Len(f) >= 3, f[1] = Delimiter, Broken(f) = {}
  PROVE  LET p == Values(f)
         IN  \A k \in ValuePositions(f) :
               /\ ValueEnd(p, Complete(f, k)) = k - 1
               /\ EncodedByte(p[Complete(f, k)]) = f[k]
<1> DEFINE at == ValuePositions(f)
           p == Values(f)
           C(k) == Complete(f, k)
           E(i) == ValueEnd(p, i)
           m == Cardinality(at)
           L == Len(f)
<1>1. L \in Nat /\ L >= 3 /\ \A i \in 1..L : f[i] \in AnyByte
  BY ElementOfSeq, EmptyBytes DEF Bytes
<1>2. /\ at = {k \in Interior(f) : f[k] # Escape}
      /\ m \in Nat /\ p \in Bytes /\ Len(p) = m
      /\ \A k \in at : C(k) \in 1..m /\ p[C(k)] = DecodedByte(f, k)
      /\ \A k \in Nat : C(k) \in Nat /\ C(k + 1) = IF k + 1 \in at THEN C(k) + 1 ELSE C(k)
      /\ C(1) = 0
  BY DecodedPositions
<1>3. /\ E(0) = 0
      /\ \A i \in Nat : E(i) \in Nat
      /\ \A i \in 1..m : E(i) = E(i - 1) + (IF RequiresEscape(p[i]) THEN 2 ELSE 1)
  BY <1>2, ValueEndStep
<1>4. \A k \in Interior(f) : /\ f[k] # Delimiter
                             /\ f[k] = Escape => /\ k + 1 \in Interior(f)
                                                 /\ RequiresEscape(FlipBit5(f[k + 1]))
  BY DEF Broken, BrokenAt
<1>5. Interior(f) = 2..(L - 1) /\ at \in SUBSET (2..(L - 1)) /\ at \in SUBSET Nat
  <2> HIDE DEF at, p, C, E, m
  <2>1. Interior(f) = 2..(L - 1)
    BY DEF Interior
  <2>2. at \in SUBSET Interior(f)
    BY <1>2
  <2> HIDE DEF L
  <2>3. 2..(L - 1) \in SUBSET Nat
    BY <1>1
  <2> QED
    BY <2>1, <2>2, <2>3
<1> HIDE DEF at, p, C, E, m, L
<1>6. ASSUME NEW k \in at
      PROVE  /\ RequiresEscape(p[C(k)]) <=> f[k - 1] = Escape
             /\ EncodedByte(p[C(k)]) = f[k]
  <2>1. k \in 2..(L - 1) /\ f[k] # Escape /\ f[k] # Delimiter /\ f[k] \in AnyByte
        /\ (k - 1) + 1 = k /\ (k - 1 = 1 \/ k - 1 \in 2..(L - 1))
    <3>1. k \in 2..(L - 1) /\ f[k] # Escape /\ f[k] # Delimiter
      BY <1>2, <1>4, <1>5
    <3>2. k \in 1..L /\ (k - 1) + 1 = k /\ (k - 1 = 1 \/ k - 1 \in 2..(L - 1))
      BY <1>1, <3>1
    <3> QED
      BY <1>1, <3>1, <3>2
  <2>2. CASE f[k - 1] = Escape
    <3>1. k - 1 \in Interior(f)
      BY <1>5, <2>1, <2>2 DEF Delimiter, Escape
    <3>2. RequiresEscape(FlipBit5(f[k]))
      BY <1>4, <2>1, <2>2, <3>1
    <3>3. p[C(k)] = FlipBit5(f[k])
      BY <1>2, <2>2 DEF DecodedByte
    <3>4. FlipBit5(FlipBit5(f[k])) = f[k]
      BY <2>1, FlipTwice
    <3> QED
      BY <2>2, <3>2, <3>3, <3>4 DEF EncodedByte
  <2>3. CASE f[k - 1] # Escape
    <3>1. p[C(k)] = f[k]
      BY <1>2, <2>3 DEF DecodedByte
    <3>2. ~RequiresEscape(f[k])
      BY <2>1 DEF RequiresEscape
    <3> QED
      BY <2>3, <3>1, <3>2 DEF EncodedByte
  <2> QED
    BY <2>2, <2>3
<1>7. \A k \in at : E(C(k)) = k - 1
  <2> DEFINE T == {k \in at : E(C(k)) # k - 1}
  <2> SUFFICES ASSUME T # {} PROVE FALSE
    OBVIOUS
  <2>1. at \in SUBSET (2..(L - 1)) /\ T \in SUBSET Nat
    BY <1>5
  <2>2. PICK k \in T : \A y \in T : k <= y
    <3> HIDE DEF T
    <3> QED
      BY <2>1, LeastElement
  <2>3. k \in at /\ E(C(k)) # k - 1 /\ k \in 2..(L - 1)
    BY <2>1, <2>2
  <2>4. \A j \in at : j < k => E(C(j)) = j - 1
    <3> SUFFICES ASSUME NEW j \in at, j < k, E(C(j)) # j - 1 PROVE FALSE
      OBVIOUS
    <3>1. j \in T /\ j \in Nat /\ k \in Nat
      BY <2>1, <2>3
    <3> QED
      BY <2>2, <3>1
  <2>5. k - 1 \in Nat /\ (k - 1) + 1 = k /\ C(k - 1) \in Nat /\ C(k) = C(k - 1) + 1
    <3>1. k - 1 \in Nat /\ (k - 1) + 1 = k
      BY <2>3
    <3> QED
      BY <1>2, <2>3, <3>1
  <2>6. C(k) - 1 = C(k - 1)
    BY <2>5
  <2>7. E(C(k)) = E(C(k - 1)) + (IF RequiresEscape(p[C(k)]) THEN 2 ELSE 1)
        /\ E(C(k - 1)) \in Nat
    BY <1>2, <1>3, <2>3, <2>5, <2>6
  <2>8. CASE f[k - 1] # Escape
    <3>1. E(C(k - 1)) = (k - 1) - 1
      <4>1. CASE k = 2
        BY <1>2, <1>3, <4>1
      <4>2. CASE k # 2
        <5>1. k - 1 \in 2..(L - 1) /\ k - 1 < k
          BY <1>1, <2>3, <4>2
        <5>2. k - 1 \in at
          BY <1>2, <1>5, <2>8, <5>1
        <5> QED
          BY <2>4, <5>1, <5>2
      <4> QED
        BY <4>1, <4>2
    <3>2. E(C(k)) = E(C(k - 1)) + 1
      BY <1>6, <2>3, <2>7, <2>8
    <3> QED
      BY <2>3, <3>1, <3>2
  <2>9. CASE f[k - 1] = Escape
    <3>1. k # 2 /\ k - 1 \in 2..(L - 1)
      <4>1. k # 2
        BY <2>9 DEF Delimiter, Escape
      <4> QED
        BY <1>1, <2>3, <4>1
    <3>2. f[k - 2] # Escape
      <4> SUFFICES ASSUME f[k - 2] = Escape PROVE FALSE
        OBVIOUS
      <4>1. k - 2 # 1
        <5> SUFFICES ASSUME k - 2 = 1 PROVE FALSE
          OBVIOUS
        <5>1. f[1] = Escape
          OBVIOUS
        <5> QED
          BY <5>1 DEF Delimiter, Escape
      <4>2. k - 2 \in 2..(L - 1) /\ (k - 2) + 1 = k - 1
        BY <1>1, <2>3, <3>1, <4>1
      <4>3. RequiresEscape(FlipBit5(Escape))
        BY <1>4, <1>5, <2>9, <4>2
      <4>4. FlipBit5(Escape) = 93
        BY DEF FlipBit5, Escape
      <4> QED
        BY <4>3, <4>4 DEF RequiresEscape, Escape, Delimiter
    <3>3. k - 2 \in Nat /\ (k - 2) + 1 = k - 1 /\ k - 1 \notin at
      <4>1. k - 2 \in Nat /\ (k - 2) + 1 = k - 1
        BY <1>1, <2>3
      <4>2. k - 1 \notin at
        BY <1>2, <2>9
      <4> QED
        BY <4>1, <4>2
    <3>4. C(k - 1) = C(k - 2)
      BY <1>2, <3>3
    <3>5. E(C(k - 2)) = (k - 2) - 1
      <4>1. CASE k = 3
        BY <1>2, <1>3, <4>1
      <4>2. CASE k # 3
        <5>1. k - 2 \in at /\ k - 2 < k
          BY <1>1, <1>2, <1>5, <2>3, <3>1, <3>2, <4>2
        <5> QED
          BY <2>4, <5>1
      <4> QED
        BY <4>1, <4>2
    <3>6. E(C(k)) = E(C(k - 1)) + 2
      BY <1>6, <2>3, <2>7, <2>9
    <3> QED
      BY <2>3, <3>4, <3>5, <3>6
  <2> QED
    BY <2>8, <2>9
<1> QED
  BY <1>6, <1>7 DEF at, p, C, E

(* A frame the decoder accepts is the one the encoder makes of the         *)
(* payload it returns: no two frames stand for the same payload.           *)
THEOREM EncodeUndoesDecode ==
  ASSUME NEW f \in Bytes, NEW capacity \in Nat, Decode(f, capacity).status = "OK"
  PROVE  LET p == Decode(f, capacity).data
         IN  Encodable(p, MaxEncoded) /\ Encode(p, MaxEncoded) = f
<1> DEFINE p == Values(f)
           at == ValuePositions(f)
           m == Cardinality(at)
           L == Len(f)
           C(k) == Complete(f, k)
<1>1. /\ L \in Nat /\ L >= 3 /\ f[1] = Delimiter /\ f[L] = Delimiter
      /\ ~TooLong(f) /\ Broken(f) = {}
      /\ Decode(f, capacity).data = p
  BY EmptyBytes DEF Decode, Failed
<1>2. /\ at = {k \in Interior(f) : f[k] # Escape}
      /\ m \in Nat /\ p \in Bytes /\ Len(p) = m
      /\ \A k \in at : C(k) \in 1..m
      /\ \A i \in 1..m : \E k \in at : C(k) = i
      /\ C(L - 1) = m
  BY <1>1, DecodedPositions
<1>3. \A k \in at : ValueEnd(p, C(k)) = k - 1 /\ EncodedByte(p[C(k)]) = f[k]
  BY <1>1, DecodedEnds
<1>4. m <= QueueCapacity
  BY <1>1, <1>2, FrameAssumption DEF TooLong
<1> HIDE DEF p, at, m, L, C
<1>5. Interior(f) = 2..(L - 1)
  BY DEF Interior, L
<1>6. L - 1 \in at
  <2>1. L - 1 \in Interior(f) /\ (L - 1) + 1 \notin Interior(f)
    BY <1>1, <1>5
  <2>2. f[L - 1] # Escape
    BY <1>1, <2>1 DEF Broken, BrokenAt
  <2> QED
    BY <1>2, <2>1, <2>2
<1>7. m \in 1..m /\ BodyLength(p) = L - 2
  <2>1. ValueEnd(p, m) = (L - 1) - 1 /\ m \in 1..m
    BY <1>2, <1>3, <1>6
  <2> QED
    BY <1>1, <1>2, <2>1 DEF BodyLength
<1>8. Encodable(p, MaxEncoded)
  BY <1>2, <1>4, <1>7, EncodeFits
<1>9. Body(p) \in Bytes /\ Len(Body(p)) = L - 2
  BY <1>2, <1>7, BodyProperties
<1>10. ASSUME NEW k \in 1..(L - 2) PROVE Body(p)[k] = f[k + 1]
  <2>1. k + 1 \in Interior(f) /\ (k + 1) - 1 = k
    BY <1>1, <1>5
  <2>2. CASE k + 1 \in at
    <3>1. ValueEnd(p, C(k + 1)) = k /\ EncodedByte(p[C(k + 1)]) = f[k + 1] /\ C(k + 1) \in 1..m
      BY <1>2, <1>3, <2>1, <2>2
    <3>2. Body(p)[ValueEnd(p, C(k + 1))] = EncodedByte(p[C(k + 1)])
      BY <1>2, <3>1, BodyPositions
    <3> QED
      BY <3>1, <3>2
  <2>3. CASE k + 1 \notin at
    <3>1. f[k + 1] = Escape
      BY <1>2, <2>1, <2>3
    <3>2. PICK i \in 1..m : k = ValueEnd(p, i) \/ Body(p)[k] = Escape
      BY <1>2, <1>7, BodyPositions
    <3>3. k # ValueEnd(p, i)
      <4> SUFFICES ASSUME k = ValueEnd(p, i) PROVE FALSE
        OBVIOUS
      <4>1. PICK j \in at : C(j) = i
        BY <1>2
      <4>2. j - 1 = k /\ j \in Nat
        BY <1>1, <1>2, <1>3, <1>5, <4>1
      <4>3. j = k + 1
        BY <4>2
      <4> QED
        BY <2>3, <4>3
    <3> QED
      BY <3>1, <3>2, <3>3
  <2> QED
    BY <2>2, <2>3
<1>11. Framed(Body(p)) = f
  <2> DEFINE g == Framed(Body(p))
             b == Body(p)
  <2>1. /\ g \in Bytes /\ Len(g) = Len(b) + 2 /\ g[1] = Delimiter /\ g[Len(b) + 2] = Delimiter
        /\ \A k \in 1..Len(b) : g[k + 1] = b[k]
    BY <1>9, FramedPositions
  <2>2. Len(b) = L - 2 /\ \A k \in 1..(L - 2) : b[k] = f[k + 1]
    BY <1>9, <1>10
  <2> HIDE DEF g, b
  <2>3. Len(g) = L /\ g[L] = Delimiter
    BY <1>1, <2>1, <2>2
  <2>4. ASSUME NEW k \in 1..L PROVE g[k] = f[k]
    <3>1. CASE k = 1 \/ k = L
      BY <1>1, <2>1, <2>3, <3>1
    <3>2. CASE k # 1 /\ k # L
      <4>1. k - 1 \in 1..(L - 2) /\ (k - 1) + 1 = k
        BY <1>1, <3>2
      <4> QED
        BY <2>1, <2>2, <4>1
    <3> QED
      BY <3>1, <3>2
  <2>5. g = f
    BY <2>1, <2>3, <2>4, SeqEqual DEF Bytes, L
  <2> QED
    BY <2>5 DEF g
<1> QED
  BY <1>1, <1>8, <1>11 DEF Encode

-----------------------------------------------------------------------------
(* Streams of frames.                                                      *)

Before(w, k) == {i \in Delimiters(w) : i < k}

(* Every position with an even number of delimiters before it holds an     *)
(* opening delimiter, the frame it opens is not empty and its closing      *)
(* delimiter is within reach of a frame buffer.                            *)
WholeFrames(w) ==
  /\ Cardinality(Delimiters(w)) % 2 = 0
  /\ \A k \in 1..Len(w) : Cardinality(Before(w, k)) % 2 = 0 =>
       /\ w[k] = Delimiter /\ w[k + 1] # Delimiter
       /\ \E j \in (k + 1)..(k + MaxEncoded - 1) : j \in Delimiters(w)

IsFrame(f) ==
  /\ f \in Bytes /\ Len(f) \in 3..MaxEncoded
  /\ \A k \in 1..Len(f) : f[k] = Delimiter <=> k \in {1, Len(f)}

LEMMA DelimitersFinite ==
  ASSUME NEW w \in Bytes
  PROVE  /\ Len(w) \in Nat /\ DOMAIN w = 1..Len(w)
         /\ Delimiters(w) \in SUBSET (1..Len(w))
         /\ \A T \in SUBSET Delimiters(w) : IsFiniteSet(T) /\ Cardinality(T) \in Nat
<1>1. Len(w) \in Nat /\ DOMAIN w = 1..Len(w)
  BY LenProperties DEF Bytes
<1>2. Delimiters(w) \in SUBSET (1..Len(w))
  BY <1>1 DEF Delimiters
<1>3. IsFiniteSet(1..Len(w))
  BY <1>1, FS_Interval
<1>4. \A T \in SUBSET (1..Len(w)) : IsFiniteSet(T) /\ Cardinality(T) \in Nat
  BY <1>3, FS_Subset, FS_CardinalityType
<1> QED
  BY <1>1, <1>2, <1>4

(* The delimiters of a stream to which a frame is appended.                *)
LEMMA AppendedDelimiters ==
  ASSUME NEW w \in Bytes, NEW f, IsFrame(f)
  PROVE  LET n == Len(w)
         IN  /\ Delimiters(w \o f) = Delimiters(w) \cup {n + 1, n + Len(f)}
             /\ Cardinality(Delimiters(w \o f)) = Cardinality(Delimiters(w)) + 2
             /\ \A k \in 1..(n + 1) : Before(w \o f, k) = Before(w, k)
             /\ Before(w, n + 1) = Delimiters(w)
             /\ \A k \in (n + 2)..(n + Len(f)) :
                  Cardinality(Before(w \o f, k)) = Cardinality(Delimiters(w)) + 1
<1> DEFINE n == Len(w)
           g == w \o f
<1>1. /\ n \in Nat /\ f \in Bytes /\ Len(f) \in Nat /\ Len(f) >= 3
      /\ Delimiters(w) \in SUBSET (1..n)
  BY DelimitersFinite DEF IsFrame
<1>2. /\ g \in Bytes /\ Len(g) = n + Len(f)
      /\ \A i \in 1..(n + Len(f)) : g[i] = IF i <= n THEN w[i] ELSE f[i - n]
  BY ConcatProperties, <1>1 DEF Bytes
<1>3. DOMAIN g = 1..(n + Len(f)) /\ DOMAIN w = 1..n
  BY <1>1, <1>2, DelimitersFinite
<1>4. \A i \in 1..Len(f) : f[i] = Delimiter <=> i \in {1, Len(f)}
  BY DEF IsFrame
<1> HIDE DEF g
<1>5. Delimiters(g) = Delimiters(w) \cup {n + 1, n + Len(f)}
  <2>1. \A i \in 1..n : i \in Delimiters(g) <=> i \in Delimiters(w)
    BY <1>1, <1>2, <1>3 DEF Delimiters
  <2>2. \A i \in (n + 1)..(n + Len(f)) : i \in Delimiters(g) <=> i \in {n + 1, n + Len(f)}
    <3> SUFFICES ASSUME NEW i \in (n + 1)..(n + Len(f))
                 PROVE  i \in Delimiters(g) <=> i \in {n + 1, n + Len(f)}
      OBVIOUS
    <3>1. i - n \in 1..Len(f) /\ g[i] = f[i - n]
      BY <1>1, <1>2
    <3>2. i \in Delimiters(g) <=> i - n \in {1, Len(f)}
      BY <1>1, <1>3, <1>4, <3>1 DEF Delimiters
    <3> QED
      BY <1>1, <3>2
  <2>3. Delimiters(g) \subseteq 1..(n + Len(f))
    BY <1>3 DEF Delimiters
  <2> QED
    BY <1>1, <2>1, <2>2, <2>3
<1>6. IsFiniteSet(Delimiters(w)) /\ Cardinality(Delimiters(w)) \in Nat
  BY DelimitersFinite
<1>7. /\ IsFiniteSet(Delimiters(w) \cup {n + 1})
      /\ Cardinality(Delimiters(w) \cup {n + 1}) = Cardinality(Delimiters(w)) + 1
  <2>1. n + 1 \notin Delimiters(w)
    BY <1>1
  <2> HIDE DEF n
  <2> QED
    BY <1>6, <2>1, FS_AddElement
<1>8. Cardinality(Delimiters(g)) = Cardinality(Delimiters(w)) + 2
  <2>1. Delimiters(g) = (Delimiters(w) \cup {n + 1}) \cup {n + Len(f)}
    BY <1>5
  <2>2. n + Len(f) \notin Delimiters(w) \cup {n + 1}
    BY <1>1
  <2> DEFINE S == Delimiters(w) \cup {n + 1}
             x == n + Len(f)
  <2>3. IsFiniteSet(S) /\ Cardinality(S) = Cardinality(Delimiters(w)) + 1 /\ x \notin S
    BY <1>7, <2>2
  <2>4. Delimiters(g) = S \cup {x}
    BY <2>1
  <2> HIDE DEF S, x
  <2>5. Cardinality(S \cup {x}) = Cardinality(S) + 1
    BY <2>3, FS_AddElement
  <2> QED
    BY <1>6, <2>3, <2>4, <2>5
<1>9. \A k \in 1..(n + 1) : Before(g, k) = Before(w, k)
  BY <1>1, <1>5 DEF Before
<1>10. Before(w, n + 1) = Delimiters(w)
  BY <1>1 DEF Before
<1>11. \A k \in (n + 2)..(n + Len(f)) : Before(g, k) = Delimiters(w) \cup {n + 1}
  BY <1>1, <1>5 DEF Before
<1>12. \A k \in (n + 2)..(n + Len(f)) : Cardinality(Before(g, k)) = Cardinality(Delimiters(w)) + 1
  BY <1>7, <1>11
<1> QED
  BY <1>5, <1>8, <1>9, <1>10, <1>12 DEF g

LEMMA WholeFramesAppend ==
  ASSUME NEW w \in Bytes, WholeFrames(w), NEW f, IsFrame(f)
  PROVE  WholeFrames(w \o f)
<1> DEFINE n == Len(w)
           g == w \o f
<1>1. /\ n \in Nat /\ f \in Bytes /\ Len(f) \in 3..MaxEncoded /\ MaxEncoded \in Nat
      /\ Cardinality(Delimiters(w)) \in Nat
  BY DelimitersFinite, FrameAssumption DEF IsFrame, MaxEncoded
<1>2. /\ Len(g) = n + Len(f)
      /\ \A i \in 1..(n + Len(f)) : g[i] = IF i <= n THEN w[i] ELSE f[i - n]
  BY ConcatProperties, <1>1 DEF Bytes
<1>3. /\ Delimiters(g) = Delimiters(w) \cup {n + 1, n + Len(f)}
      /\ Cardinality(Delimiters(g)) = Cardinality(Delimiters(w)) + 2
      /\ \A k \in 1..(n + 1) : Before(g, k) = Before(w, k)
      /\ Before(w, n + 1) = Delimiters(w)
      /\ \A k \in (n + 2)..(n + Len(f)) :
           Cardinality(Before(g, k)) = Cardinality(Delimiters(w)) + 1
  BY AppendedDelimiters
<1> HIDE DEF g
<1>4. Cardinality(Delimiters(g)) % 2 = 0
  BY <1>1, <1>3 DEF WholeFrames
<1>5. ASSUME NEW k \in 1..n, Cardinality(Before(g, k)) % 2 = 0
      PROVE  /\ g[k] = Delimiter /\ g[k + 1] # Delimiter
             /\ \E j \in (k + 1)..(k + MaxEncoded - 1) : j \in Delimiters(g)
  <2>1. Cardinality(Before(w, k)) % 2 = 0
    BY <1>1, <1>3, <1>5
  <2>2. PICK j \in (k + 1)..(k + MaxEncoded - 1) :
          w[k] = Delimiter /\ w[k + 1] # Delimiter /\ j \in Delimiters(w)
    BY <2>1 DEF WholeFrames
  <2>3. k + 1 \in 1..n
    BY <1>1, <2>2, DelimitersFinite
  <2> QED
    BY <1>1, <1>2, <1>3, <2>2, <2>3
<1>6. /\ g[n + 1] = Delimiter /\ g[n + 2] # Delimiter
      /\ \E j \in (n + 2)..(n + 1 + MaxEncoded - 1) : j \in Delimiters(g)
  <2>1. g[n + 1] = f[1] /\ f[1] = Delimiter
    BY <1>1, <1>2 DEF IsFrame
  <2>2. g[n + 2] = f[2] /\ f[2] # Delimiter
    BY <1>1, <1>2 DEF IsFrame
  <2>3. n + Len(f) \in (n + 2)..(n + 1 + MaxEncoded - 1)
    BY <1>1
  <2> QED
    BY <1>3, <2>1, <2>2, <2>3
<1>7. \A k \in (n + 2)..(n + Len(f)) : Cardinality(Before(g, k)) % 2 # 0
  BY <1>1, <1>3 DEF WholeFrames
<1>8. \A k \in 1..Len(g) : k \in 1..n \/ k = n + 1 \/ k \in (n + 2)..(n + Len(f))
  BY <1>1, <1>2
<1>9. \A k \in 1..Len(g) : Cardinality(Before(g, k)) % 2 = 0 =>
        /\ g[k] = Delimiter /\ g[k + 1] # Delimiter
        /\ \E j \in (k + 1)..(k + MaxEncoded - 1) : j \in Delimiters(g)
  <2>1. n + 1 + 1 = n + 2
    BY <1>1
  <2> QED
    BY <1>5, <1>6, <1>7, <1>8, <2>1
<1> QED
  BY <1>4, <1>9 DEF WholeFrames, g

(* A stream of frames that was cut at a boundary: the next frame is cut    *)
(* off whole and nothing is lost.                                          *)
LEMMA CutAtBoundary ==
  ASSUME NEW a \in Bytes, NEW q \in Bytes, WholeFrames(a \o q),
         Cardinality(Delimiters(a)) % 2 = 0, q # <<>>
  PROVE  LET cut == ReadFrame(q, MaxEncoded)
         IN  /\ cut.status = "OK"
             /\ cut.frame \in Bytes /\ Len(cut.frame) <= MaxEncoded
             /\ cut.rest \in Bytes
             /\ cut.frame \o cut.rest = q
<1> DEFINE n == Len(a)
           w == a \o q
<1>1. /\ n \in Nat /\ Len(q) \in Nat /\ Len(q) >= 1 /\ MaxEncoded \in Nat
      /\ DOMAIN a = 1..n /\ DOMAIN q = 1..Len(q)
  BY DelimitersFinite, EmptyBytes, FrameAssumption DEF MaxEncoded
<1>2. /\ w \in Bytes /\ Len(w) = n + Len(q)
      /\ \A i \in 1..(n + Len(q)) : w[i] = IF i <= n THEN a[i] ELSE q[i - n]
  BY ConcatProperties DEF Bytes
<1> HIDE DEF w
<1>3. DOMAIN w = 1..(n + Len(q))
  BY <1>2, DelimitersFinite
<1>4. Before(w, n + 1) = Delimiters(a)
  BY <1>1, <1>2, <1>3 DEF Before, Delimiters
<1>5. PICK j \in (n + 2)..(n + 1 + MaxEncoded - 1) :
        w[n + 1] = Delimiter /\ j \in Delimiters(w)
  <2>1. n + 1 \in 1..Len(w) /\ Cardinality(Before(w, n + 1)) % 2 = 0
    BY <1>1, <1>2, <1>4
  <2>2. WholeFrames(w)
    BY DEF w
  <2> QED
    BY <1>1, <2>1, <2>2 DEF WholeFrames
<1>6. 1 \in Delimiters(q)
  <2>1. w[n + 1] = q[1]
    BY <1>1, <1>2
  <2> QED
    BY <1>1, <1>5, <2>1 DEF Delimiters
<1>7. j - n \in Delimiters(q) /\ j - n \in 2..MaxEncoded
  <2>1. j \in 1..(n + Len(q)) /\ w[j] = Delimiter
    BY <1>3, <1>5 DEF Delimiters
  <2>2. j - n \in 1..Len(q) /\ w[j] = q[j - n]
    BY <1>1, <1>2, <1>5, <2>1
  <2> QED
    BY <1>1, <1>5, <2>1, <2>2 DEF Delimiters
<1> DEFINE start == FirstOf(Delimiters(q))
           later == {i \in Delimiters(q) : i > start}
           last == FirstOf(later)
<1>8. Delimiters(q) \in SUBSET (1..Len(q))
  BY <1>1 DEF Delimiters
<1>9. start = 1
  <2>1. Delimiters(q) \in SUBSET Nat /\ Delimiters(q) # {}
    BY <1>1, <1>6, <1>8
  <2>2. start \in Delimiters(q) /\ start <= 1
    BY <1>6, <2>1, FirstOfProperties
  <2> HIDE DEF start
  <2> QED
    BY <1>1, <1>8, <2>2
<1> HIDE DEF start
<1>10. j - n \in later /\ later \in SUBSET Nat
  BY <1>1, <1>7, <1>8, <1>9
<1>11. last \in later /\ last <= j - n
  <2> HIDE DEF later
  <2> QED
    BY <1>10, FirstOfProperties
<1> HIDE DEF last
<1>12. last \in 2..Len(q) /\ last <= MaxEncoded
  BY <1>1, <1>5, <1>7, <1>8, <1>9, <1>11
<1>13. ReadFrame(q, MaxEncoded) = [status |-> "OK", frame |-> SubSeq(q, 1, last),
                                   rest |-> SubSeq(q, last + 1, Len(q))]
  <2>1. later # {} /\ Delimiters(q) # {} /\ last < start + MaxEncoded
    BY <1>1, <1>6, <1>9, <1>10, <1>12
  <2> QED
    BY <1>9, <2>1 DEF ReadFrame, start, later, last
<1>14. \A i \in 1..Len(q) : q[i] \in AnyByte
  BY ElementOfSeq DEF Bytes
<1>15. SubSeq(q, 1, last) \in Bytes /\ Len(SubSeq(q, 1, last)) = last
  <2>1. \A i \in 1..last : q[i] \in AnyByte
    BY <1>1, <1>12, <1>14
  <2>2. /\ SubSeq(q, 1, last) \in Seq(AnyByte)
        /\ Len(SubSeq(q, 1, last)) = IF 1 <= last THEN last - 1 + 1 ELSE 0
    BY <1>12, <2>1, SubSeqProperties
  <2> QED
    BY <1>12, <2>2 DEF Bytes
<1>16. SubSeq(q, last + 1, Len(q)) \in Bytes
  <2>1. \A i \in (last + 1)..Len(q) : q[i] \in AnyByte
    BY <1>1, <1>12, <1>14
  <2> QED
    BY <1>1, <1>12, <2>1, SubSeqProperties DEF Bytes
<1>17. SubSeq(q, 1, last) \o SubSeq(q, last + 1, Len(q)) = q
  <2>1. 1 \in 1..(Len(q) + 1) /\ last \in (1 - 1)..Len(q) /\ Len(q) \in last..Len(q)
    BY <1>1, <1>12
  <2> QED
    BY <2>1, ConcatAdjacentSubSeq, SubSeqFull DEF Bytes
<1> DEFINE cut == ReadFrame(q, MaxEncoded)
           f == SubSeq(q, 1, last)
           t == SubSeq(q, last + 1, Len(q))
<1>18. cut.status = "OK" /\ cut.frame = f /\ cut.rest = t
  <2>1. cut = [status |-> "OK", frame |-> f, rest |-> t]
    BY <1>13
  <2> HIDE DEF cut, f, t
  <2> QED
    BY <2>1
<1> HIDE DEF cut
<1> QED
  BY <1>12, <1>15, <1>16, <1>17, <1>18 DEF cut

-----------------------------------------------------------------------------
(* Delimiters of a stream that is put together from parts.                 *)

LEMMA UpToBounds ==
  ASSUME NEW n \in Nat, NEW S \in SUBSET (1..n)
  PROVE  UpTo(S, n) = S /\ UpTo(S, 0) = {} /\ S \in SUBSET Nat /\ S \in SUBSET (Nat \ {0})
<1>1. \A j \in S : j \in Nat \ {0} /\ j \in Nat /\ j <= n /\ ~(j <= 0)
  OBVIOUS
<1>2. UpTo(S, n) = S
  BY <1>1 DEF UpTo
<1>3. UpTo(S, 0) = {}
  BY <1>1 DEF UpTo
<1> QED
  BY <1>1, <1>2, <1>3

LEMMA ConcatDelimiters ==
  ASSUME NEW a \in Bytes, NEW b \in Bytes
  PROVE  LET n == Len(a)
             D == Delimiters(a \o b)
         IN  /\ D \in SUBSET (1..(n + Len(b)))
             /\ \A k \in 1..n : k \in D <=> k \in Delimiters(a)
             /\ \A k \in 1..Len(b) : n + k \in D <=> k \in Delimiters(b)
             /\ \A k \in Nat : k <= n => UpTo(D, k) = UpTo(Delimiters(a), k)
             /\ \A k \in Nat : k <= Len(b) =>
                  Cardinality(UpTo(D, n + k))
                    = Cardinality(Delimiters(a)) + Cardinality(UpTo(Delimiters(b), k))
             /\ Cardinality(D) = Cardinality(Delimiters(a)) + Cardinality(Delimiters(b))
<1> DEFINE n == Len(a)
           m == Len(b)
           g == a \o b
           D == Delimiters(g)
           A == Delimiters(a)
           B == Delimiters(b)
<1>1. /\ n \in Nat /\ m \in Nat /\ DOMAIN a = 1..n /\ DOMAIN b = 1..m
      /\ g \in Bytes /\ Len(g) = n + m
      /\ \A i \in 1..(n + m) : g[i] = IF i <= n THEN a[i] ELSE b[i - n]
  BY DelimitersFinite, ConcatProperties DEF Bytes
<1>2. DOMAIN g = 1..(n + m)
  BY <1>1, DelimitersFinite
<1>3. /\ A \in SUBSET (1..n) /\ B \in SUBSET (1..m) /\ D \in SUBSET (1..(n + m))
  BY <1>1, <1>2 DEF Delimiters
<1>4. \A k \in 1..n : k \in D <=> k \in A
  BY <1>1, <1>2 DEF Delimiters
<1>5. ASSUME NEW k \in 1..m PROVE n + k \in D <=> k \in B
  <2>1. n + k \in 1..(n + m) /\ ~(n + k <= n) /\ (n + k) - n = k
    BY <1>1
  <2> QED
    BY <1>1, <1>2, <2>1 DEF Delimiters
<1> HIDE DEF n, m, g, D, A, B
<1>6. ASSUME NEW k \in Nat, k <= n PROVE UpTo(D, k) = UpTo(A, k)
  <2>1. \A j \in 1..(n + m) : j <= k => j \in 1..n
    BY <1>1, <1>6
  <2>2. \A j \in D : j <= k => j \in A
    BY <1>3, <1>4, <2>1
  <2>3. \A j \in A : j \in D
    BY <1>3, <1>4
  <2> QED
    BY <2>2, <2>3 DEF UpTo
<1> DEFINE C(k) == Cardinality(UpTo(D, n + k))
           E(k) == Cardinality(UpTo(B, k))
           c == Cardinality(A)
<1>7. /\ UpTo(A, n) = A /\ UpTo(B, m) = B /\ UpTo(D, n + m) = D /\ UpTo(B, 0) = {}
      /\ A \in SUBSET Nat /\ B \in SUBSET Nat /\ D \in SUBSET Nat
  <2>1. n + m \in Nat
    BY <1>1
  <2> QED
    BY <1>1, <1>3, <2>1, UpToBounds
<1>8. /\ C(0) = c /\ E(0) = 0 /\ c \in Nat
  <2>1. n + 0 = n
    BY <1>1
  <2>2. c \in Nat
    BY <1>1, <1>7, CountUpTo
  <2>3. UpTo(D, n + 0) = A
    BY <1>1, <1>6, <1>7, <2>1
  <2> QED
    BY <1>7, <2>2, <2>3, FS_EmptySet
<1>9. ASSUME NEW k \in Nat
      PROVE  /\ C(k) \in Nat /\ E(k) \in Nat
             /\ C(k + 1) = IF n + (k + 1) \in D THEN C(k) + 1 ELSE C(k)
             /\ E(k + 1) = IF k + 1 \in B THEN E(k) + 1 ELSE E(k)
  <2>1. n + k \in Nat /\ n + (k + 1) = (n + k) + 1
    BY <1>1
  <2> QED
    BY <1>7, <2>1, CountUpTo
<1> HIDE DEF C, E, c
<1>10. \A k \in Nat : k <= m => C(k) = c + E(k)
  <2> DEFINE T == {k \in Nat : k <= m /\ C(k) # c + E(k)}
  <2> SUFFICES ASSUME T # {} PROVE FALSE
    OBVIOUS
  <2>1. PICK k \in T : \A y \in T : k <= y
    <3>1. T \in SUBSET Nat
      OBVIOUS
    <3> HIDE DEF T
    <3> QED
      BY <3>1, LeastElement
  <2>2. k \in Nat /\ k <= m /\ C(k) # c + E(k) /\ k # 0
    BY <1>8, <2>1
  <2>3. k - 1 \in Nat /\ (k - 1) + 1 = k /\ ~(k <= k - 1) /\ k - 1 <= m /\ k \in 1..m
    BY <1>1, <2>2
  <2>4. C(k - 1) = c + E(k - 1)
    BY <2>1, <2>3
  <2>5. n + k \in D <=> k \in B
    BY <1>5, <2>3
  <2>6. /\ C(k - 1) \in Nat /\ E(k - 1) \in Nat
        /\ C(k) = IF n + k \in D THEN C(k - 1) + 1 ELSE C(k - 1)
        /\ E(k) = IF k \in B THEN E(k - 1) + 1 ELSE E(k - 1)
    BY <1>9, <2>3
  <2> QED
    BY <1>8, <2>2, <2>4, <2>5, <2>6
<1>11. Cardinality(D) = c + Cardinality(B)
  <2>1. m \in Nat /\ m <= m
    BY <1>1
  <2>2. C(m) = c + E(m)
    BY <1>10, <2>1
  <2> QED
    BY <1>7, <2>2 DEF C, E
<1> QED
  BY <1>3, <1>4, <1>5, <1>6, <1>10, <1>11 DEF n, m, g, D, A, B, C, E, c

(* Of the positions in a set, every other one has an even rank.            *)
LEMMA EveryOther ==
  ASSUME NEW S \in SUBSET (Nat \ {0}), NEW n \in Nat, \A s \in S : s <= n
  PROVE  Cardinality({j \in S : Cardinality(UpTo(S, j)) % 2 = 0}) = Cardinality(S) \div 2
<1> DEFINE T == {j \in S : Cardinality(UpTo(S, j)) % 2 = 0}
           C(k) == Cardinality(UpTo(S, k))
           E(k) == Cardinality(UpTo(T, k))
<1>1. S \in SUBSET Nat /\ T \in SUBSET Nat /\ UpTo(S, n) = S /\ UpTo(T, n) = T
      /\ UpTo(S, 0) = {} /\ UpTo(T, 0) = {}
  <2>1. S \in SUBSET (1..n) /\ T \in SUBSET S
    OBVIOUS
  <2> HIDE DEF T
  <2> QED
    BY <2>1, UpToBounds
<1>2. \A k : k \in T <=> k \in S /\ C(k) % 2 = 0
  OBVIOUS
<1> HIDE DEF T
<1>3. C(0) = 0 /\ E(0) = 0
  BY <1>1, FS_EmptySet
<1>4. \A k \in Nat : /\ C(k) \in Nat /\ E(k) \in Nat
                     /\ C(k + 1) = IF k + 1 \in S THEN C(k) + 1 ELSE C(k)
                     /\ E(k + 1) = IF k + 1 \in T THEN E(k) + 1 ELSE E(k)
  BY <1>1, CountUpTo
<1> HIDE DEF C, E
<1>5. \A k \in Nat : E(k) = C(k) \div 2
  <2> DEFINE U == {k \in Nat : E(k) # C(k) \div 2}
  <2> SUFFICES ASSUME U # {} PROVE FALSE
    OBVIOUS
  <2>1. PICK k \in U : \A y \in U : k <= y
    <3>1. U \in SUBSET Nat
      OBVIOUS
    <3> HIDE DEF U
    <3> QED
      BY <3>1, LeastElement
  <2>2. k \in Nat /\ E(k) # C(k) \div 2 /\ k # 0
    BY <1>3, <2>1
  <2>3. k - 1 \in Nat /\ (k - 1) + 1 = k /\ ~(k <= k - 1)
    BY <2>2
  <2>4. E(k - 1) = C(k - 1) \div 2
    BY <2>1, <2>3
  <2> DEFINE x == C(k - 1)
             y == E(k - 1)
  <2>5. /\ x \in Nat /\ y \in Nat
        /\ C(k) = IF k \in S THEN x + 1 ELSE x
        /\ E(k) = IF k \in T THEN y + 1 ELSE y
    BY <1>4, <2>3
  <2> HIDE DEF x, y
  <2>6. y = x \div 2
    BY <2>4 DEF x, y
  <2>7. CASE k \notin S
    BY <1>2, <2>2, <2>5, <2>6, <2>7
  <2>8. CASE k \in S /\ (x + 1) % 2 = 0
    <3>1. C(k) = x + 1 /\ E(k) = y + 1
      BY <1>2, <2>5, <2>8
    <3>2. (x + 1) \div 2 = (x \div 2) + 1
      BY <2>5, <2>8
    <3> QED
      BY <2>2, <2>6, <3>1, <3>2
  <2>9. CASE k \in S /\ (x + 1) % 2 # 0
    <3>1. C(k) = x + 1 /\ E(k) = y
      BY <1>2, <2>5, <2>9
    <3>2. (x + 1) \div 2 = x \div 2
      BY <2>5, <2>9
    <3> QED
      BY <2>2, <2>6, <3>1, <3>2
  <2> QED
    BY <2>7, <2>8, <2>9
<1> QED
  BY <1>1, <1>5 DEF T, C, E

(* On a stretch of whole frames the two ways of recognising a message      *)
(* agree: a delimiter closes a non-empty frame exactly when it is the      *)
(* second of a pair.                                                       *)
LEMMA CountersMatch ==
  ASSUME NEW a \in Bytes, NEW q \in Bytes, NEW z \in Bytes, WholeFrames((a \o q) \o z),
         Cardinality(Delimiters(a)) % 2 = 0
  PROVE  FrameCount(q) = Cardinality(Delimiters(q)) \div 2
<1> DEFINE n == Len(a)
           m == Len(q)
           v == a \o q
           w == v \o z
           D == Delimiters(q)
           R(k) == Cardinality(UpTo(D, k))
           c == Cardinality(Delimiters(a))
<1>1. /\ n \in Nat /\ m \in Nat /\ DOMAIN q = 1..m /\ D \in SUBSET (1..m)
      /\ c \in Nat /\ c % 2 = 0
  BY DelimitersFinite
<1>2. /\ D \in SUBSET Nat /\ D \in SUBSET (Nat \ {0})
      /\ \A k \in Nat : /\ R(k) \in Nat
                        /\ R(k + 1) = IF k + 1 \in D THEN R(k) + 1 ELSE R(k)
      /\ R(0) = 0
  <2>1. D \in SUBSET Nat /\ D \in SUBSET (Nat \ {0}) /\ UpTo(D, 0) = {}
    BY <1>1, UpToBounds
  <2> HIDE DEF D
  <2> QED
    BY <2>1, CountUpTo, FS_EmptySet
<1>3. ASSUME NEW k \in 1..m
      PROVE  w[n + k] = q[k] /\ Cardinality(Before(w, n + k)) = c + R(k - 1)
             /\ n + k \in 1..Len(w) /\ (n + k) + 1 = n + (k + 1)
  <2>1. /\ v \in Bytes /\ Len(v) = n + m
        /\ \A i \in 1..(n + m) : v[i] = IF i <= n THEN a[i] ELSE q[i - n]
    BY ConcatProperties DEF Bytes
  <2>2. /\ w \in Bytes /\ Len(w) = Len(v) + Len(z) /\ Len(z) \in Nat
        /\ \A i \in 1..(Len(v) + Len(z)) : w[i] = IF i <= Len(v) THEN v[i] ELSE z[i - Len(v)]
    <3> HIDE DEF v
    <3> QED
      BY <2>1, ConcatProperties, EmptyBytes DEF Bytes
  <2>3. \A i \in Nat : i <= Len(v) => UpTo(Delimiters(w), i) = UpTo(Delimiters(v), i)
    <3> HIDE DEF v
    <3> QED
      BY <2>1, ConcatDelimiters
  <2>4. \A i \in Nat : i <= m => Cardinality(UpTo(Delimiters(v), n + i)) = c + R(i)
    BY ConcatDelimiters
  <2>5. Delimiters(w) \in SUBSET Nat
    <3>1. Len(w) \in Nat /\ Delimiters(w) \in SUBSET (1..Len(w))
      <4> HIDE DEF w
      <4> QED
        BY <2>2, DelimitersFinite
    <3> HIDE DEF w
    <3> QED
      BY <3>1, UpToBounds
  <2> HIDE DEF v, w, R, D, c, n, m
  <2>6. /\ n + k \in 1..(n + m) /\ ~(n + k <= n) /\ (n + k) - n = k /\ n + k \in Nat
        /\ n + k <= Len(v) /\ n + k \in 1..(Len(v) + Len(z))
        /\ k - 1 \in Nat /\ k - 1 <= m /\ n + (k - 1) \in Nat /\ n + (k - 1) <= Len(v)
        /\ (n + k) + 1 = n + (k + 1)
    BY <1>1, <2>1, <2>2
  <2>7. w[n + k] = q[k]
    BY <2>1, <2>2, <2>6
  <2>8. Before(w, n + k) = UpTo(Delimiters(w), n + (k - 1))
    <3>1. \A j \in Nat : j < n + k <=> j <= n + (k - 1)
      BY <1>1, <2>6
    <3> QED
      BY <2>5, <3>1 DEF Before, UpTo
  <2>9. Cardinality(Before(w, n + k)) = c + R(k - 1)
    BY <2>3, <2>4, <2>6, <2>8
  <2> QED
    BY <2>2, <2>6, <2>7, <2>9
<1>4. WholeFrames(w)
  OBVIOUS
<1>x. \A k \in 1..m : k \in D <=> q[k] = Delimiter
  BY <1>1 DEF Delimiters
<1> HIDE DEF w, D, R, c, n, m
<1>5. ASSUME NEW k \in 1..m, R(k - 1) % 2 = 0
      PROVE  k \in D /\ (k + 1 \in 1..m => k + 1 \notin D)
  <2>1. k - 1 \in Nat /\ R(k - 1) \in Nat
    <3>1. k - 1 \in Nat
      BY <1>1
    <3> QED
      BY <1>2, <3>1
  <2>2. (c + R(k - 1)) % 2 = 0
    <3> DEFINE r == R(k - 1)
    <3>1. r \in Nat /\ r % 2 = 0
      BY <1>5, <2>1
    <3> HIDE DEF r
    <3>2. (c + r) % 2 = 0
      BY <1>1, <3>1
    <3> QED
      BY <3>2 DEF r
  <2>3. w[n + k] = Delimiter /\ w[n + (k + 1)] # Delimiter
    BY <1>3, <1>4, <2>2 DEF WholeFrames
  <2>4. q[k] = Delimiter
    BY <1>3, <2>3
  <2>5. k + 1 \in 1..m => q[k + 1] # Delimiter
    BY <1>3, <2>3
  <2> QED
    BY <1>x, <2>4, <2>5
<1>6. ASSUME NEW j \in D
      PROVE  R(j) % 2 = 0 <=> (\E i \in D : i < j) /\ q[j - 1] # Delimiter
  <2>1. j \in 1..m /\ j - 1 \in Nat /\ (j - 1) + 1 = j
    BY <1>1
  <2>2. R(j) = R(j - 1) + 1 /\ R(j - 1) \in Nat
    BY <1>2, <2>1
  <2>3. CASE j = 1
    <3>1. ~\E i \in D : i < j
      BY <1>2, <2>3
    <3>2. j - 1 = 0
      BY <2>3
    <3>3. R(j) = 1
      BY <1>2, <2>2, <3>2
    <3> QED
      BY <3>1, <3>3
  <2>4. CASE j # 1
    <3>1. j - 1 \in 1..m /\ (j - 1) - 1 \in Nat /\ ((j - 1) - 1) + 1 = j - 1
      BY <1>1, <2>1, <2>4
    <3> DEFINE r == R((j - 1) - 1)
               s == R(j - 1)
    <3>2. r \in Nat /\ s \in Nat /\ R(j) = s + 1
          /\ (j - 1 \in D => s = r + 1) /\ (j - 1 \notin D => s = r)
      BY <1>2, <2>2, <3>1
    <3>3. r % 2 = 0 => j - 1 \in D /\ j \notin D
      BY <1>5, <2>1, <3>1
    <3>4. s % 2 = 0 \/ s % 2 = 1
      BY <3>2
    <3> HIDE DEF r, s
    <3>5. j - 1 \in D => s % 2 = 0
      BY <3>2, <3>3
    <3>6. j - 1 \notin D => s % 2 = 1
      BY <3>2, <3>3
    <3>7. R(j) % 2 = 0 <=> s % 2 = 1
      BY <3>2
    <3>8. s % 2 = 1 => \E i \in D : i < j
      <4> SUFFICES ASSUME s % 2 = 1, ~\E i \in D : i < j PROVE FALSE
        OBVIOUS
      <4>1. UpTo(D, j - 1) = {}
        <5>1. \A i \in D : ~(i <= j - 1)
          <6>1. \A i \in Nat : i <= j - 1 => i < j
            BY <2>1
          <6>2. \A i \in D : i \in Nat /\ ~(i < j)
            BY <1>2
          <6> QED
            BY <6>1, <6>2
        <5> QED
          BY <5>1 DEF UpTo
      <4>2. s = 0
        BY <4>1, FS_EmptySet DEF s, R
      <4> QED
        BY <4>2
    <3> QED
      BY <1>x, <3>1, <3>5, <3>6, <3>7, <3>8
  <2> QED
    BY <2>3, <2>4
<1>7. {j \in D : (\E i \in D : i < j) /\ q[j - 1] # Delimiter}
        = {j \in D : Cardinality(UpTo(D, j)) % 2 = 0}
  BY <1>6 DEF R
<1>8. \A s \in D : s <= m
  BY <1>1
<1>9. Cardinality({j \in D : Cardinality(UpTo(D, j)) % 2 = 0}) = Cardinality(D) \div 2
  BY <1>1, <1>2, <1>8, EveryOther
<1> QED
  BY <1>7, <1>9 DEF FrameCount, D

-----------------------------------------------------------------------------
(* Finding the i-th delimiter.                                             *)

LEMMA RankIncreases ==
  ASSUME NEW S \in SUBSET Nat, NEW k \in Nat, NEW l \in S, k < l
  PROVE  Cardinality(UpTo(S, k)) < Cardinality(UpTo(S, l))
<1> DEFINE A == UpTo(S, k)
           B == UpTo(S, l)
<1>1. l \in Nat
  OBVIOUS
<1>2. IsFiniteSet(A) /\ IsFiniteSet(B) /\ Cardinality(A) \in Nat /\ Cardinality(B) \in Nat
  BY <1>1, CountUpTo
<1>3. \A j \in S : j <= k => j <= l
  BY <1>1
<1>4. l \notin A /\ A \cup {l} \in SUBSET B
  <2>1. ~(l <= k) /\ l <= l
    BY <1>1
  <2> QED
    BY <1>3, <2>1 DEF UpTo
<1> HIDE DEF A, B
<1>5. Cardinality(A \cup {l}) = Cardinality(A) + 1
  BY <1>2, <1>4, FS_AddElement
<1>6. Cardinality(A \cup {l}) <= Cardinality(B)
  BY <1>2, <1>4, FS_Subset
<1>7. Cardinality(A) < Cardinality(B)
  BY <1>2, <1>5, <1>6
<1> QED
  BY <1>7 DEF A, B

(* Position k holds the i-th element exactly when i elements are at most k.*)
LEMMA NthRank ==
  ASSUME NEW S \in SUBSET Nat, NEW k \in S
  PROVE  Nth(S, Cardinality(UpTo(S, k))) = k
<1>1. \A l \in S : Cardinality(UpTo(S, l)) = Cardinality(UpTo(S, k)) => l = k
  <2> SUFFICES ASSUME NEW l \in S, Cardinality(UpTo(S, l)) = Cardinality(UpTo(S, k)), l # k
               PROVE  FALSE
    OBVIOUS
  <2>1. /\ k \in Nat /\ l \in Nat
        /\ Cardinality(UpTo(S, k)) \in Nat /\ Cardinality(UpTo(S, l)) \in Nat
    BY CountUpTo
  <2>2. k < l \/ l < k
    BY <2>1
  <2>3. CASE k < l
    BY <2>1, <2>3, RankIncreases
  <2>4. CASE l < k
    BY <2>1, <2>4, RankIncreases
  <2> QED
    BY <2>2, <2>3, <2>4
<1> QED
  BY <1>1 DEF Nth, UpTo

LEMMA NthProperties ==
  ASSUME NEW n \in Nat, NEW S \in SUBSET (1..n), NEW i \in 1..Cardinality(S)
  PROVE  /\ Nth(S, i) \in S /\ Cardinality(UpTo(S, Nth(S, i))) = i
         /\ \A j \in 1..Cardinality(S) : i < j => Nth(S, i) < Nth(S, j)
<1>1. S \in SUBSET Nat /\ S \in SUBSET (Nat \ {0}) /\ \A s \in S : s <= n
  <2>1. \A s \in S : s \in Nat \ {0} /\ s \in Nat /\ s <= n
    OBVIOUS
  <2> QED
    BY <2>1
<1>2. ASSUME NEW j \in 1..Cardinality(S)
      PROVE  Nth(S, j) \in S /\ Cardinality(UpTo(S, Nth(S, j))) = j
  <2>1. PICK k \in S : Cardinality(UpTo(S, k)) = j
    BY <1>1, NthExists
  <2>2. Nth(S, j) = k
    BY <1>1, <2>1, NthRank
  <2> QED
    BY <2>1, <2>2
<1>3. ASSUME NEW j \in 1..Cardinality(S), i < j PROVE Nth(S, i) < Nth(S, j)
  <2> DEFINE k == Nth(S, i)
             l == Nth(S, j)
  <2>1. /\ k \in S /\ Cardinality(UpTo(S, k)) = i
        /\ l \in S /\ Cardinality(UpTo(S, l)) = j
    BY <1>2
  <2> HIDE DEF k, l
  <2>2. k \in Nat /\ l \in Nat
    BY <1>1, <2>1
  <2>3. CASE l < k
    <3>1. j < i
      BY <1>1, <2>1, <2>2, <2>3, RankIncreases
    <3>2. Cardinality(S) \in Nat
      <4>1. UpTo(S, n) = S
        BY UpToBounds
      <4> QED
        BY <1>1, <4>1, CountUpTo
    <3> QED
      BY <1>3, <3>1, <3>2
  <2>4. CASE l = k
    <3>1. i = j
      BY <2>1, <2>4
    <3>2. Cardinality(S) \in Nat
      <4>1. UpTo(S, n) = S
        BY UpToBounds
      <4> QED
        BY <1>1, <4>1, CountUpTo
    <3> QED
      BY <1>3, <3>1, <3>2
  <2>5. k < l => Nth(S, i) < Nth(S, j)
    BY DEF k, l
  <2> QED
    BY <2>2, <2>3, <2>4, <2>5
<1> QED
  BY <1>2, <1>3

(* The i-th delimiter of a stream put together from two parts.             *)
LEMMA ConcatNth ==
  ASSUME NEW a \in Bytes, NEW b \in Bytes
  PROVE  LET n == Len(a)
             c == Cardinality(Delimiters(a))
         IN  /\ \A i \in 1..c : Nth(Delimiters(a \o b), i) = Nth(Delimiters(a), i)
             /\ \A i \in 1..Cardinality(Delimiters(b)) :
                  Nth(Delimiters(a \o b), c + i) = n + Nth(Delimiters(b), i)
<1> DEFINE n == Len(a)
           m == Len(b)
           D == Delimiters(a \o b)
           A == Delimiters(a)
           B == Delimiters(b)
           c == Cardinality(A)
<1>1. /\ n \in Nat /\ m \in Nat /\ A \in SUBSET (1..n) /\ B \in SUBSET (1..m) /\ c \in Nat
      /\ Cardinality(B) \in Nat
  BY DelimitersFinite
<1>2. /\ D \in SUBSET (1..(n + m))
      /\ \A k \in 1..n : k \in D <=> k \in A
      /\ \A k \in 1..m : n + k \in D <=> k \in B
      /\ \A k \in Nat : k <= n => UpTo(D, k) = UpTo(A, k)
      /\ \A k \in Nat : k <= m => Cardinality(UpTo(D, n + k)) = c + Cardinality(UpTo(B, k))
  BY ConcatDelimiters
<1> HIDE DEF n, m, D, A, B, c
<1>3. D \in SUBSET Nat
  <2>1. n + m \in Nat
    BY <1>1
  <2> QED
    BY <1>2, <2>1, UpToBounds
<1>4. ASSUME NEW i \in 1..c PROVE Nth(D, i) = Nth(A, i)
  <2> DEFINE k == Nth(A, i)
  <2>1. k \in A /\ Cardinality(UpTo(A, k)) = i
    <3>1. i \in 1..Cardinality(A)
      BY DEF c
    <3> QED
      BY <1>1, <3>1, NthProperties
  <2> HIDE DEF k
  <2>2. k \in 1..n /\ k \in Nat /\ k <= n
    BY <1>1, <2>1
  <2>3. k \in D /\ Cardinality(UpTo(D, k)) = i
    BY <1>2, <2>1, <2>2
  <2>4. Nth(D, i) = k
    BY <1>3, <2>3, NthRank
  <2> QED
    BY <2>4 DEF k
<1>5. ASSUME NEW i \in 1..Cardinality(B) PROVE Nth(D, c + i) = n + Nth(B, i)
  <2> DEFINE k == Nth(B, i)
  <2>1. k \in B /\ Cardinality(UpTo(B, k)) = i
    BY <1>1, NthProperties
  <2> HIDE DEF k
  <2>2. k \in 1..m /\ k \in Nat /\ k <= m
    BY <1>1, <2>1
  <2>3. n + k \in D /\ Cardinality(UpTo(D, n + k)) = c + i
    BY <1>2, <2>1, <2>2
  <2>4. Nth(D, c + i) = n + k
    BY <1>3, <2>3, NthRank
  <2> QED
    BY <2>4 DEF k
<1> QED
  BY <1>4, <1>5 DEF n, m, D, A, B, c

LEMMA ConcatSubSeq ==
  ASSUME NEW a \in Bytes, NEW b \in Bytes
  PROVE  /\ \A s \in 1..Len(a), e \in 1..Len(a) : s <= e =>
              /\ SubSeq(a \o b, s, e) = SubSeq(a, s, e)
              /\ SubSeq(a, s, e) \in Bytes /\ Len(SubSeq(a, s, e)) = e - s + 1
         /\ \A s \in 1..Len(b), e \in 1..Len(b) : s <= e =>
              SubSeq(a \o b, Len(a) + s, Len(a) + e) = SubSeq(b, s, e)
<1> DEFINE n == Len(a)
           m == Len(b)
           g == a \o b
<1>1. /\ n \in Nat /\ m \in Nat /\ g \in Bytes /\ Len(g) = n + m
      /\ \A i \in 1..(n + m) : g[i] = IF i <= n THEN a[i] ELSE b[i - n]
  BY DelimitersFinite, ConcatProperties DEF Bytes
<1>2. ASSUME NEW w \in Bytes, NEW s \in Nat, NEW e \in Nat, 1 <= s, s <= e, e <= Len(w)
      PROVE  /\ SubSeq(w, s, e) \in Bytes /\ Len(SubSeq(w, s, e)) = e - s + 1
             /\ \A i \in 1..(e - s + 1) : SubSeq(w, s, e)[i] = w[s + i - 1]
  <2>1. Len(w) \in Nat /\ \A i \in 1..Len(w) : w[i] \in AnyByte
    BY EmptyBytes, ElementOfSeq DEF Bytes
  <2>2. \A i \in s..e : w[i] \in AnyByte
    BY <1>2, <2>1
  <2> QED
    BY <1>2, <2>2, SubSeqProperties DEF Bytes
<1> HIDE DEF n, m, g
<1>3. ASSUME NEW s \in 1..n, NEW e \in 1..n, s <= e
      PROVE  /\ SubSeq(g, s, e) = SubSeq(a, s, e)
             /\ SubSeq(a, s, e) \in Bytes /\ Len(SubSeq(a, s, e)) = e - s + 1
  <2>1. s \in Nat /\ e \in Nat /\ 1 <= s /\ e <= Len(a) /\ e <= Len(g)
    BY <1>1 DEF n
  <2> DEFINE x == SubSeq(g, s, e)
             y == SubSeq(a, s, e)
  <2>2. /\ x \in Bytes /\ Len(x) = e - s + 1 /\ \A i \in 1..(e - s + 1) : x[i] = g[s + i - 1]
        /\ y \in Bytes /\ Len(y) = e - s + 1 /\ \A i \in 1..(e - s + 1) : y[i] = a[s + i - 1]
    BY <1>1, <1>2, <1>3, <2>1
  <2> HIDE DEF x, y
  <2>3. \A i \in 1..(e - s + 1) : s + i - 1 \in 1..(n + m) /\ s + i - 1 <= n
    BY <1>1, <2>1
  <2>4. \A i \in 1..(e - s + 1) : x[i] = y[i]
    BY <1>1, <2>2, <2>3
  <2>5. x = y
    BY <2>2, <2>4, SeqEqual DEF Bytes
  <2> QED
    BY <2>2, <2>5 DEF x, y
<1>4. ASSUME NEW s \in 1..m, NEW e \in 1..m, s <= e
      PROVE  SubSeq(g, n + s, n + e) = SubSeq(b, s, e)
  <2>1. s \in Nat /\ e \in Nat /\ 1 <= s /\ e <= Len(b) /\ n + s \in Nat /\ n + e \in Nat
        /\ 1 <= n + s /\ n + s <= n + e /\ n + e <= Len(g)
        /\ (n + e) - (n + s) + 1 = e - s + 1
    BY <1>1, <1>4 DEF m
  <2> DEFINE x == SubSeq(g, n + s, n + e)
             y == SubSeq(b, s, e)
  <2>2. /\ x \in Bytes /\ Len(x) = (n + e) - (n + s) + 1
        /\ \A i \in 1..((n + e) - (n + s) + 1) : x[i] = g[n + s + i - 1]
    BY <1>1, <1>2, <2>1
  <2>3. y \in Bytes /\ Len(y) = e - s + 1 /\ \A i \in 1..(e - s + 1) : y[i] = b[s + i - 1]
    BY <1>2, <1>4, <2>1
  <2> HIDE DEF x, y
  <2>4. \A i \in 1..(e - s + 1) : /\ n + s + i - 1 \in 1..(n + m) /\ ~(n + s + i - 1 <= n)
                                  /\ (n + s + i - 1) - n = s + i - 1
    BY <1>1, <2>1
  <2>5. \A i \in 1..(e - s + 1) : x[i] = y[i]
    BY <1>1, <2>1, <2>2, <2>3, <2>4
  <2>6. x = y
    BY <2>1, <2>2, <2>3, <2>5, SeqEqual DEF Bytes
  <2> QED
    BY <2>6 DEF x, y
<1> QED
  BY <1>3, <1>4 DEF n, m, g

-----------------------------------------------------------------------------
(* Concatenating a sequence of byte strings.                               *)

(* The concatenations of the first strings of s, up to the n-th one.       *)
IsFlatten(g, s, n) ==
  g = [i \in 1..n |-> IF i = 1 THEN s[i] ELSE g[i - 1] \o s[i]]

HasFlatten(s, n) == \E g : IsFlatten(g, s, n)

LEMMA FlattenDef ==
  ASSUME NEW s, Len(s) # 0
  PROVE  FlattenSeq(s) = (CHOOSE g : IsFlatten(g, s, Len(s)))[Len(s)]
  BY DEF FlattenSeq, IsFlatten

LEMMA FlattenExists ==
  ASSUME NEW s, NEW n \in Nat
  PROVE  HasFlatten(s, n)
<1> DEFINE T == {k \in Nat : ~HasFlatten(s, k)}
<1> SUFFICES ASSUME T # {} PROVE FALSE
  OBVIOUS
<1>1. PICK k \in T : \A y \in T : k <= y
  <2>1. T \in SUBSET Nat
    OBVIOUS
  <2> HIDE DEF T
  <2> QED
    BY <2>1, LeastElement
<1>2. k \in Nat /\ ~HasFlatten(s, k)
  BY <1>1
<1>3. CASE k = 0
  <2> DEFINE g == [i \in 1..0 |-> s[i]]
  <2>1. g = [i \in 1..0 |-> IF i = 1 THEN s[i] ELSE g[i - 1] \o s[i]]
    OBVIOUS
  <2>2. IsFlatten(g, s, 0)
    BY <2>1 DEF IsFlatten
  <2> QED
    BY <1>2, <1>3, <2>2 DEF HasFlatten
<1>4. CASE k # 0
  <2>1. k - 1 \in Nat /\ ~(k <= k - 1)
    BY <1>2, <1>4
  <2>2. HasFlatten(s, k - 1)
    BY <1>1, <2>1
  <2>3. PICK g : IsFlatten(g, s, k - 1)
    BY <2>2 DEF HasFlatten
  <2>4. \A i \in 1..(k - 1) : g[i] = IF i = 1 THEN s[i] ELSE g[i - 1] \o s[i]
    BY <2>3 DEF IsFlatten
  <2> DEFINE h == [i \in 1..k |-> IF i < k THEN g[i] ELSE IF i = 1 THEN s[i] ELSE g[i - 1] \o s[i]]
  <2>5. ASSUME NEW i \in 1..k PROVE h[i] = IF i = 1 THEN s[i] ELSE h[i - 1] \o s[i]
    <3>1. i # 1 => i - 1 \in 1..k /\ i - 1 < k
      BY <1>2
    <3>2. i # 1 => h[i - 1] = g[i - 1]
      BY <3>1
    <3>3. CASE i < k
      <4>1. i \in 1..(k - 1) /\ h[i] = g[i]
        BY <1>2, <3>3
      <4> HIDE DEF h
      <4> QED
        BY <2>4, <3>2, <4>1
    <3>4. CASE ~(i < k)
      <4>1. h[i] = IF i = 1 THEN s[i] ELSE g[i - 1] \o s[i]
        BY <3>4
      <4> HIDE DEF h
      <4> QED
        BY <3>2, <4>1
    <3> QED
      BY <3>3, <3>4
  <2>6. h = [i \in 1..k |-> h[i]]
    OBVIOUS
  <2> HIDE DEF h
  <2>7. h = [i \in 1..k |-> IF i = 1 THEN s[i] ELSE h[i - 1] \o s[i]]
    BY <2>5, <2>6
  <2> QED
    BY <1>2, <2>7 DEF HasFlatten, IsFlatten
<1> QED
  BY <1>3, <1>4

(* The concatenation of the first k strings depends on them alone.         *)
LEMMA FlattenPrefix ==
  ASSUME NEW s, NEW t, NEW n \in Nat, NEW m \in Nat, NEW g, NEW h,
         IsFlatten(g, s, n), IsFlatten(h, t, m),
         NEW k \in Nat, k <= n, k <= m,
         \A i \in 1..k : s[i] = t[i] /\ s[i] \in Bytes
  PROVE  \A i \in 1..k : g[i] = h[i] /\ g[i] \in Bytes
<1> DEFINE T == {i \in Nat : i \in 1..k /\ ~(g[i] = h[i] /\ g[i] \in Bytes)}
<1> SUFFICES ASSUME T # {} PROVE FALSE
  <2>1. \A i \in 1..k : i \in Nat
    OBVIOUS
  <2> QED
    BY <2>1
<1>1. PICK i \in T : \A y \in T : i <= y
  <2>1. T \in SUBSET Nat
    OBVIOUS
  <2> HIDE DEF T
  <2> QED
    BY <2>1, LeastElement
<1>2. i \in Nat /\ i \in 1..k /\ ~(g[i] = h[i] /\ g[i] \in Bytes)
  BY <1>1
<1>3. i \in 1..n /\ i \in 1..m
  BY <1>2
<1>4. /\ g[i] = IF i = 1 THEN s[i] ELSE g[i - 1] \o s[i]
      /\ h[i] = IF i = 1 THEN t[i] ELSE h[i - 1] \o t[i]
  BY <1>3 DEF IsFlatten
<1>5. s[i] = t[i] /\ s[i] \in Bytes
  BY <1>2
<1>6. CASE i = 1
  BY <1>2, <1>4, <1>5, <1>6
<1>7. CASE i # 1
  <2>1. i - 1 \in Nat /\ i - 1 \in 1..k /\ ~(i <= i - 1)
    BY <1>2, <1>7
  <2>2. g[i - 1] = h[i - 1] /\ g[i - 1] \in Bytes
    BY <1>1, <2>1
  <2>3. g[i - 1] \o s[i] \in Bytes
    BY <1>5, <2>2, Assoc
  <2> QED
    BY <1>2, <1>4, <1>5, <1>7, <2>2, <2>3
<1> QED
  BY <1>6, <1>7

LEMMA FlattenAppend ==
  /\ FlattenSeq(<<>>) = <<>>
  /\ \A s \in Seq(Bytes), x \in Bytes : FlattenSeq(Append(s, x)) = FlattenSeq(s) \o x
  /\ \A s \in Seq(Bytes) : FlattenSeq(s) \in Bytes
<1>1. FlattenSeq(<<>>) = <<>>
  BY EmptyBytes DEF FlattenSeq
<1>2. ASSUME NEW s \in Seq(Bytes), Len(s) # 0
      PROVE  /\ FlattenSeq(s) \in Bytes
             /\ \A g, t : \A m \in Nat :
                  Len(s) <= m /\ IsFlatten(g, t, m) /\ (\A i \in 1..Len(s) : t[i] = s[i])
                    => g[Len(s)] = FlattenSeq(s)
  <2> DEFINE n == Len(s)
             f == CHOOSE g : IsFlatten(g, s, n)
  <2>1. n \in Nat /\ n # 0 /\ \A i \in 1..n : s[i] \in Bytes
    BY <1>2, LenProperties, ElementOfSeq
  <2>2. IsFlatten(f, s, n)
    BY <2>1, FlattenExists DEF HasFlatten
  <2>3. FlattenSeq(s) = f[n]
    BY <1>2, FlattenDef
  <2> HIDE DEF f, n
  <2>4. n \in 1..n /\ n <= n
    BY <2>1
  <2>5. \A i \in 1..n : f[i] = f[i] /\ f[i] \in Bytes
    BY <2>1, <2>2, <2>4, FlattenPrefix
  <2>6. ASSUME NEW g, NEW m \in Nat, NEW t, n <= m, IsFlatten(g, t, m), \A i \in 1..n : t[i] = s[i]
        PROVE  g[n] = f[n]
    <3>1. \A i \in 1..n : s[i] = t[i] /\ s[i] \in Bytes
      BY <2>1, <2>6
    <3>2. \A i \in 1..n : f[i] = g[i] /\ f[i] \in Bytes
      BY <2>1, <2>2, <2>4, <2>6, <3>1, FlattenPrefix
    <3> QED
      BY <2>4, <3>2
  <2> QED
    BY <2>3, <2>4, <2>5, <2>6 DEF n
<1>3. ASSUME NEW s \in Seq(Bytes) PROVE FlattenSeq(s) \in Bytes
  <2>1. CASE Len(s) = 0
    BY <2>1, <1>1, EmptyBytes, EmptySeq
  <2>2. CASE Len(s) # 0
    BY <1>2, <2>2
  <2> QED
    BY <2>1, <2>2
<1>4. ASSUME NEW s \in Seq(Bytes), NEW x \in Bytes
      PROVE  FlattenSeq(Append(s, x)) = FlattenSeq(s) \o x
  <2> DEFINE t == Append(s, x)
             n == Len(s)
             f == CHOOSE g : IsFlatten(g, t, n + 1)
  <2>1. /\ n \in Nat /\ t \in Seq(Bytes) /\ Len(t) = n + 1 /\ t[n + 1] = x
        /\ \A i \in 1..n : t[i] = s[i]
    BY AppendProperties, LenProperties
  <2>2. n + 1 # 0 /\ n + 1 \in Nat /\ n + 1 \in 1..(n + 1) /\ n <= n + 1 /\ (n + 1) - 1 = n
    BY <2>1
  <2>3. FlattenSeq(t) = f[n + 1] /\ IsFlatten(f, t, n + 1)
    <3>1. IsFlatten(f, t, n + 1)
      BY <2>2, FlattenExists DEF HasFlatten
    <3>2. FlattenSeq(t) = (CHOOSE g : IsFlatten(g, t, Len(t)))[Len(t)]
      <4> HIDE DEF t
      <4> QED
        BY <2>1, <2>2, FlattenDef
    <3> QED
      BY <2>1, <3>1, <3>2
  <2> HIDE DEF f, n, t
  <2>4. f[n + 1] = IF n + 1 = 1 THEN t[n + 1] ELSE f[n] \o t[n + 1]
    BY <2>2, <2>3 DEF IsFlatten
  <2>5. CASE n = 0
    <3>1. FlattenSeq(s) = <<>>
      BY <1>1, <2>5, EmptySeq DEF n
    <3>2. n + 1 = 1
      BY <2>5
    <3> QED
      BY <2>1, <2>3, <2>4, <3>1, <3>2, EmptyBytes DEF t
  <2>6. CASE n # 0
    <3>1. f[n] = FlattenSeq(s)
      BY <1>2, <2>1, <2>2, <2>3, <2>6 DEF n
    <3>2. n + 1 # 1
      BY <2>1, <2>6
    <3> QED
      BY <2>1, <2>3, <2>4, <3>1, <3>2 DEF t
  <2> QED
    BY <2>5, <2>6
<1> QED
  BY <1>1, <1>3, <1>4

-----------------------------------------------------------------------------
(* Frames of a stream.                                                     *)

LEMMA FrameAtProperties ==
  ASSUME NEW q \in Bytes, NEW i \in Pairs(q)
  PROVE  LET s == Nth(Delimiters(q), 2 * i - 1)
             e == Nth(Delimiters(q), 2 * i)
         IN  /\ s \in 1..Len(q) /\ e \in 1..Len(q) /\ s < e
             /\ s \in Delimiters(q) /\ e \in Delimiters(q)
             /\ FrameAt(q, i) = SubSeq(q, s, e)
             /\ FrameAt(q, i) \in Bytes /\ Len(FrameAt(q, i)) = e - s + 1
             /\ 2 * i - 1 \in 1..Cardinality(Delimiters(q))
             /\ 2 * i \in 1..Cardinality(Delimiters(q))
<1> DEFINE D == Delimiters(q)
           c == Cardinality(D)
           s == Nth(D, 2 * i - 1)
           e == Nth(D, 2 * i)
<1>1. c \in Nat /\ Len(q) \in Nat /\ D \in SUBSET (1..Len(q))
  BY DelimitersFinite
<1>2. i \in Nat /\ i >= 1 /\ i <= c \div 2
  BY <1>1 DEF Pairs
<1> HIDE DEF c
<1>3. 2 * i - 1 \in 1..c /\ 2 * i \in 1..c /\ 2 * i - 1 < 2 * i
  BY <1>1, <1>2
<1>4. s \in D /\ e \in D /\ s < e
  <2> HIDE DEF D
  <2>1. 2 * i - 1 \in 1..Cardinality(D) /\ 2 * i \in 1..Cardinality(D)
    BY <1>3 DEF c
  <2> QED
    BY <1>1, <1>3, <2>1, NthProperties
<1> HIDE DEF D, s, e
<1>5. s \in 1..Len(q) /\ e \in 1..Len(q) /\ s <= e
  BY <1>1, <1>4
<1>6. SubSeq(q, s, e) \in Bytes /\ Len(SubSeq(q, s, e)) = e - s + 1
  BY <1>5, ConcatSubSeq, EmptyBytes
<1>7. FrameAt(q, i) = SubSeq(q, s, e)
  BY DEF FrameAt, s, e, D
<1> QED
  BY <1>3, <1>4, <1>5, <1>6, <1>7 DEF c, D, s, e

(* Appending bytes leaves the frames of a stream alone, and at a boundary  *)
(* the frames of the appended bytes follow.                                *)
LEMMA PairsConcat ==
  ASSUME NEW a \in Bytes, NEW b \in Bytes
  PROVE  LET m == Cardinality(Delimiters(a)) \div 2
             k == Cardinality(Delimiters(b)) \div 2
         IN  /\ m \in Nat /\ k \in Nat
             /\ Pairs(a) = 1..m /\ Pairs(b) = 1..k
             /\ \A i \in 1..m : i \in Pairs(a \o b) /\ FrameAt(a \o b, i) = FrameAt(a, i)
             /\ AtBoundary(a) =>
                  /\ Pairs(a \o b) = 1..(m + k)
                  /\ \A i \in 1..k : FrameAt(a \o b, m + i) = FrameAt(b, i)
                  /\ AtBoundary(a \o b) <=> AtBoundary(b)
<1> DEFINE c == Cardinality(Delimiters(a))
           d == Cardinality(Delimiters(b))
           g == a \o b
           m == c \div 2
           k == d \div 2
           n == Len(a)
<1>1. c \in Nat /\ d \in Nat
  BY DelimitersFinite
<1>2. /\ Cardinality(Delimiters(g)) = c + d
      /\ \A i \in 1..c : Nth(Delimiters(g), i) = Nth(Delimiters(a), i)
      /\ \A i \in 1..d : Nth(Delimiters(g), c + i) = n + Nth(Delimiters(b), i)
  BY ConcatDelimiters, ConcatNth
<1>3. Pairs(a) = 1..m /\ Pairs(b) = 1..k /\ Pairs(g) = 1..((c + d) \div 2)
  BY <1>2 DEF Pairs
<1>x. AtBoundary(a) <=> c % 2 = 0
  BY DEF AtBoundary
<1>y. AtBoundary(b) <=> d % 2 = 0
  BY DEF AtBoundary
<1>z. AtBoundary(g) <=> (c + d) % 2 = 0
  BY <1>2 DEF AtBoundary
<1> HIDE DEF c, d, g
<1>4. m \in Nat /\ k \in Nat /\ m <= (c + d) \div 2
  BY <1>1
<1>5. ASSUME NEW i \in 1..m PROVE i \in Pairs(g) /\ FrameAt(g, i) = FrameAt(a, i)
  <2>1. i \in Pairs(g) /\ i \in Pairs(a)
    <3> DEFINE l == (c + d) \div 2
    <3>1. l \in Nat
      BY <1>1
    <3> HIDE DEF m, l
    <3>2. i \in 1..l
      BY <1>4, <3>1 DEF l
    <3> QED
      BY <1>3, <3>2 DEF l
  <2> DEFINE s == Nth(Delimiters(a), 2 * i - 1)
             e == Nth(Delimiters(a), 2 * i)
  <2>2. /\ s \in 1..n /\ e \in 1..n /\ s < e
        /\ FrameAt(a, i) = SubSeq(a, s, e)
        /\ 2 * i - 1 \in 1..c /\ 2 * i \in 1..c
    BY <2>1, FrameAtProperties DEF c
  <2>3. Nth(Delimiters(g), 2 * i - 1) = s /\ Nth(Delimiters(g), 2 * i) = e
    BY <1>2, <2>2
  <2>4. FrameAt(g, i) = SubSeq(g, s, e)
    BY <2>3 DEF FrameAt
  <2> HIDE DEF s, e
  <2>5. n \in Nat
    BY EmptyBytes
  <2>6. s <= e
    BY <2>2, <2>5
  <2>7. SubSeq(g, s, e) = SubSeq(a, s, e)
    BY <2>2, <2>6, ConcatSubSeq DEF g
  <2> QED
    BY <2>1, <2>2, <2>4, <2>7
<1>6. ASSUME AtBoundary(a)
      PROVE  /\ Pairs(g) = 1..(m + k)
             /\ \A i \in 1..k : FrameAt(g, m + i) = FrameAt(b, i)
             /\ AtBoundary(g) <=> AtBoundary(b)
  <2>1. c % 2 = 0
    BY <1>6, <1>x
  <2>2. c = 2 * m /\ (c + d) \div 2 = m + k /\ ((c + d) % 2 = 0 <=> d % 2 = 0)
    BY <1>1, <2>1
  <2> HIDE DEF m, k
  <2>3. ASSUME NEW i \in 1..k PROVE FrameAt(g, m + i) = FrameAt(b, i)
    <3> DEFINE s == Nth(Delimiters(b), 2 * i - 1)
               e == Nth(Delimiters(b), 2 * i)
    <3>1. i \in Pairs(b)
      BY <1>3
    <3>2. /\ s \in 1..Len(b) /\ e \in 1..Len(b) /\ s < e
          /\ FrameAt(b, i) = SubSeq(b, s, e)
          /\ 2 * i - 1 \in 1..d /\ 2 * i \in 1..d
      BY <3>1, FrameAtProperties DEF d
    <3>3. 2 * (m + i) - 1 = c + (2 * i - 1) /\ 2 * (m + i) = c + 2 * i
      BY <1>4, <2>2
    <3>4. Nth(Delimiters(g), 2 * (m + i) - 1) = n + s /\ Nth(Delimiters(g), 2 * (m + i)) = n + e
      BY <1>2, <3>2, <3>3
    <3>5. FrameAt(g, m + i) = SubSeq(g, n + s, n + e)
      BY <3>4 DEF FrameAt
    <3> HIDE DEF s, e
    <3>6. Len(b) \in Nat
      BY EmptyBytes
    <3>7. s <= e
      BY <3>2, <3>6
    <3>8. SubSeq(g, n + s, n + e) = SubSeq(b, s, e)
      BY <3>2, <3>7, ConcatSubSeq DEF g
    <3> QED
      BY <3>2, <3>5, <3>8
  <2> QED
    BY <1>3, <1>y, <1>z, <2>2, <2>3
<1> QED
  BY <1>3, <1>4, <1>5, <1>6 DEF c, d, g

LEMMA OverlongPrefix ==
  ASSUME NEW a \in Bytes, NEW b \in Bytes, ~Overlong(a \o b)
  PROVE  ~Overlong(a)
<1> SUFFICES ASSUME NEW i \in Pairs(a), Len(FrameAt(a, i)) > MaxEncoded PROVE FALSE
  BY DEF Overlong
<1>1. i \in Pairs(a \o b) /\ FrameAt(a \o b, i) = FrameAt(a, i)
  BY PairsConcat
<1> QED
  BY <1>1 DEF Overlong

(* A frame appended at a boundary appends its payload.                     *)
LEMMA PairedDataAppend ==
  ASSUME NEW a \in Bytes, AtBoundary(a), NEW b \in Bytes, Cardinality(Delimiters(b)) = 2
  PROVE  /\ AtBoundary(a \o b)
         /\ PairedData(a) \in Bytes
         /\ PairedData(a \o b) = PairedData(a) \o Decode(FrameAt(b, 1), QueueCapacity).data
<1> DEFINE m == Cardinality(Delimiters(a)) \div 2
           g == a \o b
           Data(q, i) == Decode(FrameAt(q, i), QueueCapacity).data
           s == [i \in 1..m |-> Data(a, i)]
           x == Data(b, 1)
           t == [i \in 1..(m + 1) |-> Data(g, i)]
<1>1. /\ m \in Nat /\ Pairs(a) = 1..m /\ Pairs(b) = 1..1 /\ Pairs(g) = 1..(m + 1)
      /\ \A i \in 1..m : FrameAt(g, i) = FrameAt(a, i)
      /\ FrameAt(g, m + 1) = FrameAt(b, 1)
      /\ AtBoundary(g)
  <2>1. 2 \div 2 = 1 /\ 2 % 2 = 0 /\ 1 \in 1..1
    OBVIOUS
  <2>2. AtBoundary(b) /\ Cardinality(Delimiters(b)) \div 2 = 1
    BY <2>1 DEF AtBoundary
  <2> DEFINE k == Cardinality(Delimiters(b)) \div 2
  <2>3. /\ m \in Nat /\ Pairs(a) = 1..m /\ Pairs(b) = 1..k
        /\ \A i \in 1..m : FrameAt(g, i) = FrameAt(a, i)
    BY PairsConcat
  <2>4. /\ Pairs(g) = 1..(m + k)
        /\ \A i \in 1..k : FrameAt(g, m + i) = FrameAt(b, i)
        /\ AtBoundary(g) <=> AtBoundary(b)
    BY PairsConcat
  <2>5. k = 1
    BY <2>2
  <2> HIDE DEF m, g, k
  <2> QED
    BY <2>1, <2>2, <2>3, <2>4, <2>5
<1>2. ASSUME NEW q \in Bytes, NEW i \in Pairs(q) PROVE Data(q, i) \in Bytes
  <2>1. FrameAt(q, i) \in Bytes /\ QueueCapacity \in Nat
    BY FrameAtProperties, FrameAssumption
  <2> QED
    BY <2>1, DecodeType
<1>3. PairedData(a) = FlattenSeq(s) /\ PairedData(g) = FlattenSeq(t)
  BY <1>1 DEF PairedData
<1>4. x \in Bytes /\ \A i \in 1..m : Data(a, i) \in Bytes
  BY <1>1, <1>2
<1>5. \A i \in 1..m : Data(g, i) = Data(a, i)
  BY <1>1
<1>6. Data(g, m + 1) = x
  BY <1>1
<1> HIDE DEF Data, x, m
<1>7. s \in Seq(Bytes) /\ Len(s) = m
  BY <1>1, <1>4
<1>8. t = Append(s, x)
  <2>1. \A i \in 1..(m + 1) : (i = m + 1 \/ i \in 1..m) /\ ~(m + 1 \in 1..m)
    BY <1>1
  <2>2. \A i \in 1..(m + 1) : Data(g, i) = IF i = m + 1 THEN x ELSE Data(a, i)
    BY <1>5, <1>6, <2>1
  <2>3. \A i \in 1..(m + 1) : Data(g, i) \in Bytes
    BY <1>4, <2>1, <2>2
  <2>4. t \in Seq(Bytes) /\ Len(t) = m + 1 /\ \A i \in 1..(m + 1) : t[i] = Data(g, i)
    BY <1>1, <2>3
  <2>5. \A i \in 1..m : s[i] = Data(a, i)
    OBVIOUS
  <2> HIDE DEF s, t
  <2>6. /\ Append(s, x) \in Seq(Bytes) /\ Len(Append(s, x)) = m + 1
        /\ \A i \in 1..m : Append(s, x)[i] = s[i]
        /\ Append(s, x)[m + 1] = x
    BY <1>4, <1>7, AppendProperties
  <2>7. \A i \in 1..(m + 1) : t[i] = Append(s, x)[i]
    BY <2>1, <2>2, <2>4, <2>5, <2>6
  <2> QED
    BY <2>4, <2>6, <2>7, SeqEqual
<1> HIDE DEF s, t
<1>9. FlattenSeq(t) = FlattenSeq(s) \o x /\ FlattenSeq(s) \in Bytes
  BY <1>4, <1>7, <1>8, FlattenAppend
<1> QED
  BY <1>1, <1>3, <1>9 DEF x, Data, g

(* The first pair of delimiters in what a reader has before it: what       *)
(* ReadFrame removes, and the frame it returns when that fits its buffer.  *)
LEMMA FirstPair ==
  ASSUME NEW q \in Bytes, HasCompleteFrame(q)
  PROVE  LET e == Nth(Delimiters(q), 2)
             c == SubSeq(q, 1, e)
             r == SubSeq(q, e + 1, Len(q))
         IN  /\ 1 \in Pairs(q)
             /\ c \in Bytes /\ r \in Bytes /\ c \o r = q /\ Len(c) = e
             /\ Prefix(q, Len(q) - Len(r)) = c
             /\ Cardinality(Delimiters(c)) = 2
             /\ FrameAt(c, 1) = FrameAt(q, 1)
             /\ Len(FrameAt(q, 1)) <= MaxEncoded =>
                  ReadFrame(q, MaxEncoded) = [status |-> "OK", frame |-> FrameAt(q, 1), rest |-> r]
<1> DEFINE D == Delimiters(q)
           s == Nth(D, 1)
           e == Nth(D, 2)
           L == Len(q)
           c == SubSeq(q, 1, e)
           r == SubSeq(q, e + 1, L)
<1>1. /\ L \in Nat /\ D \in SUBSET (1..L) /\ Cardinality(D) \in Nat /\ Cardinality(D) >= 2
      /\ D \in SUBSET Nat
  <2>1. L \in Nat /\ D \in SUBSET (1..L) /\ Cardinality(D) \in Nat
    BY DelimitersFinite
  <2>2. Cardinality(D) >= 2
    BY DEF HasCompleteFrame
  <2>3. D \in SUBSET Nat
    <3> HIDE DEF D
    <3> QED
      BY <2>1, UpToBounds
  <2> QED
    BY <2>1, <2>2, <2>3
<1>2. 1 \in Pairs(q) /\ 1 \in 1..Cardinality(D) /\ 2 \in 1..Cardinality(D)
  <2> DEFINE k == Cardinality(D)
  <2>1. k \in Nat /\ k >= 2
    BY <1>1
  <2>2. Pairs(q) = 1..(k \div 2)
    BY DEF Pairs
  <2> HIDE DEF k
  <2>3. 1 \in 1..(k \div 2) /\ 1 \in 1..k /\ 2 \in 1..k
    BY <2>1
  <2> QED
    BY <2>2, <2>3 DEF k
<1>3. /\ FrameAt(q, 1) = SubSeq(q, s, e) /\ Len(SubSeq(q, s, e)) = e - s + 1
      /\ s \in 1..L /\ e \in 1..L /\ s < e /\ s \in D /\ e \in D
  <2>1. 2 * 1 - 1 = 1 /\ 2 * 1 = 2
    OBVIOUS
  <2>2. /\ Nth(D, 2 * 1 - 1) \in 1..L /\ Nth(D, 2 * 1) \in 1..L /\ Nth(D, 2 * 1 - 1) < Nth(D, 2 * 1)
        /\ Nth(D, 2 * 1 - 1) \in D /\ Nth(D, 2 * 1) \in D
        /\ FrameAt(q, 1) = SubSeq(q, Nth(D, 2 * 1 - 1), Nth(D, 2 * 1))
        /\ Len(FrameAt(q, 1)) = Nth(D, 2 * 1) - Nth(D, 2 * 1 - 1) + 1
    BY <1>2, FrameAtProperties
  <2> QED
    BY <2>1, <2>2
<1> HIDE DEF D, L
<1>4. Cardinality(UpTo(D, s)) = 1 /\ Cardinality(UpTo(D, e)) = 2
  BY <1>1, <1>2, NthProperties
<1> HIDE DEF s, e
<1>5. \A j \in D : s <= j /\ (j > s => e <= j)
  <2> SUFFICES ASSUME NEW j \in D PROVE s <= j /\ (j > s => e <= j)
    OBVIOUS
  <2> DEFINE k == Cardinality(UpTo(D, j))
  <2>1. j \in Nat /\ s \in Nat /\ e \in Nat /\ k \in Nat
    <3>1. j \in Nat /\ s \in Nat /\ e \in Nat
      BY <1>1, <1>3
    <3> QED
      BY <1>1, <3>1, CountUpTo
  <2>2. j < s => k < 1
    BY <1>1, <1>3, <1>4, <2>1, RankIncreases
  <2>3. s < j => 1 < k
    BY <1>1, <1>4, <2>1, RankIncreases
  <2>4. j < e => k < 2
    BY <1>1, <1>3, <1>4, <2>1, RankIncreases
  <2>5. k # 0
    <3> SUFFICES ASSUME k = 0 PROVE FALSE
      OBVIOUS
    <3>1. UpTo(D, j) = {}
      BY <1>1, <2>1, CountUpTo, FS_EmptySet
    <3>2. j <= j
      BY <2>1
    <3>3. j \in UpTo(D, j)
      BY <3>2 DEF UpTo
    <3> QED
      BY <3>1, <3>3
  <2> HIDE DEF k
  <2> QED
    BY <2>1, <2>2, <2>3, <2>4, <2>5
<1>6. /\ c \in Bytes /\ r \in Bytes /\ c \o r = q /\ Len(c) = e /\ Len(r) = L - e
      /\ Prefix(q, Len(q) - Len(r)) = c
  <2>1. e \in Nat /\ e <= L /\ 1 <= e
    BY <1>1, <1>3
  <2>2. c \in Bytes /\ Len(c) = e
    <3>1. 1 \in 1..Len(q) /\ e \in 1..Len(q) /\ 1 <= e /\ e - 1 + 1 = e
      BY <1>1, <2>1, <1>3 DEF L
    <3> QED
      BY <3>1, ConcatSubSeq, EmptyBytes
  <2>3. r \in Bytes /\ Len(r) = L - e
    <3>1. r \in Bytes /\ Len(r) = IF e < L THEN L - e ELSE 0
      BY <2>1, CutProperties DEF L
    <3> QED
      BY <1>1, <2>1, <3>1
  <2>4. L - Len(r) = e
    BY <1>1, <2>1, <2>3
  <2>5. SubSeq(q, 1, Len(q) - Len(r)) \o r = q
    BY <2>1, CutProperties DEF L
  <2>6. c \o r = q
    BY <2>4, <2>5 DEF L
  <2>7. Prefix(q, e) = c
    BY <1>1, <2>1 DEF Prefix, AtMost, L
  <2> QED
    BY <2>2, <2>3, <2>4, <2>6, <2>7 DEF L
<1> HIDE DEF c, r
<1>7. Cardinality(Delimiters(c)) = 2
  <2>1. e \in Nat /\ e <= Len(c)
    BY <1>1, <1>3, <1>6
  <2>2. UpTo(D, e) = UpTo(Delimiters(c), e)
    <3>1. \A k \in Nat : k <= Len(c) => UpTo(Delimiters(c \o r), k) = UpTo(Delimiters(c), k)
      BY <1>6, ConcatDelimiters
    <3> QED
      BY <1>6, <2>1, <3>1 DEF D
  <2>3. Delimiters(c) \in SUBSET (1..e)
    BY <1>6, DelimitersFinite
  <2>4. UpTo(Delimiters(c), e) = Delimiters(c)
    BY <2>1, <2>3, UpToBounds
  <2> QED
    BY <1>4, <2>2, <2>4
<1>8. FrameAt(c, 1) = FrameAt(q, 1)
  <2>1. 2 \div 2 = 1 /\ 1 \in 1..1
    OBVIOUS
  <2>2. 1 \in 1..(Cardinality(Delimiters(c)) \div 2)
    BY <1>7, <2>1
  <2>3. FrameAt(c \o r, 1) = FrameAt(c, 1)
    BY <1>6, <2>2, PairsConcat
  <2> QED
    BY <1>6, <2>3
<1>9. ASSUME Len(FrameAt(q, 1)) <= MaxEncoded
      PROVE  ReadFrame(q, MaxEncoded) = [status |-> "OK", frame |-> FrameAt(q, 1), rest |-> r]
  <2> DEFINE later == {j \in D : j > s}
  <2>1. FirstOf(D) = s
    <3>1. FirstOf(D) \in D /\ FirstOf(D) <= s
      BY <1>1, <1>3, FirstOfProperties
    <3>2. s <= FirstOf(D) /\ s \in Nat /\ FirstOf(D) \in Nat
      BY <1>1, <1>3, <1>5, <3>1
    <3> QED
      BY <3>1, <3>2
  <2>2. e \in later /\ later \in SUBSET Nat
    BY <1>1, <1>3
  <2>3. FirstOf(later) = e
    <3>1. FirstOf(later) \in later /\ FirstOf(later) <= e
      <4> HIDE DEF later
      <4> QED
        BY <2>2, FirstOfProperties
    <3>2. e <= FirstOf(later) /\ e \in Nat /\ FirstOf(later) \in Nat
      BY <1>1, <1>3, <1>5, <3>1
    <3> QED
      BY <3>1, <3>2
  <2>4. MaxEncoded \in Nat
    BY FrameAssumption DEF MaxEncoded
  <2>5. e < s + MaxEncoded
    BY <1>1, <1>3, <1>9, <2>4
  <2>6. ReadFrame(q, MaxEncoded) = [status |-> "OK", frame |-> SubSeq(q, s, e), rest |-> r]
    <3>1. Delimiters(q) # {} /\ {j \in Delimiters(q) : j > FirstOf(Delimiters(q))} = later
          /\ FirstOf(Delimiters(q)) = s
      BY <1>3, <2>1 DEF D
    <3> HIDE DEF later
    <3> QED
      BY <2>2, <2>3, <2>5, <3>1 DEF ReadFrame, r, L
  <2> QED
    BY <1>3, <2>6
<1> QED
  BY <1>2, <1>6, <1>7, <1>8, <1>9 DEF c, r, e, L, D

(* A reader at the boundary of two frames takes exactly the next one, if   *)
(* that fits its buffer.                                                   *)
LEMMA NextShortPair ==
  ASSUME NEW a \in Bytes, AtBoundary(a), NEW q \in Bytes, HasCompleteFrame(q),
         Len(FrameAt(q, 1)) <= MaxEncoded
  PROVE  LET cut == ReadFrame(q, MaxEncoded)
             c == Prefix(q, Len(q) - Len(cut.rest))
         IN  /\ cut.status = "OK" /\ cut.frame = FrameAt(q, 1)
             /\ c \in Bytes /\ Cardinality(Delimiters(c)) = 2
             /\ AtBoundary(a \o c)
             /\ PairedData(a \o c) = PairedData(a) \o Decode(cut.frame, QueueCapacity).data
<1> DEFINE e == Nth(Delimiters(q), 2)
           c == SubSeq(q, 1, e)
           r == SubSeq(q, e + 1, Len(q))
           f == FrameAt(q, 1)
           cut == ReadFrame(q, MaxEncoded)
<1>1. /\ c \in Bytes
      /\ Prefix(q, Len(q) - Len(r)) = c
      /\ Cardinality(Delimiters(c)) = 2
      /\ FrameAt(c, 1) = f
      /\ cut = [status |-> "OK", frame |-> f, rest |-> r]
  BY FirstPair
<1> HIDE DEF c, r, f
<1>2. cut.status = "OK" /\ cut.frame = f /\ cut.rest = r
  <2> HIDE DEF cut
  <2> QED
    BY <1>1
<1>3. AtBoundary(a \o c) /\ PairedData(a \o c) = PairedData(a) \o Decode(f, QueueCapacity).data
  <2>1. PairedData(a \o c) = PairedData(a) \o Decode(FrameAt(c, 1), QueueCapacity).data
    BY <1>1, PairedDataAppend
  <2>2. AtBoundary(a \o c)
    BY <1>1, PairedDataAppend
  <2> QED
    BY <1>1, <2>1, <2>2
<1> HIDE DEF cut
<1>4. Prefix(q, Len(q) - Len(cut.rest)) = c
  BY <1>1, <1>2
<1> QED
  BY <1>1, <1>2, <1>3, <1>4 DEF cut, f

(* The next frame of a reader is a frame of the whole stream.              *)
LEMMA NextIsPair ==
  ASSUME NEW a \in Bytes, AtBoundary(a), NEW q \in Bytes, HasCompleteFrame(q), NEW z \in Bytes
  PROVE  LET i == (Cardinality(Delimiters(a)) \div 2) + 1
         IN  i \in Pairs((a \o q) \o z) /\ FrameAt((a \o q) \o z, i) = FrameAt(q, 1)
<1> DEFINE m == Cardinality(Delimiters(a)) \div 2
           k == Cardinality(Delimiters(q)) \div 2
           g == a \o q
<1>1. g \in Bytes
  BY Assoc
<1>2. 1 \in Pairs(q)
  BY FirstPair
<1>3. m \in Nat /\ k \in Nat /\ Pairs(q) = 1..k
  BY PairsConcat
<1>4. Pairs(g) = 1..(m + k) /\ \A i \in 1..k : FrameAt(g, m + i) = FrameAt(q, i)
  BY PairsConcat
<1> HIDE DEF m, k
<1>5. m + 1 \in 1..(m + k) /\ 1 \in 1..k
  BY <1>2, <1>3
<1>6. m + 1 \in Pairs(g) /\ FrameAt(g, m + 1) = FrameAt(q, 1)
  BY <1>4, <1>5
<1> DEFINE h == Cardinality(Delimiters(g)) \div 2
<1> HIDE DEF g
<1>7. Pairs(g) = 1..h /\ \A i \in 1..h : i \in Pairs(g \o z) /\ FrameAt(g \o z, i) = FrameAt(g, i)
  BY <1>1, PairsConcat
<1> HIDE DEF h
<1>8. m + 1 \in Pairs(g \o z) /\ FrameAt(g \o z, m + 1) = FrameAt(q, 1)
  BY <1>6, <1>7
<1> QED
  BY <1>8 DEF g, m

LEMMA NextPair ==
  ASSUME NEW a \in Bytes, AtBoundary(a), NEW q \in Bytes, HasCompleteFrame(q), ~Overlong(a \o q)
  PROVE  LET cut == ReadFrame(q, MaxEncoded)
             c == Prefix(q, Len(q) - Len(cut.rest))
         IN  /\ cut.status = "OK"
             /\ AtBoundary(a \o c)
             /\ PairedData(a \o c) = PairedData(a) \o Decode(cut.frame, QueueCapacity).data
<1> DEFINE f == FrameAt(q, 1)
           i == (Cardinality(Delimiters(a)) \div 2) + 1
           g == a \o q
<1>1. i \in Pairs(g) /\ FrameAt(g, i) = f
  <2>1. g \in Bytes /\ g \o <<>> = g /\ <<>> \in Bytes
    BY Assoc, EmptyBytes
  <2>2. i \in Pairs(g \o <<>>) /\ FrameAt(g \o <<>>, i) = f
    BY <2>1, NextIsPair
  <2> HIDE DEF i, g, f
  <2> QED
    BY <2>1, <2>2
<1>2. f \in Bytes /\ Len(f) \in Nat
  <2>1. 1 \in Pairs(q)
    BY FirstPair
  <2>2. f \in Bytes
    BY <2>1, FrameAtProperties
  <2> HIDE DEF f
  <2> QED
    BY <2>2, EmptyBytes
<1>3. ~(Len(f) > MaxEncoded)
  <2> HIDE DEF i, f
  <2> QED
    BY <1>1 DEF Overlong
<1>4. MaxEncoded \in Nat
  BY FrameAssumption DEF MaxEncoded
<1>5. Len(f) <= MaxEncoded
  <2> HIDE DEF f
  <2> QED
    BY <1>2, <1>3, <1>4
<1> QED
  BY <1>5, NextShortPair

LEMMA BeforeRank ==
  ASSUME NEW w \in Bytes, NEW k \in Nat \ {0}
  PROVE  Before(w, k) = UpTo(Delimiters(w), k - 1)
<1>1. Delimiters(w) \in SUBSET Nat
  <2>1. Len(w) \in Nat /\ Delimiters(w) \in SUBSET (1..Len(w))
    BY DelimitersFinite
  <2> QED
    BY <2>1, UpToBounds
<1>2. \A j \in Nat : j < k <=> j <= k - 1
  OBVIOUS
<1> QED
  BY <1>1, <1>2 DEF Before, UpTo

(* The frames of accepted payloads all fit a frame buffer.                 *)
LEMMA WholeNotOverlong ==
  ASSUME NEW w \in Bytes, WholeFrames(w)
  PROVE  ~Overlong(w)
<1> SUFFICES ASSUME NEW i \in Pairs(w), Len(FrameAt(w, i)) > MaxEncoded PROVE FALSE
  BY DEF Overlong
<1> DEFINE D == Delimiters(w)
           s == Nth(D, 2 * i - 1)
           e == Nth(D, 2 * i)
           L == Len(w)
<1>1. /\ L \in Nat /\ D \in SUBSET (1..L) /\ D \in SUBSET Nat /\ MaxEncoded \in Nat
  <2>1. L \in Nat /\ D \in SUBSET (1..L)
    BY DelimitersFinite
  <2> HIDE DEF D, L
  <2> QED
    BY <2>1, UpToBounds, FrameAssumption DEF MaxEncoded
<1>2. /\ s \in 1..L /\ e \in 1..L /\ s < e /\ s \in D /\ e \in D
      /\ Len(FrameAt(w, i)) = e - s + 1
      /\ 2 * i - 1 \in 1..Cardinality(D) /\ 2 * i \in 1..Cardinality(D)
  BY FrameAtProperties
<1>3. Cardinality(UpTo(D, s)) = 2 * i - 1 /\ Cardinality(UpTo(D, e)) = 2 * i
  <2> HIDE DEF D
  <2> QED
    BY <1>1, <1>2, NthProperties
<1>4. i \in Nat /\ i >= 1
  BY DelimitersFinite DEF Pairs
<1> HIDE DEF D, s, e, L
<1>5. s \in Nat /\ e \in Nat /\ s - 1 \in Nat /\ (s - 1) + 1 = s /\ s \in Nat \ {0} /\ s \in 1..Len(w)
  BY <1>1, <1>2 DEF L
<1>6. Cardinality(Before(w, s)) % 2 = 0
  <2>1. Cardinality(UpTo(D, s)) = Cardinality(UpTo(D, s - 1)) + 1 /\ Cardinality(UpTo(D, s - 1)) \in Nat
    BY <1>1, <1>2, <1>5, CountUpTo
  <2>2. Before(w, s) = UpTo(D, s - 1)
    BY <1>5, BeforeRank DEF D
  <2>3. Cardinality(Before(w, s)) = 2 * (i - 1)
    BY <1>3, <1>4, <2>1, <2>2
  <2> QED
    BY <1>4, <2>3
<1>7. PICK j \in (s + 1)..(s + MaxEncoded - 1) : j \in D
  BY <1>5, <1>6 DEF WholeFrames, D
<1>8. j \in Nat /\ s < j /\ j <= s + MaxEncoded - 1
  BY <1>1, <1>5, <1>7
<1>9. ~(j < e)
  <2> SUFFICES ASSUME j < e PROVE FALSE
    OBVIOUS
  <2>1. Cardinality(UpTo(D, s)) < Cardinality(UpTo(D, j))
    BY <1>1, <1>5, <1>7, <1>8, RankIncreases
  <2>2. Cardinality(UpTo(D, j)) < Cardinality(UpTo(D, e))
    BY <1>1, <1>2, <1>8, RankIncreases
  <2>3. Cardinality(UpTo(D, j)) \in Nat
    BY <1>1, <1>8, CountUpTo
  <2> QED
    BY <1>3, <1>4, <2>1, <2>2, <2>3
<1> QED
  BY <1>1, <1>2, <1>5, <1>8, <1>9

-----------------------------------------------------------------------------
(* One frame.                                                              *)

(* A frame is complete at its last byte and never before.                  *)
LEMMA FrameAlone ==
  ASSUME NEW f, IsFrame(f)
  PROVE  /\ Delimiters(f) = {1, Len(f)}
         /\ FrameCount(f) = 1
         /\ \A n \in 0..(Len(f) - 1) : ~HasCompleteFrame(SubSeq(f, 1, n))
<1> DEFINE L == Len(f)
<1>1. /\ f \in Bytes /\ L \in Nat /\ L >= 3 /\ DOMAIN f = 1..L
      /\ \A k \in 1..L : f[k] = Delimiter <=> k \in {1, L}
  <2>1. f \in Bytes /\ L \in 3..MaxEncoded /\ \A k \in 1..L : f[k] = Delimiter <=> k \in {1, L}
    BY DEF IsFrame
  <2>2. L \in Nat /\ DOMAIN f = 1..L
    BY <2>1, DelimitersFinite
  <2> HIDE DEF L
  <2> QED
    BY <2>1, <2>2
<1> HIDE DEF L
<1>2. Delimiters(f) = {1, L}
  BY <1>1 DEF Delimiters
<1>3. FrameCount(f) = 1
  <2> DEFINE T == {j \in Delimiters(f) : (\E i \in Delimiters(f) : i < j) /\ f[j - 1] # Delimiter}
  <2>1. ~(\E i \in {1, L} : i < 1) /\ 1 < L /\ L - 1 \in 1..L /\ L - 1 \notin {1, L}
    BY <1>1
  <2>2. T = {L}
    BY <1>1, <1>2, <2>1
  <2>3. Cardinality({L}) = 1
    BY FS_Singleton
  <2> QED
    BY <2>2, <2>3 DEF FrameCount
<1>4. ASSUME NEW n \in 0..(L - 1) PROVE ~HasCompleteFrame(SubSeq(f, 1, n))
  <2> DEFINE g == SubSeq(f, 1, n)
  <2>1. n \in Nat /\ n < L
    BY <1>1
  <2>2. g \in Bytes /\ Len(g) = n /\ \A i \in 1..n : g[i] = f[i]
    BY <1>1, <2>1, SubSeqProperties DEF Bytes
  <2> HIDE DEF g
  <2>3. DOMAIN g = 1..n
    BY <2>2, DelimitersFinite
  <2>4. Delimiters(g) \in SUBSET {1}
    <3> SUFFICES ASSUME NEW k \in 1..n, g[k] = Delimiter PROVE k = 1
      BY <2>3 DEF Delimiters
    <3>1. k \in 1..L /\ k # L /\ f[k] = Delimiter
      <4>1. k \in Nat /\ 1 <= k /\ k <= n
        BY <2>1
      <4>2. k \in 1..L /\ k # L
        BY <1>1, <2>1, <4>1
      <4> QED
        BY <2>2, <4>2
    <3>2. k \in {1, L}
      BY <1>1, <3>1
    <3> QED
      BY <3>1, <3>2
  <2>5. Cardinality(Delimiters(g)) <= 1
    <3>1. IsFiniteSet({1}) /\ Cardinality({1}) = 1
      BY FS_Singleton
    <3>2. Cardinality(Delimiters(g)) <= Cardinality({1})
      BY <2>4, <3>1, FS_Subset
    <3> QED
      BY <3>1, <3>2
  <2>6. Cardinality(Delimiters(g)) \in Nat
    BY <2>2, DelimitersFinite
  <2> QED
    BY <2>5, <2>6 DEF HasCompleteFrame, g
<1> QED
  BY <1>2, <1>3, <1>4 DEF L

LEMMA Cancel ==
  ASSUME NEW a \in Bytes, NEW b \in Bytes, NEW c \in Bytes, a \o b = a \o c
  PROVE  b = c
<1>1. \A s, t, v \in Seq(AnyByte) : s \o t = s \o v => t = v
  BY ConcatSimplifications
<1>2. a \in Seq(AnyByte) /\ b \in Seq(AnyByte) /\ c \in Seq(AnyByte)
  BY DEF Bytes
<1> QED
  BY <1>1, <1>2

(* f is the beginning of q.                                                *)
BeginsWith(q, f) == \E r \in Bytes : q = f \o r

(* What a reader holds of a stream that goes on with a frame begins with   *)
(* that frame as soon as it holds two delimiters.                          *)
LEMMA HeadOfStream ==
  ASSUME NEW q \in Bytes, NEW w \in Bytes, NEW y \in Bytes, NEW f, IsFrame(f),
         q \o w = f \o y, HasCompleteFrame(q)
  PROVE  BeginsWith(q, f)
<1> DEFINE n == Len(q)
           L == Len(f)
<1>1. f \in Bytes
  BY DEF IsFrame
<1>2. n \in Nat /\ L \in Nat /\ L >= 3
  <2>1. L \in 3..MaxEncoded
    BY DEF IsFrame
  <2>2. n \in Nat /\ L \in Nat
    BY <1>1, EmptyBytes
  <2> HIDE DEF n, L
  <2> QED
    BY <2>1, <2>2
<1>3. n >= L
  <2> SUFFICES ASSUME n < L PROVE FALSE
    BY <1>2
  <2>1. q = SubSeq(f, 1, n)
    <3>1. CASE n = 0
      <4>1. q = <<>>
        BY <3>1, EmptyBytes
      <4>2. SubSeq(f, 1, 0) = <<>>
        BY SubSeqEmpty
      <4> QED
        BY <3>1, <4>1, <4>2
    <3>2. CASE n # 0
      <4>1. 1 \in 1..n /\ n \in 1..n /\ 1 <= n /\ 1 \in 1..L /\ n \in 1..L
        BY <1>2, <3>2
      <4>2. SubSeq(q \o w, 1, n) = SubSeq(q, 1, n)
        BY <4>1, ConcatSubSeq
      <4>3. SubSeq(f \o y, 1, n) = SubSeq(f, 1, n)
        BY <1>1, <4>1, ConcatSubSeq
      <4>4. SubSeq(q, 1, n) = q
        BY SubSeqFull DEF Bytes
      <4> QED
        BY <4>2, <4>3, <4>4
    <3> QED
      BY <3>1, <3>2
  <2>2. n \in 0..(L - 1)
    BY <1>2
  <2>3. ~HasCompleteFrame(SubSeq(f, 1, n))
    BY <2>2, FrameAlone
  <2> QED
    BY <2>1, <2>3
<1> DEFINE r == SubSeq(q, L + 1, n)
<1>4. /\ r \in Bytes /\ Len(r) = (IF L < n THEN n - L ELSE 0)
      /\ SubSeq(q, 1, n - Len(r)) \o r = q
  BY <1>2, CutProperties
<1>5. n - Len(r) = L
  <2> DEFINE k == Len(r)
  <2>1. k = IF L < n THEN n - L ELSE 0
    BY <1>4
  <2> HIDE DEF k, n, L
  <2>2. n - k = L
    BY <1>2, <1>3, <2>1
  <2> QED
    BY <2>2 DEF k
<1>6. SubSeq(q, 1, L) = f
  <2>1. 1 \in 1..n /\ L \in 1..n /\ 1 <= L /\ 1 \in 1..L /\ L \in 1..L
    BY <1>2, <1>3
  <2>2. SubSeq(q \o w, 1, L) = SubSeq(q, 1, L)
    BY <2>1, ConcatSubSeq
  <2>3. SubSeq(f \o y, 1, L) = SubSeq(f, 1, L)
    BY <1>1, <2>1, ConcatSubSeq
  <2>4. SubSeq(f, 1, L) = f
    BY <1>1, SubSeqFull DEF Bytes
  <2> QED
    BY <2>2, <2>3, <2>4
<1>7. q = f \o r
  BY <1>4, <1>5, <1>6
<1> QED
  BY <1>4, <1>7 DEF BeginsWith

(* The concatenation of the first strings of a list begins that of all.    *)
LEMMA FlattenSplit ==
  ASSUME NEW s \in Seq(Bytes), NEW k \in 0..Len(s)
  PROVE  \E y \in Bytes : FlattenSeq(s) = FlattenSeq(SubSeq(s, 1, k)) \o y
<1> DEFINE H(i) == FlattenSeq(SubSeq(s, 1, i))
           Good(i) == \E y \in Bytes : H(i) = H(k) \o y
           T == {i \in Nat : k <= i /\ i <= Len(s) /\ ~Good(i)}
<1>1. Len(s) \in Nat /\ k \in Nat /\ k <= Len(s)
  OBVIOUS
<1>2. \A i \in 0..Len(s) : SubSeq(s, 1, i) \in Seq(Bytes) /\ H(i) \in Bytes
  <2> SUFFICES ASSUME NEW i \in 0..Len(s) PROVE SubSeq(s, 1, i) \in Seq(Bytes) /\ H(i) \in Bytes
    OBVIOUS
  <2>1. SubSeq(s, 1, i) \in Seq(Bytes)
    <3>1. CASE i = 0
      BY <3>1, SubSeqEmpty, EmptySeq
    <3>2. CASE i # 0
      <4>1. \A j \in 1..i : s[j] \in Bytes
        BY <1>1, ElementOfSeq
      <4> QED
        BY <1>1, <3>2, <4>1, SubSeqProperties
    <3> QED
      BY <3>1, <3>2
  <2> QED
    BY <2>1, FlattenAppend
<1>3. \A i \in Nat : i < Len(s) => \E x \in Bytes : H(i + 1) = H(i) \o x
  <2> SUFFICES ASSUME NEW i \in Nat, i < Len(s) PROVE \E x \in Bytes : H(i + 1) = H(i) \o x
    OBVIOUS
  <2>1. i + 1 \in 1..Len(s) /\ 1 \in 1..Len(s) /\ i \in 0..Len(s) /\ i + 1 - 1 = i /\ 1 <= i + 1
    BY <1>1
  <2>2. s[i + 1] \in Bytes
    BY <2>1, ElementOfSeq
  <2>3. SubSeq(s, 1, i + 1) = SubSeq(s, 1, i) \o <<s[i + 1]>>
    BY <2>1, SubSeqRecursiveSecond
  <2>4. SubSeq(s, 1, i) \in Seq(Bytes)
    BY <1>2, <2>1
  <2>5. SubSeq(s, 1, i + 1) = Append(SubSeq(s, 1, i), s[i + 1])
    BY <2>2, <2>3, <2>4, AppendIsConcat
  <2>6. H(i + 1) = H(i) \o s[i + 1]
    BY <2>2, <2>4, <2>5, FlattenAppend
  <2> QED
    BY <2>2, <2>6
<1> HIDE DEF H
<1>4. T = {}
  <2> SUFFICES ASSUME T # {} PROVE FALSE
    OBVIOUS
  <2>1. T \in SUBSET Nat
    OBVIOUS
  <2> HIDE DEF T
  <2>2. PICK i \in T : \A j \in T : i <= j
    BY <2>1, LeastElement
  <2>3. i \in Nat /\ k <= i /\ i <= Len(s) /\ ~Good(i)
    BY <2>2 DEF T
  <2>4. i # k
    <3>1. H(k) \in Bytes
      BY <1>2
    <3>2. H(k) = H(k) \o <<>> /\ <<>> \in Bytes
      BY <3>1, EmptyBytes
    <3> QED
      BY <2>3, <3>2
  <2>5. i - 1 \in Nat /\ k <= i - 1 /\ i - 1 < Len(s) /\ (i - 1) + 1 = i /\ i - 1 <= Len(s) /\ ~(i <= i - 1)
    BY <1>1, <2>3, <2>4
  <2>6. Good(i - 1)
    BY <2>2, <2>5 DEF T
  <2>7. PICK y \in Bytes : H(i - 1) = H(k) \o y
    BY <2>6
  <2>8. PICK x \in Bytes : H(i) = H(i - 1) \o x
    <3>1. \E x \in Bytes : H((i - 1) + 1) = H(i - 1) \o x
      BY <1>3, <2>5
    <3> QED
      BY <2>5, <3>1
  <2>9. H(i) = H(k) \o (y \o x) /\ y \o x \in Bytes
    <3>1. H(k) \in Bytes
      BY <1>2
    <3> DEFINE h == H(k)
    <3>2. h \in Bytes
      BY <3>1
    <3> HIDE DEF h
    <3>3. (h \o y) \o x = h \o (y \o x) /\ y \o x \in Bytes
      BY <3>2, Assoc
    <3> QED
      BY <2>7, <2>8, <3>3 DEF h
  <2> QED
    BY <2>3, <2>9
<1>5. Good(Len(s))
  BY <1>1, <1>4
<1>6. SubSeq(s, 1, Len(s)) = s
  BY SubSeqFull
<1> QED
  BY <1>5, <1>6 DEF H

-----------------------------------------------------------------------------
(* Streams of which pieces of frames are missing: still nothing but        *)
(* frames, some of them shorter than they were sent.                       *)

(* One frame, of any length.                                               *)
Enclosed(c) == c \in Bytes /\ Len(c) \in Nat /\ Len(c) >= 2 /\ Delimiters(c) = {1, Len(c)}

LEMMA PrefixOfConcat ==
  ASSUME NEW a \in Bytes, NEW b \in Bytes
  PROVE  /\ Prefix(a \o b, Len(a)) = a /\ Suffix(a \o b, Len(a)) = b
         /\ \A k \in Nat : k <= Len(a) => Prefix(a \o b, k) = Prefix(a, k)
         /\ \A k \in Nat : Prefix(a \o b, Len(a) + k) = a \o Prefix(b, k)
<1> DEFINE g == a \o b
           n == Len(a)
           l == Len(b)
<1>1. n \in Nat /\ l \in Nat /\ g \in Bytes /\ Len(g) = n + l
  BY Assoc, EmptyBytes
<1>2. ASSUME NEW k \in Nat, k <= n PROVE Prefix(g, k) = Prefix(a, k)
  <2>1. Prefix(g, k) = SubSeq(g, 1, k) /\ Prefix(a, k) = SubSeq(a, 1, k)
    <3>1. AtMost(k, Len(g)) = k /\ AtMost(k, Len(a)) = k
      <4> HIDE DEF g, n, l
      <4>1. AtMost(k, n + l) = k /\ AtMost(k, n) = k
        BY <1>1, <1>2 DEF AtMost
      <4> QED
        BY <1>1, <4>1 DEF n
    <3> QED
      BY <3>1 DEF Prefix
  <2>2. CASE k = 0
    BY <2>1, <2>2, SubSeqEmpty
  <2>3. CASE k # 0
    <3>1. 1 \in 1..n /\ k \in 1..n /\ 1 <= k
      BY <1>1, <1>2, <2>3
    <3> QED
      BY <2>1, <3>1, ConcatSubSeq
  <2> QED
    BY <2>2, <2>3
<1>3. Prefix(a, n) = a
  BY <1>1, SubSeqFull DEF Prefix, AtMost, Bytes
<1>4. ASSUME NEW k \in Nat PROVE Prefix(g, n + k) = a \o Prefix(b, k)
  <2> DEFINE p == Prefix(b, k)
             t == Suffix(b, k)
  <2>1. p \in Bytes /\ t \in Bytes /\ p \o t = b /\ Len(p) = AtMost(k, l)
    BY PrefixSuffix
  <2>2. AtMost(k, l) \in Nat /\ AtMost(n + k, n + l) = n + AtMost(k, l)
    BY <1>1 DEF AtMost
  <2> DEFINE h == a \o p
  <2> HIDE DEF p, t, l, g
  <2>3. h \in Bytes /\ Len(h) = n + AtMost(k, l) /\ h \o t = g
    <3>1. p \in Bytes /\ t \in Bytes
      BY <2>1
    <3>2. (a \o p) \o t = a \o (p \o t) /\ a \o p \in Bytes /\ Len(a \o p) = Len(a) + Len(p)
      BY <3>1, Assoc
    <3>3. h \o t = g
      BY <2>1, <3>2 DEF g
    <3>4. h \in Bytes
      BY <3>2
    <3>5. Len(h) = n + AtMost(k, l)
      BY <2>1, <3>2
    <3> QED
      BY <3>3, <3>4, <3>5
  <2> DEFINE j == n + AtMost(k, l)
  <2>4. j \in Nat
    BY <1>1, <2>2
  <2>5. Prefix(g, n + k) = SubSeq(g, 1, j)
    BY <1>1, <2>2 DEF Prefix
  <2> HIDE DEF j, h, n
  <2>6. SubSeq(g, 1, j) = h
    <3>1. CASE j = 0
      <4>1. h = <<>>
        BY <2>3, <3>1, EmptyBytes DEF j
      <4> QED
        BY <3>1, <4>1, SubSeqEmpty
    <3>2. CASE j # 0
      <4>1. j = Len(h)
        BY <2>3 DEF j
      <4>2. 1 \in 1..j /\ j \in 1..j /\ 1 <= j
        BY <2>4, <3>2
      <4>3. SubSeq(h \o t, 1, j) = SubSeq(h, 1, j)
        BY <2>1, <2>3, <4>1, <4>2, ConcatSubSeq
      <4>4. SubSeq(h, 1, j) = h
        BY <2>3, <4>1, SubSeqFull DEF Bytes
      <4> QED
        BY <2>3, <4>3, <4>4
    <3> QED
      BY <3>1, <3>2
  <2> QED
    BY <2>5, <2>6 DEF h, p
<1>5. Suffix(g, n) = b
  <2>1. n <= n /\ Prefix(g, n) = a
    BY <1>1, <1>2, <1>3
  <2>2. Suffix(g, n) \in Bytes /\ Prefix(g, n) \o Suffix(g, n) = g
    BY <1>1, PrefixSuffix
  <2> DEFINE t == Suffix(g, n)
  <2>3. t \in Bytes /\ a \o t = a \o b
    BY <2>1, <2>2
  <2> HIDE DEF t
  <2>4. t = b
    BY <2>3, Cancel
  <2> QED
    BY <2>4 DEF t
<1>6. n <= n
  BY <1>1
<1> QED
  BY <1>1, <1>2, <1>3, <1>4, <1>5, <1>6

(* Two streams of frames make one, and one falls apart at a boundary.      *)
LEMMA OnlyFramesConcat ==
  ASSUME NEW a \in Bytes, NEW b \in Bytes, AtBoundary(a)
  PROVE  OnlyFrames(a \o b) <=> OnlyFrames(a) /\ OnlyFrames(b)
<1> DEFINE g == a \o b
           n == Len(a)
           l == Len(b)
<1>1. /\ n \in Nat /\ l \in Nat /\ g \in Bytes /\ Len(g) = n + l
      /\ \A k \in 1..n : g[k] = a[k]
      /\ \A k \in 1..l : g[n + k] = b[k]
  BY ConcatAt, EmptyBytes
<1>2. AtBoundary(g) <=> AtBoundary(b)
  BY PairsConcat
<1>3. ASSUME NEW k \in 1..n
      PROVE  Prefix(g, k - 1) = Prefix(a, k - 1)
  <2>1. k - 1 \in Nat /\ k - 1 <= n
    BY <1>1
  <2> QED
    BY <2>1, PrefixOfConcat
<1>4. ASSUME NEW k \in 1..l
      PROVE  AtBoundary(Prefix(g, (n + k) - 1)) <=> AtBoundary(Prefix(b, k - 1))
  <2>1. k - 1 \in Nat /\ (n + k) - 1 = n + (k - 1)
    BY <1>1
  <2>2. Prefix(g, (n + k) - 1) = a \o Prefix(b, k - 1)
    BY <2>1, PrefixOfConcat
  <2>3. Prefix(b, k - 1) \in Bytes
    BY <2>1, PrefixSuffix
  <2> QED
    BY <2>2, <2>3, PairsConcat
<1> HIDE DEF g, n, l
<1> DEFINE P(q, k) == AtBoundary(Prefix(q, k - 1)) => q[k] = Delimiter
<1>5. \A k \in 1..n : P(g, k) <=> P(a, k)
  BY <1>1, <1>3
<1>6. \A k \in 1..l : P(g, n + k) <=> P(b, k)
  BY <1>1, <1>4
<1> HIDE DEF P
<1>7. (\A k \in 1..(n + l) : P(g, k)) <=> (\A k \in 1..n : P(a, k)) /\ (\A k \in 1..l : P(b, k))
  <2>1. \A k \in 1..n : k \in 1..(n + l)
    BY <1>1
  <2>2. \A k \in 1..l : n + k \in 1..(n + l)
    BY <1>1
  <2>3. \A k \in 1..(n + l) : k \in 1..n \/ (k - n \in 1..l /\ n + (k - n) = k)
    BY <1>1
  <2> QED
    BY <1>5, <1>6, <2>1, <2>2, <2>3
<1>8. /\ OnlyFrames(g) <=> AtBoundary(g) /\ \A k \in 1..(n + l) : P(g, k)
      /\ OnlyFrames(a) <=> AtBoundary(a) /\ \A k \in 1..n : P(a, k)
      /\ OnlyFrames(b) <=> AtBoundary(b) /\ \A k \in 1..l : P(b, k)
  BY <1>1 DEF OnlyFrames, P, n, l
<1> QED
  BY <1>2, <1>7, <1>8 DEF g

(* At a boundary the next frame begins, if anything follows.               *)
LEMMA OnlyFramesNext ==
  ASSUME NEW a \in Bytes, NEW q \in Bytes, AtBoundary(a), OnlyFrames(a \o q), q # <<>>
  PROVE  q[1] = Delimiter /\ HasCompleteFrame(q)
<1> DEFINE l == Len(q)
           c == Cardinality(Delimiters(q))
<1>1. l \in Nat /\ 1 \in 1..l
  <2>1. l \in Nat /\ l # 0
    BY EmptyBytes
  <2> HIDE DEF l
  <2> QED
    BY <2>1
<1>2. OnlyFrames(q)
  BY OnlyFramesConcat
<1>3. AtBoundary(Prefix(q, 1 - 1))
  <2>1. Prefix(q, 1 - 1) = <<>>
    <3>1. AtMost(1 - 1, l) = 0
      BY <1>1 DEF AtMost
    <3> QED
      BY <3>1, SubSeqEmpty DEF Prefix
  <2>2. Delimiters(<<>>) = {} /\ Cardinality({}) = 0 /\ 0 % 2 = 0
    BY FS_EmptySet, EmptyBytes DEF Delimiters
  <2> QED
    BY <2>1, <2>2 DEF AtBoundary
<1>4. q[1] = Delimiter
  BY <1>1, <1>2, <1>3 DEF OnlyFrames
<1>5. c \in Nat /\ c % 2 = 0 /\ c # 0
  <2>1. c \in Nat /\ IsFiniteSet(Delimiters(q))
    BY DelimitersFinite
  <2>2. 1 \in Delimiters(q)
    BY <1>1, <1>4, DelimitersFinite DEF Delimiters
  <2>3. c # 0
    BY <2>1, <2>2, FS_EmptySet
  <2> QED
    BY <1>2, <2>1, <2>3 DEF OnlyFrames, AtBoundary
<1> HIDE DEF c
<1>6. c >= 2
  BY <1>5
<1> QED
  BY <1>4, <1>6 DEF c, HasCompleteFrame

LEMMA EnclosedFrame ==
  ASSUME NEW c, Enclosed(c)
  PROVE  /\ Cardinality(Delimiters(c)) = 2 /\ AtBoundary(c) /\ OnlyFrames(c)
         /\ Pairs(c) = 1..1 /\ FrameAt(c, 1) = c
         /\ Nth(Delimiters(c), 2) = Len(c)
<1> DEFINE L == Len(c)
           D == Delimiters(c)
<1>1. c \in Bytes /\ L \in Nat /\ L >= 2 /\ D = {1, L}
  BY DEF Enclosed
<1>2. Cardinality({1, L}) = 2 /\ Cardinality({1}) = 1
  <2> HIDE DEF L
  <2>1. 1 # L
    BY <1>1
  <2>2. IsFiniteSet({1}) /\ Cardinality({1}) = 1
    BY FS_Singleton
  <2>3. {1} \cup {L} = {1, L} /\ L \notin {1}
    BY <2>1
  <2>4. Cardinality({1} \cup {L}) = Cardinality({1}) + 1
    BY <2>2, <2>3, FS_AddElement
  <2> QED
    BY <2>2, <2>3, <2>4
<1>3. Cardinality(D) = 2 /\ 2 % 2 = 0 /\ 2 \div 2 = 1 /\ 1 % 2 # 0
  BY <1>1, <1>2
<1>4. D \in SUBSET Nat /\ 1 \in D /\ L \in D
  BY <1>1
<1>5. UpTo(D, 1) = {1} /\ UpTo(D, L) = {1, L}
  BY <1>1 DEF UpTo
<1> HIDE DEF D, L
<1>6. Nth(D, 1) = 1 /\ Nth(D, 2) = L
  BY <1>2, <1>4, <1>5, NthRank
<1>7. FrameAt(c, 1) = c
  <2>1. 2 * 1 - 1 = 1 /\ 2 * 1 = 2
    OBVIOUS
  <2>2. SubSeq(c, 1, L) = c
    BY <1>1, SubSeqFull DEF Bytes, L
  <2> QED
    BY <1>6, <2>1, <2>2 DEF FrameAt, D
<1>8. AtBoundary(c) /\ Pairs(c) = 1..1
  BY <1>3 DEF AtBoundary, Pairs, D
<1>9. ASSUME NEW k \in 1..L, AtBoundary(Prefix(c, k - 1)) PROVE c[k] = Delimiter
  <2>1. CASE k = 1
    BY <1>1, <1>4, <2>1 DEF Delimiters, D
  <2>2. CASE k # 1
    <3> DEFINE p == Prefix(c, k - 1)
    <3>1. k - 1 \in Nat /\ k - 1 \in 1..L /\ AtMost(k - 1, L) = k - 1 /\ L \notin 1..(k - 1) /\ 1 \in 1..(k - 1)
      BY <1>1, <2>2 DEF AtMost
    <3>2. p \in Bytes /\ Len(p) = k - 1 /\ p \o Suffix(c, k - 1) = c /\ Suffix(c, k - 1) \in Bytes
      BY <1>1, <3>1, PrefixSuffix DEF L
    <3> DEFINE s == Suffix(c, k - 1)
    <3> HIDE DEF p, s
    <3>3. \A i \in 1..(k - 1) : i \in Delimiters(p \o s) <=> i \in Delimiters(p)
      BY <3>2, ConcatDelimiters DEF s
    <3>4. \A i \in 1..(k - 1) : i \in D <=> i \in Delimiters(p)
      BY <3>2, <3>3 DEF D, s
    <3>5. Delimiters(p) \in SUBSET (1..(k - 1))
      BY <3>2, DelimitersFinite
    <3>6. Delimiters(p) = {1}
      BY <1>1, <3>1, <3>4, <3>5
    <3>7. ~AtBoundary(p)
      BY <1>2, <1>3, <3>6 DEF AtBoundary
    <3> QED
      BY <1>9, <3>7 DEF p
  <2> QED
    BY <2>1, <2>2
<1>10. OnlyFrames(c)
  BY <1>8, <1>9 DEF OnlyFrames, L
<1> QED
  BY <1>3, <1>6, <1>7, <1>8, <1>10 DEF D, L

(* The frames of a stream with one frame in the middle of it.              *)
LEMMA FrameBetween ==
  ASSUME NEW a \in Bytes, AtBoundary(a), NEW c, Enclosed(c), NEW t \in Bytes
  PROVE  LET m == Cardinality(Delimiters(a)) \div 2
             k == Cardinality(Delimiters(t)) \div 2
             v == (a \o c) \o t
         IN  /\ m \in Nat /\ k \in Nat /\ v \in Bytes
             /\ Pairs(v) = 1..((m + 1) + k)
             /\ \A i \in 1..m : FrameAt(v, i) = FrameAt(a, i)
             /\ FrameAt(v, m + 1) = c
             /\ \A i \in 1..k : FrameAt(v, (m + 1) + i) = FrameAt(t, i)
             /\ OnlyFrames(v) <=> OnlyFrames(a) /\ OnlyFrames(t)
<1> DEFINE m == Cardinality(Delimiters(a)) \div 2
           k == Cardinality(Delimiters(t)) \div 2
           g == a \o c
           h == Cardinality(Delimiters(g)) \div 2
           o == Cardinality(Delimiters(c)) \div 2
<1>1. c \in Bytes /\ g \in Bytes /\ g \o t \in Bytes
  BY Assoc DEF Enclosed
<1>2. /\ Cardinality(Delimiters(c)) = 2 /\ AtBoundary(c) /\ OnlyFrames(c) /\ FrameAt(c, 1) = c
      /\ 2 \div 2 = 1
  BY EnclosedFrame
<1>3. o = 1
  BY <1>2
<1>4. /\ m \in Nat
      /\ \A i \in 1..m : FrameAt(g, i) = FrameAt(a, i)
      /\ Pairs(g) = 1..(m + o)
      /\ \A i \in 1..o : FrameAt(g, m + i) = FrameAt(c, i)
      /\ AtBoundary(g)
  BY <1>1, <1>2, PairsConcat
<1>5. h = m + 1
  <2>1. Cardinality(Delimiters(g)) = Cardinality(Delimiters(a)) + 2
    BY <1>1, <1>2, ConcatDelimiters
  <2>2. Cardinality(Delimiters(a)) \in Nat
    BY DelimitersFinite
  <2> DEFINE x == Cardinality(Delimiters(a))
  <2> HIDE DEF x
  <2>3. x \in Nat /\ h = (x + 2) \div 2 /\ m = x \div 2
    BY <2>1, <2>2 DEF x
  <2> HIDE DEF h, m
  <2>4. (x + 2) \div 2 = (x \div 2) + 1
    BY <2>3
  <2> QED
    BY <2>3, <2>4
<1>6. /\ k \in Nat
      /\ \A i \in 1..h : FrameAt(g \o t, i) = FrameAt(g, i)
      /\ Pairs(g \o t) = 1..(h + k)
      /\ \A i \in 1..k : FrameAt(g \o t, h + i) = FrameAt(t, i)
  BY <1>1, <1>4, PairsConcat
<1>7. OnlyFrames(g \o t) <=> OnlyFrames(a) /\ OnlyFrames(t)
  BY <1>1, <1>2, <1>4, OnlyFramesConcat
<1> HIDE DEF m, k, g, h, o
<1>8. (\A i \in 1..m : i \in 1..h) /\ m + 1 \in 1..h /\ 1 \in 1..o
  BY <1>3, <1>4, <1>5
<1>9. FrameAt(g \o t, m + 1) = c
  BY <1>2, <1>4, <1>6, <1>8
<1>10. \A i \in 1..m : FrameAt(g \o t, i) = FrameAt(a, i)
  BY <1>4, <1>6, <1>8
<1> QED
  BY <1>1, <1>4, <1>5, <1>6, <1>7, <1>9, <1>10 DEF m, k, g

(* Where only frames follow, the cut is the next frame and nothing else.   *)
LEMMA CutNext ==
  ASSUME NEW a \in Bytes, NEW q \in Bytes, AtBoundary(a), OnlyFrames(a \o q), q # <<>>,
         Len(FrameAt(q, 1)) <= MaxEncoded
  PROVE  LET cut == ReadFrame(q, MaxEncoded)
         IN  /\ Len(cut.frame) <= MaxEncoded
             /\ cut.frame \o cut.rest = q
<1> DEFINE D == Delimiters(q)
           e == Nth(D, 2)
           c == SubSeq(q, 1, e)
           r == SubSeq(q, e + 1, Len(q))
           f == FrameAt(q, 1)
           cut == ReadFrame(q, MaxEncoded)
<1>1. q[1] = Delimiter /\ HasCompleteFrame(q)
  BY OnlyFramesNext
<1>2. c \o r = q /\ cut = [status |-> "OK", frame |-> f, rest |-> r]
  BY <1>1, FirstPair
<1>3. f = c
  <2>1. 1 \in D /\ D \in SUBSET (Nat \ {0}) /\ D \in SUBSET Nat
    <3>1. Len(q) \in Nat /\ Len(q) # 0 /\ DOMAIN q = 1..Len(q) /\ D \in SUBSET (1..Len(q))
      BY DelimitersFinite, EmptyBytes
    <3>2. 1 \in DOMAIN q
      BY <3>1
    <3>3. D \in SUBSET (Nat \ {0})
      BY <3>1, UpToBounds
    <3> QED
      BY <1>1, <3>2, <3>3 DEF Delimiters
  <2> HIDE DEF D
  <2>2. UpTo(D, 1) = {1}
    <3>1. \A j \in Nat \ {0} : j <= 1 <=> j = 1
      OBVIOUS
    <3>2. \A j \in D : j <= 1 <=> j = 1
      BY <2>1, <3>1
    <3> QED
      BY <2>1, <3>2 DEF UpTo
  <2>3. Cardinality({1}) = 1
    BY FS_Singleton
  <2>4. Nth(D, 1) = 1
    BY <2>1, <2>2, <2>3, NthRank
  <2>5. 2 * 1 - 1 = 1 /\ 2 * 1 = 2
    OBVIOUS
  <2>6. f = SubSeq(q, Nth(D, 2 * 1 - 1), Nth(D, 2 * 1))
    BY DEF FrameAt, D
  <2> QED
    BY <2>4, <2>5, <2>6
<1> HIDE DEF c, r, f
<1>4. cut.frame = f /\ cut.rest = r
  <2> HIDE DEF cut
  <2> QED
    BY <1>2
<1> QED
  BY <1>2, <1>3, <1>4 DEF f

(* The last delimiter of a stream that ends inside a frame.                *)
LEMMA OpenFrame ==
  ASSUME NEW a \in Bytes, ~AtBoundary(a)
  PROVE  \E z \in Bytes, p \in Bytes :
           /\ a = z \o p /\ AtBoundary(z)
           /\ p # <<>> /\ Delimiters(p) = {1}
<1> DEFINE D == Delimiters(a)
           c == Cardinality(D)
           e == Nth(D, c)
           L == Len(a)
<1>1. L \in Nat /\ D \in SUBSET (1..L) /\ c \in Nat /\ DOMAIN a = 1..L
  BY DelimitersFinite
<1>2. c % 2 = 1
  <2>1. c % 2 # 0
    BY DEF AtBoundary
  <2> HIDE DEF c
  <2> QED
    BY <1>1, <2>1
<1>3. c \in 1..c
  <2> HIDE DEF c
  <2> QED
    BY <1>1, <1>2
<1>4. e \in D /\ Cardinality(UpTo(D, e)) = c
  <2> HIDE DEF D, L
  <2> QED
    BY <1>1, <1>3, NthProperties
<1>5. e \in 1..L /\ a[e] = Delimiter
  BY <1>1, <1>4 DEF Delimiters
<1> DEFINE n == e - 1
           z == SubSeq(a, 1, n)
           p == SubSeq(a, n + 1, L)
<1> HIDE DEF e
<1>6. n \in Nat /\ n + 1 = e /\ n < L
  BY <1>1, <1>5
<1> HIDE DEF n
<1>7. /\ p \in Bytes /\ Len(p) = L - n /\ z \in Bytes /\ Len(z) = n /\ z \o p = a
  <2>1. /\ p \in Bytes /\ Len(p) = L - n
        /\ SubSeq(a, 1, L - Len(p)) \in Bytes /\ Len(SubSeq(a, 1, L - Len(p))) = L - Len(p)
        /\ SubSeq(a, 1, L - Len(p)) \o p = a
    BY <1>6, CutProperties
  <2> DEFINE l == Len(p)
  <2>2. l = L - n
    BY <2>1
  <2> HIDE DEF l, L
  <2>3. L - l = n
    BY <1>1, <1>6, <2>2
  <2> QED
    BY <2>1, <2>3 DEF l
<1> HIDE DEF z, p
<1>8. /\ \A k \in 1..Len(p) : Len(z) + k \in D <=> k \in Delimiters(p)
      /\ UpTo(D, n) = UpTo(Delimiters(z), n)
      /\ c = Cardinality(Delimiters(z)) + Cardinality(Delimiters(p))
  <2> DEFINE E == Delimiters(z \o p)
  <2>1. p \in Bytes /\ z \in Bytes /\ E = D
    BY <1>7
  <2>2. /\ \A k \in 1..Len(p) : Len(z) + k \in E <=> k \in Delimiters(p)
        /\ \A k \in Nat : k <= Len(z) => UpTo(E, k) = UpTo(Delimiters(z), k)
        /\ Cardinality(E) = Cardinality(Delimiters(z)) + Cardinality(Delimiters(p))
    BY <2>1, ConcatDelimiters
  <2>3. n \in Nat /\ n <= Len(z)
    BY <1>6, <1>7
  <2> HIDE DEF E, D
  <2> QED
    BY <2>1, <2>2, <2>3
<1>9. Cardinality(Delimiters(z)) + 1 = c
  <2>1. Delimiters(z) \in SUBSET (1..n) /\ Cardinality(Delimiters(z)) \in Nat
    BY <1>7, DelimitersFinite
  <2>2. UpTo(Delimiters(z), n) = Delimiters(z)
    BY <1>6, <2>1, UpToBounds
  <2>3. D \in SUBSET Nat
    BY <1>1, UpToBounds
  <2> HIDE DEF D, c
  <2>4. Cardinality(UpTo(D, n + 1)) = Cardinality(UpTo(D, n)) + 1
    BY <1>4, <1>6, <2>3, CountUpTo
  <2> QED
    BY <1>4, <1>6, <1>8, <2>1, <2>2, <2>4
<1>10. AtBoundary(z)
  <2> DEFINE x == Cardinality(Delimiters(z))
  <2>1. x \in Nat /\ x + 1 = c
    BY <1>7, <1>9, DelimitersFinite
  <2> HIDE DEF x, c
  <2>2. x % 2 = 0
    BY <1>2, <2>1
  <2> QED
    BY <2>2 DEF x, AtBoundary
<1>11. p # <<>> /\ 1 \in 1..Len(p)
  <2> DEFINE l == Len(p)
  <2>1. l = L - n
    BY <1>7
  <2> HIDE DEF l, L
  <2>2. l \in Nat /\ l # 0 /\ 1 \in 1..l
    BY <1>1, <1>6, <2>1
  <2> QED
    BY <2>2, EmptyBytes DEF l
<1>12. Delimiters(p) = {1}
  <2>1. 1 \in Delimiters(p)
    BY <1>4, <1>6, <1>7, <1>8, <1>11
  <2>2. IsFiniteSet(Delimiters(p)) /\ Cardinality(Delimiters(p)) \in Nat
    BY <1>7, DelimitersFinite
  <2>3. Cardinality(Delimiters(p)) = 1
    <3> DEFINE x == Cardinality(Delimiters(z))
               y == Cardinality(Delimiters(p))
    <3>1. x \in Nat /\ y \in Nat /\ c = x + y /\ x + 1 = c
      BY <1>7, <1>8, <1>9, <2>2, DelimitersFinite
    <3> HIDE DEF x, y, c
    <3>2. y = 1
      BY <3>1
    <3> QED
      BY <3>2 DEF y
  <2>4. Delimiters(p) \ {1} = {}
    <3>1. IsFiniteSet(Delimiters(p) \ {1}) /\ Cardinality(Delimiters(p) \ {1}) = Cardinality(Delimiters(p)) - 1
      BY <2>1, <2>2, FS_RemoveElement
    <3>2. Cardinality(Delimiters(p) \ {1}) = 0
      BY <2>3, <3>1
    <3> QED
      BY <3>1, <3>2, FS_EmptySet
  <2> QED
    BY <2>1, <2>4
<1> QED
  BY <1>7, <1>10, <1>11, <1>12

LEMMA HeadTail ==
  ASSUME NEW t \in Bytes, t # <<>>
  PROVE  /\ SubSeq(t, 2, Len(t)) \in Bytes
         /\ <<t[1]>> \in Bytes
         /\ t = <<t[1]>> \o SubSeq(t, 2, Len(t))
<1> DEFINE L == Len(t)
           r == SubSeq(t, 1 + 1, L)
<1>1. L \in Nat /\ L # 0
  BY EmptyBytes
<1>2. /\ r \in Bytes /\ Len(r) = IF 1 < L THEN L - 1 ELSE 0
      /\ SubSeq(t, 1, L - Len(r)) \o r = t
  BY CutProperties
<1>3. L - Len(r) = 1
  <2> DEFINE l == Len(r)
  <2>1. l = IF 1 < L THEN L - 1 ELSE 0
    BY <1>2
  <2> HIDE DEF l, L
  <2>2. L - l = 1
    BY <1>1, <2>1
  <2> QED
    BY <2>2 DEF l
<1> DEFINE h == SubSeq(t, 1, 1)
<1>4. h = <<t[1]>> /\ <<t[1]>> \in Bytes
  <2>1. 1 \in 1..L
    <3> HIDE DEF L
    <3> QED
      BY <1>1
  <2>2. t \in Seq(AnyByte) /\ t[1] \in AnyByte
    BY <2>1, ElementOfSeq DEF Bytes
  <2>3. <<t[1]>> \in Seq(AnyByte)
    BY <2>2
  <2>4. h \in Bytes /\ Len(h) = 1 /\ h[1] = t[1]
    <3>1. 1 - 1 + 1 = 1 /\ 1 <= 1 /\ 1 + 1 - 1 = 1
      OBVIOUS
    <3>2. Len(h) = 1 /\ h \in Seq(AnyByte)
      BY <2>1, <2>2, SubSeqProperties
    <3>3. h[1] = t[1]
      BY <2>1, <2>2, <3>1, SubSeqProperties
    <3> QED
      BY <3>2, <3>3 DEF Bytes
  <2> DEFINE b == t[1]
             o == <<b>>
  <2>5. Len(o) = 1 /\ o[1] = b
    OBVIOUS
  <2>6. o \in Seq(AnyByte) /\ h \in Seq(AnyByte) /\ \A k \in 1..1 : h[k] = o[k]
    BY <2>3, <2>4, <2>5 DEF Bytes
  <2> HIDE DEF o, h
  <2>7. h = o
    BY <2>4, <2>5, <2>6, SeqEqual
  <2> QED
    BY <2>3, <2>7 DEF o, Bytes
<1>5. r = SubSeq(t, 2, L) /\ h \o r = t
  <2>1. 1 + 1 = 2
    OBVIOUS
  <2>2. r = SubSeq(t, 2, L)
    BY <2>1
  <2> HIDE DEF r
  <2> QED
    BY <1>2, <1>3, <2>2
<1> HIDE DEF r, h
<1> QED
  BY <1>2, <1>4, <1>5

(* The first delimiter of a byte string, and what is before it.            *)
LEMMA FirstDelimiter ==
  ASSUME NEW q \in Bytes, Delimiters(q) # {}
  PROVE  \E s \in Bytes, t \in Bytes : q = s \o (<<Delimiter>> \o t) /\ Delimiters(s) = {}
<1> DEFINE D == Delimiters(q)
           e == FirstOf(D)
           L == Len(q)
<1>1. L \in Nat /\ D \in SUBSET (1..L) /\ DOMAIN q = 1..L /\ D \in SUBSET Nat
  BY DelimitersFinite, UpToBounds
<1>2. e \in D /\ \A j \in D : e <= j
  BY <1>1, FirstOfProperties
<1>3. e \in 1..L /\ q[e] = Delimiter
  BY <1>1, <1>2 DEF Delimiters
<1> DEFINE n == e - 1
           s == SubSeq(q, 1, n)
           y == SubSeq(q, n + 1, L)
<1> HIDE DEF e
<1>4. n \in Nat /\ n + 1 = e /\ n < L
  BY <1>1, <1>3
<1> HIDE DEF n
<1>5. /\ y \in Bytes /\ Len(y) = L - n /\ s \in Bytes /\ Len(s) = n /\ s \o y = q
  <2>1. /\ y \in Bytes /\ Len(y) = IF n < L THEN L - n ELSE 0
        /\ SubSeq(q, 1, L - Len(y)) \in Bytes /\ Len(SubSeq(q, 1, L - Len(y))) = L - Len(y)
        /\ SubSeq(q, 1, L - Len(y)) \o y = q
    BY <1>4, CutProperties
  <2> DEFINE l == Len(y)
  <2>2. l = L - n
    <3> HIDE DEF L
    <3> QED
      BY <1>4, <2>1
  <2> HIDE DEF l, L
  <2>3. L - l = n
    BY <1>1, <1>4, <2>2
  <2> QED
    BY <2>1, <2>2, <2>3 DEF l
<1> HIDE DEF s, y
<1>6. Delimiters(s) = {}
  <2> SUFFICES ASSUME NEW k \in Delimiters(s) PROVE FALSE
    OBVIOUS
  <2>1. k \in 1..n
    BY <1>5, DelimitersFinite
  <2>2. k \in Delimiters(s \o y)
    BY <1>5, <2>1, ConcatDelimiters
  <2>3. e <= k
    BY <1>2, <1>5, <2>2
  <2> QED
    BY <1>3, <1>4, <2>1, <2>3
<1>7. y # <<>> /\ y[1] = Delimiter
  <2> DEFINE l == Len(y)
  <2>1. l = L - n
    BY <1>5
  <2> HIDE DEF l, L
  <2>2. l # 0 /\ 1 \in 1..l
    BY <1>1, <1>4, <2>1
  <2>3. (s \o y)[Len(s) + 1] = y[1]
    BY <1>5, <2>2, ConcatAt DEF l
  <2> QED
    BY <1>3, <1>4, <1>5, <2>2, <2>3, EmptyBytes DEF l
<1> DEFINE t == SubSeq(y, 2, Len(y))
<1>8. t \in Bytes /\ y = <<Delimiter>> \o t
  BY <1>5, <1>7, HeadTail
<1> HIDE DEF t
<1> QED
  BY <1>5, <1>6, <1>8

(* A frame behind noise is cut whole and alone, however short it is.       *)
LEMMA EnclosedBehindNoise ==
  ASSUME NEW z \in Bytes, Delimiters(z) = {}, NEW f, Enclosed(f), Len(f) <= MaxEncoded, NEW r \in Bytes
  PROVE  ReadFrame((z \o f) \o r, MaxEncoded) = [status |-> "OK", frame |-> f, rest |-> r]
<1> DEFINE g == z \o f
           q == g \o r
           e == Nth(Delimiters(q), 2)
<1>1. f \in Bytes /\ g \in Bytes /\ q \in Bytes /\ Len(g) = Len(z) + Len(f)
  BY Assoc DEF Enclosed
<1>2. Cardinality(Delimiters(z)) = 0 /\ AtBoundary(z) /\ 0 \div 2 = 0 /\ 0 + 1 = 1
  <2>1. Cardinality({}) = 0 /\ 0 % 2 = 0 /\ 0 \div 2 = 0 /\ 0 + 1 = 1
    BY FS_EmptySet
  <2> QED
    BY <2>1 DEF AtBoundary
<1>3. FrameAt(q, 1) = f
  <2>1. AtBoundary(z)
    BY <1>2
  <2>2. FrameAt(q, (Cardinality(Delimiters(z)) \div 2) + 1) = f
    BY <2>1, FrameBetween
  <2> QED
    BY <1>2, <2>2
<1>4. Cardinality(Delimiters(f)) = 2 /\ Nth(Delimiters(f), 2) = Len(f)
  BY EnclosedFrame
<1>5. Cardinality(Delimiters(g)) = 2 /\ Nth(Delimiters(g), 2) = Len(g)
  <2>1. /\ Cardinality(Delimiters(g)) = Cardinality(Delimiters(z)) + Cardinality(Delimiters(f))
        /\ \A i \in 1..Cardinality(Delimiters(f)) :
             Nth(Delimiters(g), Cardinality(Delimiters(z)) + i) = Len(z) + Nth(Delimiters(f), i)
    <3>1. f \in Bytes
      BY <1>1
    <3>2. Cardinality(Delimiters(g)) = Cardinality(Delimiters(z)) + Cardinality(Delimiters(f))
      BY <3>1, ConcatDelimiters
    <3>3. \A i \in 1..Cardinality(Delimiters(f)) :
             Nth(Delimiters(g), Cardinality(Delimiters(z)) + i) = Len(z) + Nth(Delimiters(f), i)
      BY <3>1, ConcatNth
    <3> QED
      BY <3>2, <3>3
  <2> DEFINE N(i) == Nth(Delimiters(g), i)
             M(i) == Nth(Delimiters(f), i)
  <2> HIDE DEF N, M
  <2>2. \A i \in 1..2 : N(0 + i) = Len(z) + M(i)
    BY <1>2, <1>4, <2>1 DEF N, M
  <2>3. 2 \in 1..2 /\ 0 + 2 = 2
    OBVIOUS
  <2>4. N(2) = Len(z) + M(2)
    BY <2>2, <2>3
  <2>5. 0 + 2 = 2
    OBVIOUS
  <2> QED
    BY <1>1, <1>2, <1>4, <2>1, <2>4, <2>5 DEF N, M
<1>6. e = Len(g) /\ HasCompleteFrame(q)
  <2>1. \A i \in 1..Cardinality(Delimiters(g)) : Nth(Delimiters(q), i) = Nth(Delimiters(g), i)
    BY <1>1, ConcatNth
  <2>2. 2 \in 1..2
    OBVIOUS
  <2>3. /\ Cardinality(Delimiters(q)) = Cardinality(Delimiters(g)) + Cardinality(Delimiters(r))
        /\ Cardinality(Delimiters(r)) \in Nat
    BY <1>1, ConcatDelimiters, DelimitersFinite
  <2> QED
    BY <1>5, <2>1, <2>2, <2>3 DEF HasCompleteFrame
<1> DEFINE x == SubSeq(q, e + 1, Len(q))
<1>7. ReadFrame(q, MaxEncoded) = [status |-> "OK", frame |-> FrameAt(q, 1), rest |-> x]
  BY <1>1, <1>3, <1>6, FirstPair
<1>8. x = r
  <2>1. Suffix(q, Len(g)) = r
    BY <1>1, PrefixOfConcat
  <2>2. Len(g) \in Nat /\ Len(r) \in Nat /\ Len(q) = Len(g) + Len(r)
    BY <1>1, EmptyBytes, Assoc
  <2>3. AtMost(Len(g), Len(q)) = Len(g)
    <3> DEFINE i == Len(g)
               j == Len(r)
               k == Len(q)
    <3>1. i \in Nat /\ j \in Nat /\ k = i + j
      BY <2>2
    <3> HIDE DEF i, j, k
    <3>2. AtMost(i, k) = i
      BY <3>1 DEF AtMost
    <3> QED
      BY <3>2 DEF i, k
  <2> HIDE DEF q, e
  <2> QED
    BY <1>6, <2>1, <2>3 DEF Suffix
<1> QED
  BY <1>3, <1>7, <1>8

(* A reader takes a frame whole from behind noise, and nothing of what     *)
(* follows it.                                                             *)
LEMMA BehindNoise ==
  ASSUME NEW z \in Bytes, Delimiters(z) = {}, NEW f, IsFrame(f), NEW r \in Bytes
  PROVE  /\ ReadFrame((z \o f) \o r, MaxEncoded) = [status |-> "OK", frame |-> f, rest |-> r]
         /\ HasCompleteFrame((z \o f) \o r)
<1>1. Enclosed(f) /\ Len(f) <= MaxEncoded /\ f \in Bytes
  <2>1. f \in Bytes /\ Len(f) \in 3..MaxEncoded /\ Delimiters(f) = {1, Len(f)}
    BY FrameAlone DEF IsFrame
  <2>2. Len(f) \in Nat /\ Len(f) >= 2 /\ Len(f) <= MaxEncoded
    BY <2>1, EmptyBytes
  <2> QED
    BY <2>1, <2>2 DEF Enclosed
<1>2. ReadFrame((z \o f) \o r, MaxEncoded) = [status |-> "OK", frame |-> f, rest |-> r]
  BY <1>1, EnclosedBehindNoise
<1> DEFINE x == Cardinality(Delimiters(z))
           y == Cardinality(Delimiters(r))
           g == z \o f
<1>3. g \in Bytes /\ x \in Nat /\ y \in Nat
  BY <1>1, Assoc, DelimitersFinite
<1>4. Cardinality(Delimiters(g)) = x + 2
  <2>1. Cardinality(Delimiters(f)) = 2
    BY <1>1, EnclosedFrame
  <2>2. Cardinality(Delimiters(g)) = x + Cardinality(Delimiters(f))
    BY <1>1, ConcatDelimiters
  <2> HIDE DEF g, x
  <2> QED
    BY <2>1, <2>2
<1>5. Cardinality(Delimiters(g \o r)) = (x + 2) + y
  BY <1>3, <1>4, ConcatDelimiters
<1> HIDE DEF x, y, g
<1>6. (x + 2) + y >= 2
  BY <1>3
<1> QED
  BY <1>2, <1>5, <1>6 DEF HasCompleteFrame, g

(* Concatenation as an operation of its own, without what else is known   *)
(* of sequences.                                                           *)
Join(a, b) == a \o b

LEMMA Joins == \A a, b \in Bytes : Join(a, b) \in Bytes
  BY Assoc DEF Join

LEMMA Associates == \A a, b, c \in Bytes : Join(Join(a, b), c) = Join(a, Join(b, c))
  BY Assoc DEF Join

(* Five strings in a row, grouped as they were sent and as they are held.  *)
LEMMA Regrouped ==
  ASSUME NEW z \in Bytes, NEW p \in Bytes, NEW s \in Bytes, NEW d \in Bytes, NEW t \in Bytes
  PROVE  Join(Join(z, p), Join(s, Join(d, t))) = Join(Join(z, Join(Join(p, s), d)), t)
<1> DEFINE x == Join(s, d)
           y == Join(p, x)
           v == Join(x, t)
<1>1. x \in Bytes /\ Join(s, Join(d, t)) = v /\ Join(Join(p, s), d) = y
  BY Joins, Associates
<1> HIDE DEF x
<1>2. y \in Bytes /\ v \in Bytes /\ Join(p, v) = Join(y, t)
  BY <1>1, Joins, Associates
<1> HIDE DEF y, v
<1>3. Join(Join(z, p), v) = Join(z, Join(p, v)) /\ Join(Join(z, y), t) = Join(z, Join(y, t))
  BY <1>2, Associates
<1> QED
  BY <1>1, <1>2, <1>3

LEMMA Moved ==
  ASSUME NEW z \in Bytes, NEW p \in Bytes, NEW d \in Bytes, NEW t \in Bytes
  PROVE  Join(Join(z, p), Join(d, t)) = Join(Join(z, Join(p, d)), t)
<1> DEFINE x == Join(d, t)
           y == Join(p, d)
<1>1. x \in Bytes /\ y \in Bytes /\ Join(p, x) = Join(y, t)
  BY Joins, Associates
<1> HIDE DEF x, y
<1>2. Join(Join(z, p), x) = Join(z, Join(p, x)) /\ Join(Join(z, y), t) = Join(z, Join(y, t))
  BY <1>1, Associates
<1>3. Join(Join(z, p), x) = Join(Join(z, y), t)
  BY <1>1, <1>2
<1> QED
  BY <1>3 DEF x, y

(* A string that begins with its only delimiter, closed by another one.    *)
LEMMA Closed ==
  ASSUME NEW p \in Bytes, p # <<>>, Delimiters(p) = {1},
         NEW s \in Bytes, Delimiters(s) = {},
         NEW d \in Bytes, Len(d) = 1, Delimiters(d) = {1}
  PROVE  Enclosed(p \o d) /\ Enclosed((p \o s) \o d)
<1>1. ASSUME NEW g \in Bytes, g # <<>>, Delimiters(g) = {1}
      PROVE  Enclosed(g \o d)
  <2> DEFINE n == Len(g)
             h == g \o d
  <2>0. g \in Bytes /\ g # <<>> /\ Delimiters(g) = {1}
    BY <1>1
  <2>1. n \in Nat /\ n # 0 /\ h \in Bytes /\ Len(h) = n + 1
    <3>1. n \in Nat /\ n # 0
      BY <2>0, EmptyBytes
    <3>2. h \in Bytes /\ Len(h) = n + Len(d)
      BY <2>0, Assoc, Zenon
    <3> HIDE DEF h, n
    <3> QED
      BY <3>1, <3>2
  <2>2. /\ Delimiters(h) \in SUBSET (1..(n + 1))
        /\ \A k \in 1..n : k \in Delimiters(h) <=> k = 1
        /\ \A k \in 1..1 : n + k \in Delimiters(h) <=> k = 1
    <3>1. /\ Delimiters(h) \in SUBSET (1..(n + Len(d)))
          /\ \A k \in 1..n : k \in Delimiters(h) <=> k \in Delimiters(g)
          /\ \A k \in 1..Len(d) : n + k \in Delimiters(h) <=> k \in Delimiters(d)
      BY <2>0, ConcatDelimiters
    <3> HIDE DEF h, n
    <3> QED
      BY <2>0, <3>1
  <2> HIDE DEF n, h
  <2>3. \A k \in 1..(n + 1) : k \in 1..n \/ k = n + 1
    BY <2>1
  <2>4. n + 1 \in Delimiters(h) /\ 1 \in Delimiters(h)
    <3>1. 1 \in 1..n /\ 1 \in 1..1
      BY <2>1
    <3> QED
      BY <2>2, <3>1
  <2>5. Delimiters(h) = {1, n + 1}
    BY <2>2, <2>3, <2>4
  <2>6. n + 1 >= 2 /\ n + 1 \in Nat
    BY <2>1
  <2> QED
    BY <2>1, <2>5, <2>6 DEF Enclosed, h
<1> DEFINE g == p \o s
           n == Len(p)
           l == Len(s)
<1>2. n \in Nat /\ n # 0 /\ l \in Nat /\ g \in Bytes /\ Len(g) = n + l
  BY Assoc, EmptyBytes
<1>3. /\ Delimiters(g) \in SUBSET (1..(n + l))
      /\ \A k \in 1..n : k \in Delimiters(g) <=> k = 1
      /\ \A k \in 1..l : n + k \notin Delimiters(g)
  BY ConcatDelimiters
<1> HIDE DEF n, l, g
<1>4. \A k \in 1..(n + l) : k \in 1..n \/ (k - n \in 1..l /\ n + (k - n) = k)
  BY <1>2
<1>5. 1 \in 1..n /\ n + l # 0
  BY <1>2
<1>6. Delimiters(g) = {1}
  BY <1>3, <1>4, <1>5
<1>7. g # <<>>
  BY <1>2, <1>5, EmptyBytes
<1>8. Enclosed(g \o d)
  BY <1>1, <1>2, <1>6, <1>7
<1> QED
  BY <1>1, <1>8 DEF g

LEMMA TwoDelimiters ==
  ASSUME NEW d \in Bytes, Len(d) = 1, Delimiters(d) = {1}
  PROVE  Enclosed(d \o d) /\ Len(d \o d) = 2 /\ d \o d \in Bytes
<1>1. d # <<>> /\ <<>> \in Bytes /\ Delimiters(<<>>) = {}
  BY EmptyBytes DEF Delimiters
<1>2. Enclosed(d \o d)
  BY <1>1, Closed
<1>3. d \o d \in Bytes /\ Len(d \o d) = Len(d) + Len(d)
  BY Assoc
<1> QED
  BY <1>2, <1>3

(* What a cut does that begins inside a frame, because the first part p of *)
(* it has been moved on: the rest s of that frame is dropped and its       *)
(* closing delimiter is taken for an opening one.  The next delimiter is   *)
(* the one that opens the next frame, so p is closed after all and the     *)
(* frames that follow are left as they were.                               *)
LEMMA CutInside ==
  ASSUME NEW a \in Bytes, NEW q \in Bytes, ~AtBoundary(a), OnlyFrames(a \o q), HasCompleteFrame(q)
  PROVE  LET cut == ReadFrame(q, MaxEncoded)
         IN  /\ cut.frame \in Bytes /\ cut.rest \in Bytes /\ Len(cut.frame) <= MaxEncoded
             /\ \E z, p, s, t \in Bytes :
                  /\ AtBoundary(z) /\ p # <<>>
                  /\ Enclosed((p \o s) \o <<Delimiter>>) /\ Enclosed(p \o <<Delimiter>>)
                  /\ a \o q = (z \o ((p \o s) \o <<Delimiter>>)) \o t
                  /\ (a \o cut.frame) \o cut.rest = (z \o (p \o <<Delimiter>>)) \o t
<1> DEFINE cut == ReadFrame(q, MaxEncoded)
           d == <<Delimiter>>
<1>1. PICK z \in Bytes, p \in Bytes :
         a = z \o p /\ AtBoundary(z) /\ p # <<>> /\ Delimiters(p) = {1}
  BY OpenFrame
<1>2. Delimiters(q) # {}
  <2>1. Cardinality(Delimiters(q)) >= 2 /\ ~(0 >= 2)
    BY DEF HasCompleteFrame
  <2> QED
    BY <2>1, FS_EmptySet
<1>3. PICK s \in Bytes, t \in Bytes : q = s \o (d \o t) /\ Delimiters(s) = {}
  BY <1>2, FirstDelimiter
<1>4. d \in Bytes /\ Len(d) = 1 /\ Delimiters(d) = {1} /\ d # <<>> /\ d = <<Delimiter>>
  <2>1. Delimiter \in AnyByte
    BY DEF Delimiter, AnyByte
  <2>2. d \in Bytes /\ Len(d) = 1 /\ d[1] = Delimiter /\ DOMAIN d = 1..1
    BY <2>1 DEF Bytes
  <2> HIDE DEF d
  <2>3. \A i : i \in 1..1 <=> i = 1
    OBVIOUS
  <2>4. Delimiters(d) = {1}
    BY <2>2, <2>3 DEF Delimiters
  <2> QED
    BY <2>2, <2>4, EmptyBytes DEF d
<1> HIDE DEF d
<1>5. Enclosed(p \o d) /\ Enclosed((p \o s) \o d)
  BY <1>1, <1>3, <1>4, Closed
<1> DEFINE c == (p \o s) \o d
           b == p \o d
<1>6. a \o q = (z \o c) \o t
  <2>1. (z \o p) \o (s \o (d \o t)) = (z \o ((p \o s) \o d)) \o t
    <3>1. d \in Bytes
      BY <1>4
    <3>2. Join(Join(z, p), Join(s, Join(d, t))) = Join(Join(z, Join(Join(p, s), d)), t)
      BY <3>1, Regrouped
    <3> QED
      BY <3>2 DEF Join
  <2>2. a = z \o p /\ q = s \o (d \o t)
    BY <1>1, <1>3 DEF d
  <2> QED
    BY <2>1, <2>2, Zenon
<1>7. c \in Bytes /\ b \in Bytes /\ z \o c \in Bytes
  <2>1. c \in Bytes /\ b \in Bytes
    BY <1>5 DEF Enclosed
  <2> HIDE DEF c, b
  <2> QED
    BY <2>1, Assoc
<1>8. AtBoundary(z \o c)
  <2>1. AtBoundary(c)
    BY <1>5, EnclosedFrame
  <2>2. c \in Bytes /\ AtBoundary(z)
    BY <1>1, <1>7
  <2> HIDE DEF c
  <2>3. AtBoundary(z \o c) <=> AtBoundary(c)
    BY <2>2, PairsConcat
  <2> QED
    BY <2>1, <2>3
<1>9. t # <<>>
  <2> SUFFICES ASSUME t = <<>> PROVE FALSE
    OBVIOUS
  <2>1. q = s \o d
    <3>1. d \o t = d
      BY <1>4, EmptyBytes, Zenon
    <3> QED
      BY <1>3, <3>1 DEF d
  <2>2. Cardinality(Delimiters(q)) = Cardinality(Delimiters(s)) + Cardinality(Delimiters(d))
    <3>1. Cardinality(Delimiters(s \o d)) = Cardinality(Delimiters(s)) + Cardinality(Delimiters(d))
      BY <1>4, ConcatDelimiters
    <3> QED
      BY <2>1, <3>1
  <2>3. Cardinality(Delimiters(s)) = 0 /\ Cardinality(Delimiters(d)) = 1
    BY <1>3, <1>4, FS_EmptySet, FS_Singleton
  <2> QED
    <3>1. ~(0 + 1 >= 2)
      OBVIOUS
    <3> QED
      BY <2>2, <2>3, <3>1 DEF HasCompleteFrame
<1>10. t[1] = Delimiter
  <2>1. OnlyFrames((z \o c) \o t)
    BY <1>6
  <2> DEFINE g == z \o c
  <2>2. g \in Bytes /\ AtBoundary(g) /\ OnlyFrames(g \o t)
    BY <1>7, <1>8, <2>1
  <2> HIDE DEF g, c
  <2> QED
    BY <1>9, <2>2, OnlyFramesNext
<1> DEFINE r == SubSeq(t, 2, Len(t))
<1>11. r \in Bytes /\ t = d \o r
  BY <1>9, <1>10, HeadTail DEF d
<1> HIDE DEF r, c, b
<1> DEFINE f == d \o d
<1>12. Enclosed(f) /\ Len(f) = 2 /\ f \in Bytes
  BY <1>4, TwoDelimiters
<1>13. 2 <= MaxEncoded
  BY FrameAssumption DEF MaxEncoded
<1> HIDE DEF f
<1>14. q = (s \o f) \o r
  <2>1. d \o (d \o r) = f \o r
    BY <1>4, <1>11, Associates DEF f, Join
  <2>2. s \o (f \o r) = (s \o f) \o r
    <3>1. r \in Bytes /\ f \in Bytes
      BY <1>11, <1>12
    <3>2. Join(s, Join(f, r)) = Join(Join(s, f), r) /\ Join(a, Join(f, r)) = Join(Join(a, f), r)
      BY <3>1, Associates
    <3> QED
      BY <3>2 DEF Join
  <2>3. q = s \o (d \o t)
    BY <1>3 DEF d
  <2>4. t = d \o r
    BY <1>11
  <2> QED
    BY <2>1, <2>2, <2>3, <2>4, Zenon
<1>15. cut = [status |-> "OK", frame |-> f, rest |-> r]
  <2>1. Len(f) <= MaxEncoded
    BY <1>12, <1>13
  <2>2. Delimiters(s) = {}
    BY <1>3
  <2>3. ReadFrame((s \o f) \o r, MaxEncoded) = [status |-> "OK", frame |-> f, rest |-> r]
    BY <1>11, <1>12, <2>1, <2>2, EnclosedBehindNoise
  <2> QED
    BY <1>14, <2>3
<1> HIDE DEF cut
<1>16. cut.frame = f /\ cut.rest = r
  BY <1>15
<1>17. (a \o f) \o r = (z \o b) \o t
  <2>1. a \o (d \o (d \o r)) = (z \o b) \o t
    <3>1. (z \o p) \o (d \o t) = (z \o (p \o d)) \o t
      <4>1. d \in Bytes
        BY <1>4
      <4>2. Join(Join(z, p), Join(d, t)) = Join(Join(z, Join(p, d)), t)
        BY <4>1, Moved
      <4> QED
        BY <4>2 DEF Join
    <3>2. a = z \o p /\ t = d \o r
      BY <1>1, <1>11
    <3>3. a \o (d \o t) = (z \o b) \o t
      BY <3>1, <3>2, Zenon DEF b
    <3> QED
      BY <3>2, <3>3, Zenon
  <2>2. d \o (d \o r) = f \o r
    BY <1>4, <1>11, Associates DEF f, Join
  <2>3. a \o (f \o r) = (a \o f) \o r
    <3>1. r \in Bytes /\ f \in Bytes
      BY <1>11, <1>12
    <3>2. Join(s, Join(f, r)) = Join(Join(s, f), r) /\ Join(a, Join(f, r)) = Join(Join(a, f), r)
      BY <3>1, Associates
    <3> QED
      BY <3>2 DEF Join
  <2> QED
    BY <2>1, <2>2, <2>3, Zenon
<1>18. f \in Bytes /\ r \in Bytes /\ Len(f) <= MaxEncoded
  BY <1>11, <1>12, <1>13
<1>19. cut.frame \in Bytes /\ cut.rest \in Bytes /\ Len(cut.frame) <= MaxEncoded
  BY <1>16, <1>18
<1>20. (a \o cut.frame) \o cut.rest = (z \o b) \o t
  BY <1>16, <1>17
<1>21. /\ AtBoundary(z) /\ p # <<>>
       /\ Enclosed((p \o s) \o d) /\ Enclosed(p \o d)
       /\ a \o q = (z \o ((p \o s) \o d)) \o t
       /\ (a \o cut.frame) \o cut.rest = (z \o (p \o d)) \o t
  BY <1>1, <1>5, <1>6, <1>20 DEF c, b
<1> HIDE DEF c, b
<1> QED
  BY <1>19, <1>21, Zenon DEF cut, d
=============================================================================
