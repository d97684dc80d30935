----------------------------- MODULE SerialFrame -----------------------------
(***************************************************************************)
(* The driver's serial message format (xr17v358.c, encoder and decoder;    *)
(* ring_buffer.c, frame scanners): a payload is sent between two 0x7E      *)
(* delimiters, and a payload byte 0x7E or 0x7D is sent as 0x7D followed by *)
(* the byte with bit 5 flipped.  The definitions say what the C loops      *)
(* compute; MCSerialFrame states the loops and compares the two.           *)
(***************************************************************************)
EXTENDS Integers, Sequences, FiniteSets

CONSTANT QueueCapacity   \* XR17V358_QUEUE_CAPACITY: longest payload

ASSUME FrameAssumption == QueueCapacity \in Nat \ {0}

Delimiter == 126   \* 0x7E
Escape == 125      \* 0x7D
AnyByte == 0..255
Bytes == Seq(AnyByte)

(* The first n bytes of s, or all of them, and the others.                 *)
AtMost(a, b) == IF a < b THEN a ELSE b
Prefix(s, n) == SubSeq(s, 1, AtMost(n, Len(s)))
Suffix(s, n) == SubSeq(s, AtMost(n, Len(s)) + 1, Len(s))

(* The i-th smallest of the positions in S.                                *)
Nth(S, i) == CHOOSE k \in S : Cardinality({j \in S : j <= k}) = i

(* XR17V358_MAX_ENCODED_BYTE_COUNT: every byte escaped, two delimiters.    *)
MaxEncoded == 2 * QueueCapacity + 2

(* Mutant: the escape character itself is sent bare. *)
EscapeOnlyDelimiter(b) == b = Delimiter

RequiresEscape(b) == b \in {Delimiter, Escape}

(* b ^ XR17V358_FRAME_ESCAPE_XOR, the exclusive or with 0x20.              *)
FlipBit5(b) == IF (b \div 32) % 2 = 0 THEN b + 32 ELSE b - 32

-----------------------------------------------------------------------------
(* Encoding.  Value i of the payload p ends at body position ValueEnd(p,i):*)
(* one position per value, one more per escaped value up to i.  A body     *)
(* position where no value ends holds an escape character.                 *)

Escapes(p, i) == Cardinality({j \in 1..i : RequiresEscape(p[j])})

ValueEnd(p, i) == i + Escapes(p, i)

BodyLength(p) == ValueEnd(p, Len(p))

EncodedByte(b) == IF RequiresEscape(b) THEN FlipBit5(b) ELSE b

Body(p) ==
  [k \in 1..BodyLength(p) |->
     IF \E i \in 1..Len(p) : ValueEnd(p, i) = k
     THEN EncodedByte(p[CHOOSE i \in 1..Len(p) : ValueEnd(p, i) = k])
     ELSE Escape]

Framed(body) == <<Delimiter>> \o body \o <<Delimiter>>

(* Mutant: the capacity test forgets the two delimiters. *)
EncodableBody(p, capacity) ==
  p # <<>> /\ Len(p) <= QueueCapacity /\ BodyLength(p) <= capacity

Encodable(p, capacity) ==
  p # <<>> /\ Len(p) <= QueueCapacity /\ BodyLength(p) + 2 <= capacity

(* xr17v358_encode_serial_data: the empty sequence stands for result 0.    *)
Encode(p, capacity) ==
  IF Encodable(p, capacity) THEN Framed(Body(p)) ELSE <<>>

-----------------------------------------------------------------------------
(* Decoding.  The loop stops at the first position that breaks the format. *)

Interior(f) == 2..(Len(f) - 1)

(* Mutant: an escape may be followed by any byte. *)
BrokenOnlyByDelimiter(f, k) ==
  \/ f[k] = Delimiter
  \/ f[k] = Escape /\ k + 1 \notin Interior(f)

(* A delimiter inside the frame, an escape that is cut off, or an escape   *)
(* followed by a byte that did not need one.                               *)
BrokenAt(f, k) ==
  \/ f[k] = Delimiter
  \/ /\ f[k] = Escape
     /\ \/ k + 1 \notin Interior(f)
        \/ ~RequiresEscape(FlipBit5(f[k + 1]))

Broken(f) == {k \in Interior(f) : BrokenAt(f, k)}

(* Positions at which a value is complete before anything is found broken. *)
ValuePositions(f) ==
  {k \in Interior(f) : f[k] # Escape /\ \A b \in Broken(f) : k < b}

DecodedByte(f, k) == IF f[k - 1] = Escape THEN FlipBit5(f[k]) ELSE f[k]

Values(f) ==
  LET at == ValuePositions(f)
  IN  [i \in 1..Cardinality(at) |-> DecodedByte(f, Nth(at, i))]

TooLong(f) == Cardinality(ValuePositions(f)) > QueueCapacity

Failed(status) == [status |-> status, data |-> <<>>]

(* xr17v358_decode_serial_data with a buffer of the given capacity.        *)
Decode(f, capacity) ==
  IF Len(f) < 3 \/ f[1] # Delimiter \/ f[Len(f)] # Delimiter
  THEN Failed("INVALID_FRAME")
  ELSE IF capacity < QueueCapacity /\ Cardinality(ValuePositions(f)) > capacity
  THEN Failed("INVALID_ARGUMENT")
  ELSE IF TooLong(f) \/ Broken(f) # {}
  THEN Failed("INVALID_FRAME")
  ELSE [status |-> "OK", data |-> Values(f)]

-----------------------------------------------------------------------------
(* Scanning a ring, given as the sequence q of its bytes.                  *)

Delimiters(q) == {i \in DOMAIN q : q[i] = Delimiter}

(* Mutant: every delimiter after the first one closes a frame. *)
CountDelimiters(q) == IF Delimiters(q) = {} THEN 0 ELSE Cardinality(Delimiters(q)) - 1

(* xr17v358_ring_frame_count: delimiters that close a non-empty run of     *)
(* bytes; a delimiter that follows another one opens a new run.            *)
FrameCount(q) ==
  Cardinality({j \in Delimiters(q) :
                 (\E i \in Delimiters(q) : i < j) /\ q[j - 1] # Delimiter})

(* Mutant: the first delimiter already counts as a frame. *)
HasDelimiter(q) == Delimiters(q) # {}

(* xr17v358_ring_has_complete_frame: two delimiters, anything in between.  *)
HasCompleteFrame(q) == Cardinality(Delimiters(q)) >= 2

FirstOf(S) == CHOOSE i \in S : \A j \in S : i <= j

(* Mutant: the byte that overflows the frame buffer stays in the ring. *)
OverflowAt(start, capacity) == start + capacity - 1

(* Position of the last byte read when the frame buffer overflows: the     *)
(* byte that no longer fits has already been taken from the ring.          *)
LastReadAt(start, capacity) == start + capacity

(* xr17v358_ring_read_frame: bytes before the first delimiter are dropped, *)
(* the frame ends at the next one; without one everything read is lost.    *)
ReadFrame(q, capacity) ==
  LET start == FirstOf(Delimiters(q))
      later == {j \in Delimiters(q) : j > start}
      Rest(last) == SubSeq(q, last + 1, Len(q))
      Lost(last) == [status |-> "INVALID_FRAME", frame |-> <<>>, rest |-> Rest(last)]
  IN  IF Delimiters(q) = {} THEN Lost(Len(q))
      ELSE IF later # {} /\ FirstOf(later) < start + capacity
      THEN [status |-> "OK", frame |-> SubSeq(q, start, FirstOf(later)),
            rest |-> Rest(FirstOf(later))]
      ELSE Lost(LastReadAt(start, capacity))
=============================================================================
