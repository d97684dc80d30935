---------------------------- MODULE FrameStream ----------------------------
(***************************************************************************)
(* A reference for what a stream of bytes means to the decoder, stated     *)
(* over the whole stream at once: the driver sees it in pieces.            *)
(***************************************************************************)
EXTENDS SerialFrame, SequencesExt

(* The frames of a stream lie between its first and second delimiter, its  *)
(* third and fourth, and so on.                                            *)
Pairs(q) == 1..(Cardinality(Delimiters(q)) \div 2)

FrameAt(q, i) ==
  SubSeq(q, Nth(Delimiters(q), 2 * i - 1), Nth(Delimiters(q), 2 * i))

(* The payload bytes of the frames that decode.                            *)
PairedData(q) ==
  FlattenSeq([i \in Pairs(q) |-> Decode(FrameAt(q, i), QueueCapacity).data])

(* A frame too long for the driver's frame buffer.                         *)
Overlong(q) == \E i \in Pairs(q) : Len(FrameAt(q, i)) > MaxEncoded

AtBoundary(q) == Cardinality(Delimiters(q)) % 2 = 0

(* Nothing but frames: where one ends, the stream ends or the next begins. *)
OnlyFrames(q) ==
  /\ AtBoundary(q)
  /\ \A k \in 1..Len(q) : AtBoundary(Prefix(q, k - 1)) => q[k] = Delimiter
=============================================================================
