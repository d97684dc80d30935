--------------------------- MODULE MCSerialFrame ---------------------------
(***************************************************************************)
(* SerialLoops over a small alphabet, and what encoder, decoder and        *)
(* scanners owe each other.                                                *)
(***************************************************************************)
EXTENDS SerialLoops

(* Stuffing is lossless and unambiguous: what the encoder sends the        *)
(* decoder of the peer restores, and every frame the decoder accepts is    *)
(* the one the encoder makes of its payload.                               *)
RoundTrip ==
  /\ LET f == Encode(line, MaxEncoded)
     IN  f # <<>> => Decode(f, QueueCapacity) = [status |-> "OK", data |-> line]
  /\ LET d == Decode(line, QueueCapacity)
     IN  d.status = "OK" => Encode(d.data, MaxEncoded) = line

(* An encoded payload is complete at its last byte and never before, and a *)
(* reader takes it whole from behind noise without taking what follows.    *)
FrameBoundaries ==
  LET f == Encode(line, MaxEncoded)
      noise == <<17, 94>>
  IN  f # <<>> =>
        /\ \A n \in 0..(Len(f) - 1) : ~HasCompleteFrame(SubSeq(f, 1, n))
        /\ FrameCount(f) = 1
        /\ ReadFrame(noise \o f \o f, MaxEncoded)
             = [status |-> "OK", frame |-> f, rest |-> f]

-----------------------------------------------------------------------------
(* The delimiter, the escape, the escaped delimiter and a plain byte.      *)
MCAlphabet == {126, 125, 94, 17}
=============================================================================
