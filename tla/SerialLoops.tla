----------------------------- MODULE SerialLoops -----------------------------
(***************************************************************************)
(* The loops of the encoder, the decoder and the ring scanners, for every  *)
(* byte string.  A string grows one byte at a time; each loop does the     *)
(* iteration for that byte, so that at every moment the state of a loop is *)
(* the one it has after reading the string so far, as a payload, as a      *)
(* frame or as the content of a ring.  What a loop would return if the     *)
(* string ended here is compared with SerialFrame.                         *)
(*                                                                         *)
(* decoder and reader hold one loop for every size of the caller's buffer. *)
(***************************************************************************)
EXTENDS SerialFrame

CONSTANTS
  Alphabet,   \* bytes the strings are made of
  MaxLine     \* longest string (a bound of the model)

ASSUME AlphabetAssumption == Alphabet \subseteq AnyByte

VARIABLES
  line,       \* the string so far
  encoder,    \* frame_length of the first pass, frame of the second
  decoder,    \* [capacity -> decoded data, pending escape, status]
  counter,    \* the loop of xr17v358_ring_frame_count
  detector,   \* the loop of xr17v358_ring_has_complete_frame
  reader      \* [capacity -> frame, status, what is left in the ring]

vars == <<line, encoder, decoder, counter, detector, reader>>

Capacities == 0..QueueCapacity
FrameCapacities == 1..MaxEncoded

-----------------------------------------------------------------------------
(* One iteration of each loop.                                             *)

EncoderStep(s, b) ==
  IF RequiresEscape(b)
  THEN [frame_length |-> s.frame_length + 2, frame |-> s.frame \o <<Escape, FlipBit5(b)>>]
  ELSE [frame_length |-> s.frame_length + 1, frame |-> Append(s.frame, b)]

(* The tail of the decoder's iteration: the value goes into the buffer.    *)
StoreValue(s, value, capacity) ==
  IF Len(s.data) >= QueueCapacity THEN [s EXCEPT !.status = "INVALID_FRAME"]
  ELSE IF Len(s.data) >= capacity THEN [s EXCEPT !.status = "INVALID_ARGUMENT"]
  ELSE [s EXCEPT !.data = Append(@, value), !.escaped = FALSE]

(* The C loop takes an escape and the byte after it in one iteration.      *)
DecoderStep(s, b, capacity) ==
  IF s.status # "OK" THEN s
  ELSE IF s.escaped
  THEN IF RequiresEscape(FlipBit5(b)) THEN StoreValue(s, FlipBit5(b), capacity)
       ELSE [s EXCEPT !.status = "INVALID_FRAME"]
  ELSE IF b = Delimiter THEN [s EXCEPT !.status = "INVALID_FRAME"]
  ELSE IF b = Escape THEN [s EXCEPT !.escaped = TRUE]
  ELSE StoreValue(s, b, capacity)

CounterStep(s, b) ==
  IF b = Delimiter
  THEN [frames |-> s.frames + (IF s.in_frame /\ s.payload > 0 THEN 1 ELSE 0),
        in_frame |-> TRUE, payload |-> 0]
  ELSE [s EXCEPT !.payload = IF s.in_frame THEN @ + 1 ELSE @]

DetectorStep(s, b) ==
  IF b = Delimiter
  THEN [saw_start |-> TRUE, complete |-> s.complete \/ s.saw_start]
  ELSE s

ReaderStep(s, b, capacity) ==
  IF s.status # "READING" THEN [s EXCEPT !.rest = Append(@, b)]
  ELSE IF s.frame = <<>>
  THEN IF b = Delimiter THEN [s EXCEPT !.frame = <<b>>] ELSE s
  ELSE IF Len(s.frame) >= capacity THEN [s EXCEPT !.status = "INVALID_FRAME"]
  ELSE [s EXCEPT !.frame = Append(@, b),
                 !.status = IF b = Delimiter THEN "OK" ELSE @]

-----------------------------------------------------------------------------
Init ==
  /\ line = <<>>
  /\ encoder = [frame_length |-> 0, frame |-> <<Delimiter>>]
  /\ decoder = [c \in Capacities |-> [status |-> "OK", escaped |-> FALSE, data |-> <<>>]]
  /\ counter = [frames |-> 0, in_frame |-> FALSE, payload |-> 0]
  /\ detector = [saw_start |-> FALSE, complete |-> FALSE]
  /\ reader = [c \in FrameCapacities |-> [status |-> "READING", frame |-> <<>>, rest |-> <<>>]]

(* The decoder's loop leaves out the first and the last byte of a frame,   *)
(* so it comes to a byte when there is another one behind it.              *)
NextByte(b) ==
  /\ Len(line) < MaxLine
  /\ line' = Append(line, b)
  /\ encoder' = EncoderStep(encoder, b)
  /\ decoder' = [c \in Capacities |->
                   IF Len(line) < 2 THEN decoder[c]
                   ELSE DecoderStep(decoder[c], line[Len(line)], c)]
  /\ counter' = CounterStep(counter, b)
  /\ detector' = DetectorStep(detector, b)
  /\ reader' = [c \in FrameCapacities |-> ReaderStep(reader[c], b, c)]

Next == \E b \in Alphabet : NextByte(b)

Spec == Init /\ [][Next]_vars

-----------------------------------------------------------------------------
(* What the functions return when the string ends here.                    *)

LoopEncode(capacity) ==
  IF line = <<>> \/ Len(line) > QueueCapacity \/ encoder.frame_length + 2 > capacity
  THEN <<>>
  ELSE Append(encoder.frame, Delimiter)

LoopDecode(capacity) ==
  LET end == decoder[capacity]
  IN  IF Len(line) < 3 \/ line[1] # Delimiter \/ line[Len(line)] # Delimiter
      THEN Failed("INVALID_FRAME")
      ELSE IF end.status # "OK" THEN Failed(end.status)
      ELSE IF end.escaped \/ end.data = <<>> THEN Failed("INVALID_FRAME")
      ELSE [status |-> "OK", data |-> end.data]

LoopReadFrame(capacity) ==
  LET end == reader[capacity]
  IN  IF end.status = "OK" THEN end
      ELSE [status |-> "INVALID_FRAME", frame |-> <<>>, rest |-> end.rest]

(* The encoder's two passes produce the frame SerialFrame describes, for   *)
(* every size of the caller's buffer (size check, escape placement).       *)
EncodeIsLoop ==
  \A capacity \in 0..(MaxEncoded + 1) : Encode(line, capacity) = LoopEncode(capacity)

(* The decoder accepts and rejects as SerialFrame says, with the same      *)
(* error when a short buffer and a broken byte compete.                    *)
DecodeIsLoop ==
  \A capacity \in Capacities : Decode(line, capacity) = LoopDecode(capacity)

(* The scanners of ring_buffer.c count and cut frames as SerialFrame says, *)
(* with leading noise, empty frames and frames longer than the buffer.     *)
ScannersAreLoops ==
  /\ FrameCount(line) = counter.frames
  /\ HasCompleteFrame(line) = detector.complete
  /\ \A capacity \in FrameCapacities : ReadFrame(line, capacity) = LoopReadFrame(capacity)
=============================================================================
