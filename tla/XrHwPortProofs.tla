--------------------------- MODULE XrHwPortProofs ---------------------------
(***************************************************************************)
(* For every queue size, FIFO depth, word size and set of payloads: the    *)
(* hardware path of a port keeps its types, sends exactly what it reported *)
(* as written, and hands every received byte to the decoder in order.      *)
(*                                                                         *)
(* The properties are not inductive alone.  What carries them is that a    *)
(* level register read earlier in a call is still a safe bound when the    *)
(* bytes move: the UART only ever makes room in its TX FIFO and only ever  *)
(* adds to its RX FIFO, and nothing else touches the rings meanwhile.      *)
(*                                                                         *)
(* From the bytes follow the messages: the decoder always stands at the    *)
(* boundary of two of the peer's frames (Standing), so what reads return   *)
(* is the peer's payload stream, and a message that a poll announced is    *)
(* there when the next read looks for it (AnnouncedHolds).                 *)
(***************************************************************************)
EXTENDS MCXrHwPort, FrameStreamProofs

Pcs == {"idle", "tx_level", "tx_data", "rx_level", "rx_check", "rx_data", "staged"}

CallInv ==
  /\ is_initialized \in BOOLEAN
  /\ overrun \in BOOLEAN /\ truncated \in BOOLEAN /\ announced \in BOOLEAN
  /\ pc \in Pcs
  /\ op \in {"none", "write", "read", "poll"}
  /\ ret \in [status : Status, count : Nat]
  /\ length \in Nat
  /\ burst \in Bytes /\ Len(burst) <= FifoCapacity
  /\ pc \notin {"tx_data", "rx_data"} => burst = <<>>
  /\ pc # "idle" => is_initialized
  /\ ~is_initialized => tx_queue = <<>> /\ rx_fifo = <<>> /\ rx_queue = <<>>

TxInv ==
  /\ tx_queue \in Bytes /\ Len(tx_queue) <= TxQueueCapacity
  /\ payload \in Bytes
  /\ tx_chip \in Bytes /\ Len(tx_chip) <= FifoCapacity
  /\ reported \in Bytes /\ sent \in Bytes
  /\ TxLevelHolds
  /\ TxConservation

RxInv ==
  /\ rx_fifo \in Bytes /\ Len(rx_fifo) <= RxFifoCapacity
  /\ rx_queue \in Bytes /\ Len(rx_queue) <= RxQueueCapacity
  /\ rx_chip \in Bytes /\ Len(rx_chip) <= FifoCapacity
  /\ todo \in 0..FifoCapacity
  /\ arrived \in 0..Len(inbound)
  /\ messages \in Seq(Bytes) /\ inbound \in Bytes
  /\ taken \in Bytes /\ delivered \in Bytes
  /\ RxLevelHolds
  /\ RxConservation

PortInv == CallInv /\ TxInv /\ RxInv

LEMMA PortInvImplies ==
  PortInv => TypeOK /\ TxConservation /\ RxConservation /\ TxLevelHolds /\ RxLevelHolds
  BY DEF PortInv, CallInv, TxInv, RxInv, TypeOK, Pcs

-----------------------------------------------------------------------------
(* The frame of any payload is a string of bytes.                          *)
LEMMA FrameType == ASSUME NEW p \in Bytes PROVE Frame(p) \in Bytes
<1>1. CASE Encodable(p, MaxEncoded)
  BY <1>1, EncodeShape DEF Frame
<1>2. CASE ~Encodable(p, MaxEncoded)
  BY <1>2, EmptyBytes DEF Frame, Encode
<1> QED
  BY <1>1, <1>2

LEMMA AccessSizeRange ==
  ASSUME NEW n \in Nat \ {0}
  PROVE  AccessSize(n) \in 1..n
  BY PortAssumption DEF AccessSize

(* A bound read from a level register never exceeds the level.             *)
LEMMA LevelRange ==
  ASSUME NEW n \in Nat
  PROVE  Level(n) \in Nat /\ Level(n) <= n
  BY PortAssumption DEF Level, AtMost

LEMMA KeptIsAll ==
  CallInv => Kept(tx_queue) = tx_queue /\ Kept(rx_fifo) = rx_fifo /\ Kept(rx_queue) = rx_queue
  BY DEF CallInv, Kept

LEMMA PortInit == Init => PortInv
<1> SUFFICES ASSUME Init PROVE PortInv
  OBVIOUS
<1>1. CallInv
  <2>1. burst \in Bytes /\ Len(burst) <= FifoCapacity
    BY EmptyBytes, PortAssumption DEF Init
  <2>2. ret \in [status : Status, count : Nat]
    BY DEF Init, Status
  <2> QED
    BY <2>1, <2>2 DEF Init, CallInv, Pcs
<1>2. TxInv
  BY EmptyBytes, PortAssumption DEF Init, TxInv, TxLevelHolds, TxConservation, TxBurst, InFlight, Writing
<1>3. RxConservation
  BY EmptyBytes, PrefixSuffix DEF Init, RxConservation, RxBurst, Prefix, AtMost
<1>4. <<>> \in Seq(Bytes)
  OBVIOUS
<1>5. RxInv
  BY <1>3, <1>4, EmptyBytes, PortAssumption DEF Init, RxInv, RxLevelHolds
<1> QED
  BY <1>1, <1>2, <1>5 DEF PortInv

-----------------------------------------------------------------------------
(* What a step leaves alone.                                               *)

(* The transmit half is untouched by a step that neither moves transmit    *)
(* bytes nor enters or leaves a write.                                     *)
LEMMA TxUntouched ==
  ASSUME TxInv,
         UNCHANGED txVars,
         TxBurst' = TxBurst,
         InFlight' = InFlight,
         pc' = "tx_data" => pc = "tx_data" /\ burst' = burst
  PROVE  TxInv'
<1>1. TxConservation'
  BY DEF TxInv, txVars, TxConservation
<1>2. TxLevelHolds'
  BY DEF TxInv, txVars, TxLevelHolds, TxRoom
<1> QED
  BY <1>1, <1>2 DEF TxInv, txVars

(* The receive half is untouched by a step that moves no received bytes.   *)
LEMMA RxUntouched ==
  ASSUME RxInv,
         UNCHANGED <<rx_fifo, rx_queue, todo, taken, delivered, rxChip, peer>>,
         RxBurst' = RxBurst,
         pc' \in {"rx_check", "rx_data"} => pc' = pc /\ burst' = burst
  PROVE  RxInv'
<1>1. RxConservation'
  BY DEF RxInv, rxChip, peer, RxConservation
<1>2. RxLevelHolds'
  BY DEF RxInv, rxChip, RxLevelHolds, RxFifoRoom
<1> QED
  BY <1>1, <1>2 DEF RxInv, rxChip, peer

-----------------------------------------------------------------------------
(* Calls begin.                                                            *)

(* The initialisation that every call starts with wipes nothing.           *)
LEMMA InitializationKeeps ==
  ASSUME PortInv, EnsureInitialized, tx_queue' = Kept(tx_queue)
  PROVE  is_initialized' /\ UNCHANGED <<tx_queue, rx_fifo, rx_queue>>
  BY KeptIsAll DEF PortInv, EnsureInitialized

LEMMA RejectCallStep ==
  ASSUME PortInv, NEW status \in Status, RejectCall(status)
  PROVE  PortInv'
<1>1. is_initialized' /\ UNCHANGED <<tx_queue, rx_fifo, rx_queue>>
  BY InitializationKeeps DEF RejectCall
<1>2. CallInv'
  <2>1. ret' \in [status : Status, count : Nat]
    BY DEF RejectCall, Return
  <2> QED
    BY <1>1, <2>1 DEF PortInv, CallInv, RejectCall, Return, Pcs, rxChip, EnsureInitialized
<1>3. TxInv'
  BY <1>1, TxUntouched
     DEF PortInv, RejectCall, Return, TxBurst, InFlight, Writing, txVars
<1>4. RxInv'
  BY <1>1, RxUntouched DEF PortInv, RejectCall, Return, RxBurst
<1> QED
  BY <1>2, <1>3, <1>4 DEF PortInv

LEMMA WriteRefusedStep ==
  ASSUME PortInv, NEW p \in Payloads, WriteRefused(p)
  PROVE  PortInv'
<1>1. is_initialized' /\ UNCHANGED <<tx_queue, rx_fifo, rx_queue>>
  BY InitializationKeeps DEF WriteRefused
<1>2. CallInv'
  <2>1. ret' \in [status : Status, count : Nat]
    BY DEF WriteRefused, Return, Status
  <2> QED
    BY <1>1, <2>1 DEF PortInv, CallInv, WriteRefused, Return, Pcs, rxChip, EnsureInitialized
<1>3. TxInv'
  BY <1>1, TxUntouched
     DEF PortInv, WriteRefused, Return, TxBurst, InFlight, Writing, txVars
<1>4. RxInv'
  BY <1>1, RxUntouched DEF PortInv, WriteRefused, Return, RxBurst
<1> QED
  BY <1>2, <1>3, <1>4 DEF PortInv

(* The frame of the payload is queued behind everything accepted before.   *)
LEMMA WriteAcceptedStep ==
  ASSUME PortInv, NEW p \in Payloads, WriteAccepted(p)
  PROVE  PortInv'
<1>1. is_initialized' /\ UNCHANGED <<rx_fifo, rx_queue>> /\ Kept(tx_queue) = tx_queue
  BY KeptIsAll DEF PortInv, WriteAccepted, EnsureInitialized
<1>2. p \in Bytes /\ Frame(p) \in Bytes
  BY FrameType, PortAssumption
<1>3. CallInv'
  <2>1. ret' \in [status : Status, count : Nat]
    BY DEF WriteAccepted, Begin, Status
  <2> QED
    BY <1>1, <2>1 DEF PortInv, CallInv, WriteAccepted, Begin, Pcs, rxChip, EnsureInitialized
<1>4. TxInv'
  <2>1. /\ tx_queue' = tx_queue \o Frame(p) /\ payload' = p
        /\ Len(tx_queue) + Len(Frame(p)) <= TxQueueCapacity
        /\ UNCHANGED <<tx_chip, sent, reported, burst>>
        /\ pc = "idle" /\ pc' = "tx_level" /\ op' = "write"
    BY <1>1 DEF WriteAccepted, Begin, Fits
  <2>2. tx_queue' \in Bytes /\ Len(tx_queue') <= TxQueueCapacity
    BY <1>2, <2>1, Assoc DEF PortInv, TxInv
  <2>3. TxBurst = <<>> /\ TxBurst' = <<>> /\ InFlight = <<>> /\ InFlight' = Frame(p)
    BY <2>1 DEF TxBurst, InFlight, Writing
  <2>4. TxConservation'
    <3> DEFINE all == sent \o tx_chip
    <3>1. sent \in Bytes /\ tx_chip \in Bytes /\ tx_queue \in Bytes /\ reported \in Bytes
      BY DEF PortInv, TxInv
    <3>2. all \in Bytes
      BY <3>1, Assoc
    <3>3. all \o tx_queue = reported
      BY <2>3, <3>1, <3>2, EmptyBytes DEF PortInv, TxInv, TxConservation
    <3>4. all \o (tx_queue \o Frame(p)) = reported \o Frame(p)
      BY <1>2, <3>1, <3>2, <3>3, Assoc
    <3> QED
      BY <2>1, <2>3, <3>2, <3>4, EmptyBytes DEF TxConservation
  <2> QED
    BY <1>2, <2>1, <2>2, <2>4 DEF PortInv, TxInv, TxLevelHolds
<1>5. RxInv'
  BY <1>1, RxUntouched DEF PortInv, WriteAccepted, Begin, RxBurst
<1> QED
  BY <1>3, <1>4, <1>5 DEF PortInv

LEMMA PollHwStep == ASSUME PortInv, PollHw PROVE PortInv'
<1>1. is_initialized' /\ UNCHANGED <<tx_queue, rx_fifo, rx_queue>>
  BY InitializationKeeps DEF PollHw
<1>2. CallInv'
  <2>1. ret' \in [status : Status, count : Nat]
    BY DEF PollHw, Begin, Status
  <2> QED
    BY <1>1, <2>1 DEF PortInv, CallInv, PollHw, Begin, Pcs, rxChip, EnsureInitialized
<1>3. TxInv'
  BY <1>1, TxUntouched DEF PortInv, PollHw, Begin, TxBurst, InFlight, Writing, txVars
<1>4. RxInv'
  BY <1>1, RxUntouched DEF PortInv, PollHw, Begin, RxBurst
<1> QED
  BY <1>2, <1>3, <1>4 DEF PortInv

LEMMA ReadHwStep ==
  ASSUME PortInv, NEW n \in ReadLengths, ReadHw(n)
  PROVE  PortInv'
<1>1. is_initialized' /\ UNCHANGED <<tx_queue, rx_fifo, rx_queue>>
  BY InitializationKeeps DEF ReadHw
<1>2. CallInv'
  <2>1. ret' \in [status : Status, count : Nat]
    BY DEF ReadHw, Begin, Status
  <2>2. length' \in Nat
    BY PortAssumption DEF ReadHw
  <2> QED
    BY <1>1, <2>1, <2>2 DEF PortInv, CallInv, ReadHw, Begin, Pcs, rxChip, EnsureInitialized
<1>3. TxInv'
  BY <1>1, TxUntouched DEF PortInv, ReadHw, Begin, TxBurst, InFlight, Writing, txVars
<1>4. RxInv'
  BY <1>1, RxUntouched DEF PortInv, ReadHw, Begin, RxBurst
<1> QED
  BY <1>2, <1>3, <1>4 DEF PortInv

-----------------------------------------------------------------------------
(* The flush.                                                              *)

(* What a flush takes out of tx_queue fits into the UART's TX FIFO.        *)
LEMMA FlushSizeRange ==
  ASSUME TxInv
  PROVE  TxRoom \in 0..FifoCapacity /\ FlushSize \in Nat /\ FlushSize <= TxRoom
<1>1. Len(tx_chip) \in Nat
  BY EmptyBytes DEF TxInv
<1>2. TxRoom \in 0..FifoCapacity
  BY <1>1, PortAssumption DEF TxInv, TxRoom
<1> QED
  BY <1>2, LevelRange, PortAssumption DEF FlushSize, AtMost

LEMMA FlushLevelStep == ASSUME PortInv, FlushLevel PROVE PortInv'
<1> DEFINE n == FlushSize
<1>1. n \in Nat /\ n <= TxRoom /\ TxRoom \in 0..FifoCapacity /\ tx_queue \in Bytes
  BY FlushSizeRange DEF PortInv, TxInv
<1>2. /\ burst' = Prefix(tx_queue, n) /\ tx_queue' = Suffix(tx_queue, n)
      /\ pc = "tx_level" /\ pc' = "tx_data"
      /\ UNCHANGED <<is_initialized, op, ret, payload, tx_chip, sent, reported,
                     rxVars, rxChip, peer, announced>>
  BY DEF FlushLevel
<1> HIDE DEF n
<1>3. /\ burst' \in Bytes /\ Len(burst') = AtMost(n, Len(tx_queue))
      /\ tx_queue' \in Bytes /\ Len(tx_queue') = Len(tx_queue) - AtMost(n, Len(tx_queue))
      /\ burst' \o tx_queue' = tx_queue
      /\ AtMost(n, Len(tx_queue)) \in 0..Len(tx_queue)
  BY <1>1, <1>2, PrefixSuffix
<1>4. Len(tx_queue) \in Nat /\ Len(burst') <= TxRoom /\ Len(tx_queue') <= Len(tx_queue)
  <2>1. Len(tx_queue) \in Nat
    BY <1>1, EmptyBytes
  <2>2. AtMost(n, Len(tx_queue)) <= n
    BY <1>1, <2>1 DEF AtMost
  <2> QED
    BY <1>1, <1>3, <2>1, <2>2
<1>5. CallInv'
  <2>1. Len(burst') <= FifoCapacity
    BY <1>1, <1>3, <1>4, PortAssumption
  <2> QED
    BY <1>2, <1>3, <2>1 DEF PortInv, CallInv, Pcs, rxVars, rxChip
<1>6. TxInv'
  <2>1. TxConservation'
    <3>1. TxBurst = <<>> /\ TxBurst' = burst' /\ InFlight' = InFlight
      BY <1>2 DEF TxBurst, InFlight, Writing
    <3>2. sent \in Bytes /\ tx_chip \in Bytes /\ sent \o tx_chip \in Bytes
      BY Assoc DEF PortInv, TxInv
    <3>3. sent \o tx_chip \o tx_queue = reported \o InFlight
      BY <3>1, <3>2, EmptyBytes DEF PortInv, TxInv, TxConservation
    <3>4. (sent \o tx_chip \o burst') \o tx_queue' = sent \o tx_chip \o tx_queue
      <4>1. Prefix(tx_queue, n) \in Bytes /\ Suffix(tx_queue, n) \in Bytes
            /\ Prefix(tx_queue, n) \o Suffix(tx_queue, n) = tx_queue
        BY <1>1, PrefixSuffix
      <4>2. (sent \o tx_chip \o Prefix(tx_queue, n)) \o Suffix(tx_queue, n)
              = sent \o tx_chip \o (Prefix(tx_queue, n) \o Suffix(tx_queue, n))
        BY <3>2, <4>1, Assoc, Zenon
      <4> QED
        BY <1>2, <4>1, <4>2
    <3> QED
      BY <1>2, <3>1, <3>3, <3>4 DEF TxConservation
  <2>2. TxLevelHolds'
    BY <1>2, <1>4 DEF TxLevelHolds, TxRoom
  <2>3. Len(tx_queue') <= TxQueueCapacity
    BY <1>3, <1>4, PortAssumption, EmptyBytes DEF PortInv, TxInv
  <2> QED
    BY <1>2, <1>3, <2>1, <2>2, <2>3 DEF PortInv, TxInv
<1>7. RxInv'
  BY <1>2, RxUntouched DEF PortInv, RxBurst, rxVars
<1> QED
  BY <1>5, <1>6, <1>7 DEF PortInv

(* The UART takes every byte that is stored.                               *)
LEMMA StoreWordStep == ASSUME PortInv, StoreWord PROVE PortInv'
<1> DEFINE n == AccessSize(Len(burst))
           P == Prefix(burst, n)
           S == Suffix(burst, n)
<1>1. burst \in Bytes /\ Len(burst) \in Nat \ {0} /\ Len(burst) <= TxRoom
      /\ pc = "tx_data" /\ pc' = "tx_data"
  BY EmptyBytes DEF PortInv, CallInv, TxInv, TxLevelHolds, StoreWord
<1>2. n \in 1..Len(burst)
  BY <1>1, AccessSizeRange
<1>3. /\ tx_chip' = tx_chip \o Prefix(P, TxRoom) /\ burst' = S
      /\ UNCHANGED <<is_initialized, pc, op, ret, payload, tx_queue, sent, reported,
                     rxVars, rxChip, peer, announced>>
  BY DEF StoreWord
<1>4. TxRoom \in 0..FifoCapacity /\ tx_chip \in Bytes /\ Len(tx_chip) \in Nat
  BY FlushSizeRange, EmptyBytes DEF PortInv, TxInv
<1> HIDE DEF n
<1>5. P \in Bytes /\ Len(P) = n /\ S \in Bytes /\ Len(S) = Len(burst) - n /\ P \o S = burst
  <2>1. AtMost(n, Len(burst)) = n
    BY <1>1, <1>2 DEF AtMost
  <2> QED
    BY <1>1, <1>2, <2>1, PrefixSuffix
<1> HIDE DEF P, S
<1>6. Prefix(P, TxRoom) = P
  <2>1. AtMost(TxRoom, Len(P)) = Len(P)
    BY <1>1, <1>2, <1>4, <1>5 DEF AtMost
  <2> QED
    BY <1>5, <2>1, SubSeqFull DEF Prefix, Bytes
<1>7. tx_chip' = tx_chip \o P /\ tx_chip' \in Bytes /\ Len(tx_chip') = Len(tx_chip) + n
  BY <1>3, <1>4, <1>5, <1>6, Assoc
<1>8. CallInv'
  <2>1. Len(burst') <= FifoCapacity
    BY <1>1, <1>2, <1>3, <1>5, PortAssumption DEF PortInv, CallInv
  <2> QED
    BY <1>1, <1>3, <1>5, <2>1 DEF PortInv, CallInv, Pcs, rxVars, rxChip
<1>9. TxInv'
  <2>1. TxConservation'
    <3>1. TxBurst = burst /\ TxBurst' = S /\ InFlight' = InFlight
      BY <1>1, <1>3 DEF TxBurst, InFlight, Writing
    <3>2. sent \in Bytes /\ sent \o tx_chip \in Bytes
      BY <1>4, Assoc DEF PortInv, TxInv
    <3>3. (sent \o tx_chip) \o burst = ((sent \o tx_chip) \o P) \o S
      BY <1>5, <3>2, Assoc
    <3>4. (sent \o tx_chip) \o P = sent \o (tx_chip \o P)
      <4>1. sent \in Bytes /\ tx_chip \in Bytes /\ P \in Bytes
        BY <1>4, <1>5, <3>2
      <4> QED
        BY <4>1, Assoc, Zenon
    <3>5. ((sent \o tx_chip) \o burst) \o tx_queue = reported \o InFlight
      BY <3>1 DEF PortInv, TxInv, TxConservation
    <3> QED
      BY <1>3, <1>7, <3>1, <3>3, <3>4, <3>5 DEF TxConservation
  <2>2. TxLevelHolds'
    <3>1. TxRoom' = FifoCapacity - (Len(tx_chip) + n)
      BY <1>7 DEF TxRoom
    <3>2. Len(burst') = Len(burst) - n
      BY <1>3, <1>5
    <3>3. n \in Nat /\ FifoCapacity \in Nat
      BY <1>1, <1>2, PortAssumption
    <3>4. Len(burst) <= FifoCapacity - Len(tx_chip)
      BY <1>1 DEF TxRoom
    <3> QED
      BY <1>1, <1>4, <3>1, <3>2, <3>3, <3>4 DEF TxLevelHolds
  <2>3. Len(tx_chip') <= FifoCapacity
    BY <1>1, <1>2, <1>4, <1>7, PortAssumption DEF TxRoom
  <2> QED
    BY <1>3, <1>7, <2>1, <2>2, <2>3 DEF PortInv, TxInv
<1>10. RxInv'
  BY <1>1, <1>3, RxUntouched DEF PortInv, RxBurst, rxVars
<1> QED
  BY <1>8, <1>9, <1>10 DEF PortInv

(* The frame in flight becomes a frame reported.                           *)
LEMMA WriteReturnStep == ASSUME PortInv, WriteReturn PROVE PortInv'
<1>1. /\ pc = "tx_data" /\ pc' = "idle" /\ op = "write" /\ op' = "none" /\ burst = <<>>
      /\ ret' = [status |-> "OK", count |-> Len(payload)]
      /\ reported' = reported \o Frame(payload) /\ payload' = <<>>
      /\ UNCHANGED <<is_initialized, burst, tx_queue, tx_chip, sent,
                     rxVars, rxChip, peer, announced>>
  BY DEF WriteReturn, Return
<1>2. payload \in Bytes /\ Frame(payload) \in Bytes /\ Len(payload) \in Nat
      /\ reported \in Bytes
  BY FrameType, EmptyBytes DEF PortInv, TxInv
<1>3. CallInv'
  <2>1. ret' \in [status : Status, count : Nat]
    BY <1>1, <1>2 DEF Status
  <2> QED
    BY <1>1, <2>1 DEF PortInv, CallInv, Pcs, rxVars, rxChip
<1>4. TxInv'
  <2>1. reported' \in Bytes /\ payload' \in Bytes
    BY <1>1, <1>2, Assoc, EmptyBytes
  <2>2. InFlight = Frame(payload) /\ InFlight' = <<>> /\ TxBurst = <<>> /\ TxBurst' = <<>>
    BY <1>1 DEF InFlight, Writing, TxBurst
  <2>3. TxConservation'
    BY <1>1, <2>1, <2>2, EmptyBytes DEF PortInv, TxInv, TxConservation
  <2> QED
    BY <1>1, <2>1, <2>3 DEF PortInv, TxInv, TxLevelHolds
<1>5. RxInv'
  BY <1>1, RxUntouched DEF PortInv, RxBurst, rxVars
<1> QED
  BY <1>3, <1>4, <1>5 DEF PortInv

LEMMA PollFlushedStep == ASSUME PortInv, PollFlushed PROVE PortInv'
<1>1. /\ pc = "tx_data" /\ pc' = "rx_level" /\ op = "poll" /\ burst = <<>>
      /\ UNCHANGED <<is_initialized, op, ret, burst, txVars, rxVars, rxChip, peer, announced>>
  BY DEF PollFlushed
<1>2. CallInv'
  BY <1>1 DEF PortInv, CallInv, Pcs, txVars, rxVars, rxChip
<1>3. TxInv'
  BY <1>1, TxUntouched DEF PortInv, TxBurst, InFlight, Writing, txVars
<1>4. RxInv'
  BY <1>1, RxUntouched DEF PortInv, RxBurst, rxVars
<1> QED
  BY <1>2, <1>3, <1>4 DEF PortInv

(* A byte that leaves the UART's transmitter for the line.                 *)
ByteSent ==
  /\ tx_chip # <<>> /\ sent' = Append(sent, Head(tx_chip)) /\ tx_chip' = Tail(tx_chip)
  /\ UNCHANGED <<tx_queue, reported, payload, call>>

LEMMA FirstSent ==
  ASSUME PortInv, ByteSent
  PROVE  /\ sent \in Bytes /\ tx_chip \in Bytes /\ Len(tx_chip) \in Nat \ {0}
         /\ Head(tx_chip) \in AnyByte
         /\ tx_chip' \in Bytes /\ Len(tx_chip') = Len(tx_chip) - 1
         /\ <<Head(tx_chip)>> \in Bytes
         /\ <<Head(tx_chip)>> \o tx_chip' = tx_chip
<1>1. tx_chip # <<>> /\ tx_chip' = Tail(tx_chip)
  BY DEF ByteSent
<1>2. /\ sent \in Bytes /\ tx_chip \in Bytes /\ Len(tx_chip) \in Nat \ {0}
      /\ Head(tx_chip) \in AnyByte
      /\ tx_chip' \in Bytes /\ Len(tx_chip') = Len(tx_chip) - 1
      /\ <<Head(tx_chip)>> \in Bytes
  BY <1>1, EmptyBytes, HeadTailProperties DEF PortInv, TxInv, Bytes
<1>3. <<Head(tx_chip)>> \o tx_chip' = tx_chip
  <2>1. /\ Head(SubSeq(tx_chip, 1, Len(tx_chip))) = tx_chip[1]
        /\ Tail(SubSeq(tx_chip, 1, Len(tx_chip))) = SubSeq(tx_chip, 1 + 1, Len(tx_chip))
        /\ SubSeq(tx_chip, 1, Len(tx_chip))
             = <<tx_chip[1]>> \o SubSeq(tx_chip, 1 + 1, Len(tx_chip))
    BY <1>2, HeadTailOfSubSeq, SubSeqRecursiveFirst DEF Bytes
  <2> QED
    BY <1>1, <1>2, <2>1, SubSeqFull DEF Bytes
<1> QED
  BY <1>2, <1>3

LEMMA ByteSentStep == ASSUME PortInv, ByteSent PROVE TxInv'
<1>1. /\ tx_chip # <<>> /\ sent' = Append(sent, Head(tx_chip)) /\ tx_chip' = Tail(tx_chip)
      /\ UNCHANGED <<tx_queue, reported, payload, call>>
  BY DEF ByteSent
<1>2. /\ sent \in Bytes /\ tx_chip \in Bytes /\ Len(tx_chip) \in Nat \ {0}
      /\ Head(tx_chip) \in AnyByte
      /\ tx_chip' \in Bytes /\ Len(tx_chip') = Len(tx_chip) - 1
      /\ <<Head(tx_chip)>> \in Bytes
  BY FirstSent
<1>3. sent' = sent \o <<Head(tx_chip)>> /\ sent' \in Bytes
  BY <1>1, <1>2, AppendIsConcat, AppendProperties DEF Bytes
<1>4. <<Head(tx_chip)>> \o tx_chip' = tx_chip
  BY FirstSent
<1>5. TxConservation'
  <2>1. sent' \o tx_chip' = sent \o tx_chip
    <3> DEFINE first == <<Head(tx_chip)>>
               others == Tail(tx_chip)
    <3>1. sent \in Bytes /\ first \in Bytes /\ others \in Bytes
      BY <1>1, <1>2
    <3>2. sent' = sent \o first /\ tx_chip' = others /\ first \o others = tx_chip
      BY <1>1, <1>3, <1>4
    <3> HIDE DEF first, others
    <3>3. (sent \o first) \o others = sent \o (first \o others)
      BY <3>1, Assoc, Zenon
    <3> QED
      BY <3>2, <3>3
  <2>2. TxBurst' = TxBurst /\ InFlight' = InFlight
    BY <1>1 DEF TxBurst, InFlight, Writing, call
  <2> QED
    BY <1>1, <2>1, <2>2 DEF PortInv, TxInv, TxConservation
<1>6. TxLevelHolds'
  BY <1>1, <1>2, PortAssumption, EmptyBytes
     DEF PortInv, CallInv, TxInv, TxLevelHolds, TxRoom, call
<1>7. Len(tx_chip') <= FifoCapacity
  BY <1>2, PortAssumption DEF PortInv, TxInv
<1> QED
  BY <1>1, <1>2, <1>3, <1>5, <1>6, <1>7 DEF PortInv, TxInv

LEMMA ShiftOutStep == ASSUME PortInv, ShiftOut PROVE PortInv'
<1>1. ByteSent /\ UNCHANGED <<is_initialized, rxVars, rxChip, peer, announced>>
  BY DEF ShiftOut, ByteSent
<1>2. CallInv'
  BY <1>1 DEF PortInv, CallInv, ByteSent, call, rxVars, rxChip
<1>3. TxInv'
  BY <1>1, ByteSentStep
<1>4. RxInv'
  BY <1>1, RxUntouched DEF PortInv, ByteSent, RxBurst, rxVars, call
<1> QED
  BY <1>2, <1>3, <1>4 DEF PortInv

-----------------------------------------------------------------------------
(* Staging received bytes.                                                 *)

LEMMA RxTypes ==
  ASSUME PortInv
  PROVE  /\ Len(rx_fifo) \in Nat /\ Len(rx_chip) \in Nat /\ Len(burst) \in Nat
         /\ Len(rx_queue) \in Nat
         /\ RxFifoRoom \in 0..RxFifoCapacity /\ RxQueueRoom \in 0..RxQueueCapacity
         /\ RxFifoRoom = RxFifoCapacity - Len(rx_fifo)
         /\ RxQueueRoom = RxQueueCapacity - Len(rx_queue)
<1>1. Len(rx_fifo) \in Nat /\ Len(rx_chip) \in Nat /\ Len(burst) \in Nat /\ Len(rx_queue) \in Nat
  BY EmptyBytes DEF PortInv, CallInv, RxInv
<1> QED
  BY <1>1, PortAssumption DEF PortInv, RxInv, RxFifoRoom, RxQueueRoom

LEMMA StageSizeRange ==
  ASSUME PortInv
  PROVE  StageSize \in 0..FifoCapacity /\ StageSize <= Len(rx_chip) /\ StageSize <= RxFifoRoom
<1>1. Level(Len(rx_chip)) \in Nat /\ Level(Len(rx_chip)) <= Len(rx_chip)
  BY RxTypes, LevelRange
<1> QED
  BY <1>1, RxTypes, PortAssumption DEF StageSize, AtMost

LEMMA StageLevelStep == ASSUME PortInv, StageLevel PROVE PortInv'
<1>1. /\ pc = "rx_level" /\ todo' = StageSize /\ pc' \in {"staged", "rx_check"}
      /\ UNCHANGED <<is_initialized, op, ret, burst, txVars, rx_fifo, rx_queue,
                     length, taken, delivered, truncated, rxChip, peer, announced>>
  BY DEF StageLevel
<1>2. CallInv'
  BY <1>1 DEF PortInv, CallInv, Pcs, rxChip
<1>3. TxInv'
  BY <1>1, TxUntouched DEF PortInv, TxBurst, InFlight, Writing
<1>4. RxInv'
  <2>1. RxConservation'
    BY <1>1 DEF PortInv, RxInv, RxConservation, RxBurst, rxChip, peer
  <2>2. RxLevelHolds'
    BY <1>1, StageSizeRange DEF RxLevelHolds, RxFifoRoom, rxChip
  <2> QED
    BY <1>1, <2>1, <2>2, StageSizeRange DEF PortInv, RxInv, rxChip, peer
<1> QED
  BY <1>2, <1>3, <1>4 DEF PortInv

LEMMA RecheckLevelStep == ASSUME PortInv, RecheckLevel PROVE PortInv'
<1>1. /\ pc = "rx_check" /\ pc' = "rx_data" /\ burst = <<>>
      /\ todo' = AtMost(AtMost(todo, Level(Len(rx_chip))), FifoCapacity)
      /\ UNCHANGED <<is_initialized, op, ret, burst, txVars, rx_fifo, rx_queue,
                     length, taken, delivered, truncated, rxChip, peer, announced>>
  BY DEF RecheckLevel, PortInv, CallInv
<1>2. todo' \in 0..FifoCapacity /\ todo' <= Len(rx_chip) /\ todo' <= RxFifoRoom
  <2>1. Level(Len(rx_chip)) \in Nat /\ Level(Len(rx_chip)) <= Len(rx_chip)
    BY RxTypes, LevelRange
  <2>2. todo \in 0..FifoCapacity /\ todo <= RxFifoRoom
    BY <1>1 DEF PortInv, RxInv, RxLevelHolds
  <2> QED
    BY <1>1, <2>1, <2>2, RxTypes, PortAssumption DEF AtMost
<1>3. CallInv'
  BY <1>1 DEF PortInv, CallInv, Pcs, rxChip
<1>4. TxInv'
  BY <1>1, TxUntouched DEF PortInv, TxBurst, InFlight, Writing
<1>5. RxInv'
  <2>1. RxConservation'
    BY <1>1 DEF PortInv, RxInv, RxConservation, RxBurst, rxChip, peer
  <2>2. RxLevelHolds'
    BY <1>1, <1>2, EmptyBytes, PortAssumption DEF RxLevelHolds, RxFifoRoom, rxChip
  <2> QED
    BY <1>1, <1>2, <2>1, <2>2 DEF PortInv, RxInv, rxChip, peer
<1> QED
  BY <1>3, <1>4, <1>5 DEF PortInv

(* The bytes fetched are bytes the UART has.                               *)
LEMMA LoadWordStep == ASSUME PortInv, LoadWord PROVE PortInv'
<1> DEFINE n == AccessSize(todo - Len(burst))
           fetched == [i \in 1..n |-> IF i <= Len(rx_chip) THEN rx_chip[i] ELSE 0]
           P == Prefix(rx_chip, n)
           S == Suffix(rx_chip, n)
<1>1. /\ pc = "rx_data" /\ pc' = "rx_data" /\ Len(burst) < todo
      /\ burst' = burst \o fetched /\ rx_chip' = S
      /\ UNCHANGED <<is_initialized, pc, op, ret, txVars, rxVars, arrived, overrun,
                     peer, announced>>
  BY DEF LoadWord
<1>2. /\ todo \in 0..FifoCapacity /\ Len(burst) \in Nat /\ Len(rx_chip) \in Nat
      /\ burst \in Bytes /\ rx_chip \in Bytes /\ RxFifoRoom \in Nat
      /\ todo <= RxFifoRoom /\ todo - Len(burst) <= Len(rx_chip)
  BY <1>1, RxTypes DEF PortInv, CallInv, RxInv, RxLevelHolds
<1>3. n \in 1..(todo - Len(burst)) /\ n \in Nat /\ n <= Len(rx_chip)
  <2>1. todo - Len(burst) \in Nat \ {0}
    BY <1>1, <1>2, PortAssumption
  <2> QED
    BY <1>2, <2>1, AccessSizeRange
<1> HIDE DEF n
<1>4. /\ P \in Bytes /\ Len(P) = n /\ S \in Bytes /\ Len(S) = Len(rx_chip) - n
      /\ P \o S = rx_chip
  <2>1. AtMost(n, Len(rx_chip)) = n
    BY <1>2, <1>3 DEF AtMost
  <2> QED
    BY <1>2, <1>3, <2>1, PrefixSuffix
<1>5. fetched = P
  <2>1. AtMost(n, Len(rx_chip)) = n
    BY <1>2, <1>3 DEF AtMost
  <2>2. \A i \in 1..n : rx_chip[i] \in AnyByte
    BY <1>2, <1>3, ElementOfSeq DEF Bytes
  <2>3. \A i \in 1..n : fetched[i] = rx_chip[i]
    BY <1>2, <1>3
  <2>4. P = SubSeq(rx_chip, 1, n)
    BY <2>1 DEF Prefix
  <2>5. \A i \in 1..(n - 1 + 1) : SubSeq(rx_chip, 1, n)[i] = rx_chip[1 + i - 1]
    BY <1>3, <2>2, SubSeqProperties
  <2>6. \A i \in 1..n : P[i] = rx_chip[i]
    BY <1>3, <2>4, <2>5
  <2>7. fetched \in Bytes /\ Len(fetched) = n
    <3>1. fetched \in [1..n -> AnyByte]
      BY <2>2, <2>3
    <3> QED
      BY <1>3, <3>1, IsASeq, LenProperties DEF Bytes
  <2> QED
    BY <1>4, <2>3, <2>6, <2>7, SeqEqual DEF Bytes
<1> HIDE DEF fetched, P, S
<1>6. burst' = burst \o P /\ burst' \in Bytes /\ Len(burst') = Len(burst) + n
  BY <1>1, <1>2, <1>4, <1>5, Assoc
<1>7. CallInv'
  <2>1. Len(burst') <= FifoCapacity
    BY <1>2, <1>3, <1>6, PortAssumption
  <2> QED
    BY <1>1, <1>6, <2>1 DEF PortInv, CallInv, Pcs, rxVars
<1>8. TxInv'
  BY <1>1, TxUntouched DEF PortInv, TxBurst, InFlight, Writing, txVars
<1>9. RxInv'
  <2>1. RxConservation'
    <3>1. RxBurst = burst /\ RxBurst' = burst \o P
      BY <1>1, <1>6 DEF RxBurst
    <3>2. taken \o rx_fifo \in Bytes
      BY Assoc DEF PortInv, RxInv
    <3>3. ((taken \o rx_fifo) \o (burst \o P)) \o S = ((taken \o rx_fifo) \o burst) \o rx_chip
      <4>1. (taken \o rx_fifo) \o (burst \o P) = ((taken \o rx_fifo) \o burst) \o P
        BY <1>2, <1>4, <3>2, Assoc
      <4>2. (taken \o rx_fifo) \o burst \in Bytes
        BY <1>2, <3>2, Assoc
      <4>3. (((taken \o rx_fifo) \o burst) \o P) \o S = ((taken \o rx_fifo) \o burst) \o (P \o S)
        BY <1>4, <4>2, Assoc
      <4> QED
        BY <1>4, <4>1, <4>3
    <3> QED
      BY <1>1, <3>1, <3>3 DEF PortInv, RxInv, RxConservation, rxVars, peer
  <2>2. RxLevelHolds'
    <3>1. /\ Len(burst') = Len(burst) + n /\ Len(rx_chip') = Len(rx_chip) - n
          /\ todo' = todo /\ RxFifoRoom' = RxFifoRoom /\ pc' = "rx_data"
      BY <1>1, <1>4, <1>6 DEF RxFifoRoom, rxVars
    <3> QED
      BY <1>2, <1>3, <3>1, PortAssumption DEF RxLevelHolds
  <2>3. rx_chip' \in Bytes /\ Len(rx_chip') <= FifoCapacity
    <3>1. rx_chip' = S /\ Len(rx_chip) <= FifoCapacity
      BY <1>1 DEF PortInv, RxInv
    <3> QED
      BY <1>2, <1>3, <1>4, <3>1, PortAssumption
  <2> QED
    BY <1>1, <2>1, <2>2, <2>3 DEF PortInv, RxInv, rxVars, peer
<1> QED
  BY <1>7, <1>8, <1>9 DEF PortInv

(* rx_fifo takes every byte that was fetched: the call cannot fail here.   *)
LEMMA StageDoneStep == ASSUME PortInv, StageDone PROVE PortInv'
<1>1. /\ burst \in Bytes /\ Len(burst) \in Nat /\ Len(burst) = todo
      /\ Len(burst) <= RxFifoRoom /\ pc = "rx_data"
      /\ rx_fifo \in Bytes /\ Len(rx_fifo) \in Nat /\ taken \in Bytes
      /\ RxFifoRoom \in Nat /\ RxFifoRoom = RxFifoCapacity - Len(rx_fifo)
  BY RxTypes, PortAssumption DEF StageDone, PortInv, CallInv, RxInv, RxLevelHolds
<1>2. ~(Len(burst) > RxFifoRoom)
  BY <1>1
<1>3. /\ pc' = "staged" /\ burst' = <<>> /\ todo' = 0
      /\ rx_fifo' = rx_fifo \o Prefix(burst, RxFifoRoom)
      /\ UNCHANGED <<op, ret, length, is_initialized, txVars, rx_queue, taken,
                     delivered, truncated, rxChip, peer, announced>>
  BY <1>2 DEF StageDone
<1>4. Prefix(burst, RxFifoRoom) = burst
  <2>1. AtMost(RxFifoRoom, Len(burst)) = Len(burst)
    BY <1>1 DEF AtMost
  <2> QED
    BY <1>1, <2>1, SubSeqFull DEF Prefix, Bytes
<1>5. rx_fifo' = rx_fifo \o burst /\ rx_fifo \o burst \in Bytes
      /\ Len(rx_fifo \o burst) = Len(rx_fifo) + Len(burst)
  BY <1>1, <1>3, <1>4, Assoc
<1>6. CallInv'
  <2>1. Len(burst') <= FifoCapacity /\ burst' \in Bytes
    BY <1>3, EmptyBytes, PortAssumption
  <2> QED
    BY <1>1, <1>3, <2>1 DEF PortInv, CallInv, Pcs, txVars, rxChip
<1>7. TxInv'
  BY <1>1, <1>3, TxUntouched DEF PortInv, TxBurst, InFlight, Writing
<1>8. RxInv'
  <2>1. RxConservation'
    <3>1. RxBurst = burst /\ RxBurst' = <<>>
      BY <1>1, <1>3 DEF RxBurst
    <3>2. taken \o (rx_fifo \o burst) = (taken \o rx_fifo) \o burst
          /\ taken \o (rx_fifo \o burst) \in Bytes
      BY <1>1, <1>5, Assoc
    <3>3. (taken \o (rx_fifo \o burst)) \o <<>> = (taken \o rx_fifo) \o burst
      BY <3>2, EmptyBytes
    <3> QED
      BY <1>3, <1>5, <3>1, <3>3 DEF PortInv, RxInv, RxConservation, rxChip, peer
  <2>2. RxLevelHolds'
    BY <1>3 DEF RxLevelHolds
  <2>3. Len(rx_fifo') <= RxFifoCapacity
    BY <1>1, <1>5, PortAssumption
  <2>4. todo' \in 0..FifoCapacity
    BY <1>3, PortAssumption
  <2> QED
    BY <1>3, <1>5, <2>1, <2>2, <2>3, <2>4 DEF PortInv, RxInv, rxChip, peer
<1> QED
  BY <1>6, <1>7, <1>8 DEF PortInv

-----------------------------------------------------------------------------
(* Calls end.                                                              *)

LEMMA PollReturnStep == ASSUME PortInv, PollReturn PROVE PortInv'
<1>1. /\ pc = "staged" /\ pc' = "idle" /\ op = "poll" /\ op' = "none"
      /\ announced' = HasCompleteFrame(rx_fifo)
      /\ ret' = [status |-> IF HasCompleteFrame(rx_fifo) THEN "MESSAGE_READY"
                            ELSE "MESSAGE_NOT_READY",
                 count |-> 0]
      /\ UNCHANGED <<is_initialized, burst, txVars, rxVars, rxChip, peer>>
  BY DEF PollReturn, Return
<1>2. CallInv'
  <2>1. announced' \in BOOLEAN
    BY <1>1 DEF HasCompleteFrame
  <2>2. ret' \in [status : Status, count : Nat]
    BY <1>1 DEF Status
  <2> QED
    BY <1>1, <2>1, <2>2 DEF PortInv, CallInv, Pcs, txVars, rxVars, rxChip
<1>3. TxInv'
  BY <1>1, TxUntouched DEF PortInv, TxBurst, InFlight, Writing
<1>4. RxInv'
  BY <1>1, RxUntouched DEF PortInv, RxBurst, rxVars
<1> QED
  BY <1>2, <1>3, <1>4 DEF PortInv

(* What leaves rx_fifo is what the decoder has taken.                      *)
LEMMA DecodeFrameStep == ASSUME PortInv, DecodeFrame PROVE PortInv'
<1> DEFINE read == ReadFrame(rx_fifo, MaxEncoded)
           decoded == Decode(read.frame, QueueCapacity)
           ok == read.status = "OK" /\ decoded.status = "OK"
           short == ok /\ Len(decoded.data) > RxQueueRoom
           cut == Prefix(rx_fifo, Len(rx_fifo) - Len(read.rest))
<1>1. /\ pc = "staged"
      /\ rx_fifo' = read.rest /\ taken' = taken \o cut
      /\ rx_queue' = IF ok THEN rx_queue \o Prefix(decoded.data, RxQueueRoom) ELSE rx_queue
      /\ truncated' = (truncated \/ short)
      /\ \/ UNCHANGED <<pc, op, ret, length, announced>>
         \/ Return("INVALID_FRAME", 0) /\ length' = 0 /\ announced' = FALSE
      /\ UNCHANGED <<is_initialized, burst, txVars, todo, delivered, rxChip, peer>>
  BY DEF DecodeFrame
<1>2. /\ rx_fifo \in Bytes /\ rx_queue \in Bytes /\ taken \in Bytes /\ burst = <<>>
      /\ Len(rx_fifo) \in Nat /\ Len(rx_queue) \in Nat
      /\ RxQueueRoom \in Nat /\ RxQueueRoom = RxQueueCapacity - Len(rx_queue)
      /\ MaxEncoded \in Nat
  BY <1>1, RxTypes, PortAssumption, FrameAssumption DEF PortInv, CallInv, RxInv, MaxEncoded
<1>3. /\ read.frame \in Bytes /\ read.rest \in Bytes /\ Len(read.rest) <= Len(rx_fifo)
      /\ SubSeq(rx_fifo, 1, Len(rx_fifo) - Len(read.rest)) \in Bytes
      /\ SubSeq(rx_fifo, 1, Len(rx_fifo) - Len(read.rest)) \o read.rest = rx_fifo
  BY <1>2, ReadFrameCuts
<1>4. decoded.data \in Bytes
  BY <1>3, DecodeType, FrameAssumption
<1> HIDE DEF read, decoded
<1>5. Len(read.rest) \in Nat
  BY <1>3, EmptyBytes
<1>6. cut \in Bytes /\ cut \o read.rest = rx_fifo
  <2>1. AtMost(Len(rx_fifo) - Len(read.rest), Len(rx_fifo)) = Len(rx_fifo) - Len(read.rest)
    <3> DEFINE a == Len(rx_fifo)
               c == Len(read.rest)
    <3>1. a \in Nat /\ c \in Nat /\ c <= a
      BY <1>2, <1>3, <1>5
    <3> HIDE DEF a, c
    <3>2. AtMost(a - c, a) = a - c
      BY <3>1 DEF AtMost
    <3> QED
      BY <3>2 DEF a, c
  <2> QED
    BY <1>3, <2>1 DEF Prefix
<1>7. rx_queue' \in Bytes /\ Len(rx_queue') <= RxQueueCapacity
  <2>1. CASE ~ok
    BY <1>1, <2>1 DEF PortInv, RxInv
  <2>2. CASE ok
    <3> DEFINE fits == Prefix(decoded.data, RxQueueRoom)
    <3>1. /\ fits \in Bytes /\ Len(fits) = AtMost(RxQueueRoom, Len(decoded.data))
          /\ Len(decoded.data) \in Nat
      BY <1>2, <1>4, PrefixSuffix, EmptyBytes
    <3>2. Len(fits) \in Nat /\ Len(fits) <= RxQueueRoom
      BY <1>2, <3>1 DEF AtMost
    <3> HIDE DEF fits
    <3>3. rx_queue \o fits \in Bytes /\ Len(rx_queue \o fits) = Len(rx_queue) + Len(fits)
      BY <1>2, <3>1, Assoc
    <3>4. rx_queue' = rx_queue \o fits
      BY <1>1, <2>2 DEF fits
    <3> QED
      BY <1>2, <3>2, <3>3, <3>4, PortAssumption
  <2> QED
    BY <2>1, <2>2
<1> HIDE DEF ok, cut
<1>8. CallInv'
  <2>1. truncated' \in BOOLEAN
    BY <1>1 DEF PortInv, CallInv
  <2>2. CASE UNCHANGED <<pc, op, ret, length, announced>>
    BY <1>1, <2>1, <2>2 DEF PortInv, CallInv, txVars, rxChip
  <2>3. CASE Return("INVALID_FRAME", 0) /\ length' = 0 /\ announced' = FALSE
    <3>1. ret' \in [status : Status, count : Nat]
      BY <2>3 DEF Return, Status
    <3> QED
      BY <1>1, <2>1, <2>3, <3>1 DEF PortInv, CallInv, Return, Pcs, txVars, rxChip
  <2> QED
    BY <1>1, <2>2, <2>3
<1>9. pc' \in {"staged", "idle"} /\ TxBurst' = TxBurst /\ InFlight' = InFlight
  BY <1>1 DEF Return, TxBurst, InFlight, Writing, txVars
<1>10. TxInv'
  BY <1>1, <1>9, TxUntouched DEF PortInv
<1>11. RxInv'
  <2>1. RxConservation'
    <3>1. RxBurst = <<>> /\ RxBurst' = <<>>
      BY <1>1, <1>9 DEF RxBurst
    <3>2. (taken \o cut) \o read.rest = taken \o rx_fifo
      <4> DEFINE rest == read.rest
      <4>1. taken \in Bytes /\ cut \in Bytes /\ rest \in Bytes /\ cut \o rest = rx_fifo
        BY <1>2, <1>3, <1>6
      <4> HIDE DEF rest
      <4>2. (taken \o cut) \o rest = taken \o (cut \o rest)
        BY <4>1, Assoc
      <4> QED
        BY <4>1, <4>2 DEF rest
    <3> QED
      BY <1>1, <3>1, <3>2 DEF PortInv, RxInv, RxConservation, rxChip, peer
  <2>2. RxLevelHolds'
    BY <1>9 DEF RxLevelHolds
  <2>3. Len(rx_fifo') <= RxFifoCapacity
    BY <1>1, <1>2, <1>3, <1>5, PortAssumption DEF PortInv, RxInv
  <2>4. taken' \in Bytes
    BY <1>1, <1>2, <1>6, Assoc
  <2> QED
    BY <1>1, <1>3, <1>7, <2>1, <2>2, <2>3, <2>4 DEF PortInv, RxInv, rxChip, peer
<1> QED
  BY <1>8, <1>10, <1>11 DEF PortInv

LEMMA ReadFailedStep == ASSUME PortInv, ReadFailed PROVE PortInv'
<1>1. /\ pc = "staged" /\ pc' = "idle" /\ op = "read" /\ op' = "none"
      /\ length' = 0 /\ announced' = FALSE
      /\ ret' = [status |-> "INVALID_FRAME", count |-> 0]
      /\ UNCHANGED <<is_initialized, burst, txVars, rx_fifo, rx_queue, todo, taken,
                     delivered, truncated, rxChip, peer>>
  BY DEF ReadFailed, Return
<1>2. CallInv'
  <2>1. ret' \in [status : Status, count : Nat]
    BY <1>1 DEF Status
  <2> QED
    BY <1>1, <2>1 DEF PortInv, CallInv, Pcs, txVars, rxChip
<1>3. TxInv'
  BY <1>1, TxUntouched DEF PortInv, TxBurst, InFlight, Writing
<1>4. RxInv'
  BY <1>1, RxUntouched DEF PortInv, RxBurst
<1> QED
  BY <1>2, <1>3, <1>4 DEF PortInv

LEMMA ReadReturnStep == ASSUME PortInv, ReadReturn PROVE PortInv'
<1>1. /\ pc = "staged" /\ pc' = "idle" /\ op = "read" /\ op' = "none"
      /\ length' = 0 /\ announced' = FALSE
      /\ delivered' = delivered \o Prefix(rx_queue, length)
      /\ rx_queue' = Suffix(rx_queue, length)
      /\ ret' = [status |-> "OK", count |-> AtMost(length, Len(rx_queue))]
      /\ UNCHANGED <<is_initialized, burst, txVars, rx_fifo, todo, taken, truncated,
                     rxChip, peer>>
  BY DEF ReadReturn, Return
<1>2. /\ rx_queue \in Bytes /\ length \in Nat /\ delivered \in Bytes
      /\ Len(rx_queue) \in Nat
      /\ AtMost(length, Len(rx_queue)) \in 0..Len(rx_queue)
      /\ Prefix(rx_queue, length) \in Bytes
      /\ Suffix(rx_queue, length) \in Bytes
      /\ Len(Suffix(rx_queue, length)) = Len(rx_queue) - AtMost(length, Len(rx_queue))
  BY RxTypes, PrefixSuffix DEF PortInv, CallInv, RxInv
<1>3. CallInv'
  <2>1. ret' \in [status : Status, count : Nat]
    BY <1>1, <1>2 DEF Status
  <2>2. is_initialized
    BY <1>1 DEF PortInv, CallInv
  <2> QED
    BY <1>1, <2>1, <2>2 DEF PortInv, CallInv, Pcs, txVars, rxChip
<1>4. TxInv'
  BY <1>1, TxUntouched DEF PortInv, TxBurst, InFlight, Writing
<1>5. RxInv'
  <2>1. RxConservation'
    BY <1>1 DEF PortInv, RxInv, RxConservation, RxBurst, rxChip, peer
  <2>2. RxLevelHolds'
    BY <1>1 DEF RxLevelHolds
  <2>3. Len(rx_queue') <= RxQueueCapacity
    BY <1>1, <1>2, PortAssumption DEF PortInv, RxInv
  <2>4. delivered' \in Bytes
    BY <1>1, <1>2, Assoc
  <2> QED
    BY <1>1, <1>2, <2>1, <2>2, <2>3, <2>4 DEF PortInv, RxInv, rxChip, peer
<1> QED
  BY <1>3, <1>4, <1>5 DEF PortInv

-----------------------------------------------------------------------------
(* The line.                                                               *)

(* A byte that reaches the UART: it is kept if its RX FIFO has room.       *)
ByteReceived(b) ==
  /\ arrived' = arrived + 1
  /\ \/ Len(rx_chip) < FifoCapacity /\ rx_chip' = Append(rx_chip, b) /\ overrun' = overrun
     \/ overrun' = TRUE /\ rx_chip' = rx_chip
  /\ UNCHANGED <<rxVars, messages, call>>

LEMMA ByteReceivedStep ==
  ASSUME PortInv, NEW b \in AnyByte, ByteReceived(b),
         inbound' \in Bytes, arrived' \in 0..Len(inbound'),
         Prefix(inbound', arrived') = Prefix(inbound, arrived) \o <<b>>
  PROVE  RxInv'
<1>1. /\ arrived' = arrived + 1
      /\ \/ Len(rx_chip) < FifoCapacity /\ rx_chip' = Append(rx_chip, b) /\ overrun' = overrun
         \/ overrun' = TRUE /\ rx_chip' = rx_chip
      /\ UNCHANGED <<rxVars, messages, call>>
  BY DEF ByteReceived
<1>2. /\ rx_chip \in Bytes /\ Len(rx_chip) \in Nat /\ <<b>> \in Bytes
      /\ taken \o rx_fifo \o RxBurst \in Bytes
  <2>1. rx_chip \in Bytes /\ Len(rx_chip) \in Nat
    BY EmptyBytes DEF PortInv, RxInv
  <2>2. taken \in Bytes /\ rx_fifo \in Bytes /\ RxBurst \in Bytes
    BY EmptyBytes DEF PortInv, CallInv, RxInv, RxBurst
  <2>3. <<b>> \in Bytes
    BY DEF Bytes
  <2> QED
    BY <2>1, <2>2, <2>3, Assoc
<1>3. rx_chip' \in Bytes /\ Len(rx_chip') <= FifoCapacity /\ Len(rx_chip) <= Len(rx_chip')
      /\ Len(rx_chip') \in Nat
  <2>1. CASE Len(rx_chip) < FifoCapacity /\ rx_chip' = Append(rx_chip, b)
    BY <1>2, <2>1, AppendProperties, PortAssumption DEF Bytes
  <2>2. CASE rx_chip' = rx_chip
    BY <1>2, <2>2 DEF PortInv, RxInv
  <2> QED
    BY <1>1, <2>1, <2>2
<1>4. RxConservation'
  <2>1. CASE rx_chip' = Append(rx_chip, b) /\ overrun' = overrun
    <3>1. rx_chip' = rx_chip \o <<b>>
      BY <1>2, <2>1, AppendIsConcat DEF Bytes
    <3>2. (taken \o rx_fifo \o RxBurst) \o (rx_chip \o <<b>>)
            = ((taken \o rx_fifo \o RxBurst) \o rx_chip) \o <<b>>
      BY <1>2, Assoc
    <3>3. RxBurst' = RxBurst
      BY <1>1 DEF RxBurst, call
    <3> QED
      BY <1>1, <2>1, <3>1, <3>2, <3>3 DEF PortInv, RxInv, RxConservation, rxVars
  <2>2. CASE overrun' = TRUE
    BY <2>2 DEF RxConservation
  <2> QED
    BY <1>1, <2>1, <2>2
<1>5. RxLevelHolds'
  <2>1. /\ pc' = pc /\ todo' = todo /\ burst' = burst /\ RxFifoRoom' = RxFifoRoom
        /\ Len(rx_chip) <= Len(rx_chip')
    BY <1>1, <1>3 DEF RxFifoRoom, rxVars, call
  <2>2. todo \in Nat /\ Len(burst) \in Nat /\ Len(rx_chip') \in Nat /\ RxLevelHolds
    BY <1>3, RxTypes, PortAssumption DEF PortInv, RxInv
  <2> QED
    BY <1>2, <2>1, <2>2 DEF RxLevelHolds
<1> QED
  BY <1>1, <1>3, <1>4, <1>5 DEF PortInv, RxInv, rxVars

LEMMA ArriveStep == ASSUME PortInv, Arrive PROVE PortInv'
<1>1. PICK b : b = inbound[arrived + 1]
  OBVIOUS
<1>2. /\ arrived < Len(inbound) /\ ByteReceived(b)
      /\ UNCHANGED <<is_initialized, txVars, peer, call, announced>>
  BY <1>1 DEF Arrive, ByteReceived, peer
<1>3. inbound \in Bytes /\ Len(inbound) \in Nat /\ arrived \in Nat
  BY EmptyBytes DEF PortInv, RxInv
<1>4. b \in AnyByte
  BY <1>1, <1>2, <1>3, ElementOfSeq DEF Bytes
<1>5. Prefix(inbound, arrived + 1) = Prefix(inbound, arrived) \o <<b>>
  <2>1. AtMost(arrived + 1, Len(inbound)) = arrived + 1 /\ AtMost(arrived, Len(inbound)) = arrived
    BY <1>2, <1>3 DEF AtMost
  <2>2. 1 \in 1..Len(inbound) /\ arrived + 1 \in 1..Len(inbound)
    BY <1>2, <1>3
  <2>3. SubSeq(inbound, 1, arrived + 1) = SubSeq(inbound, 1, arrived + 1 - 1) \o <<inbound[arrived + 1]>>
    BY <1>3, <2>2, SubSeqRecursiveSecond DEF Bytes
  <2>4. arrived + 1 - 1 = arrived
    BY <1>3
  <2> QED
    BY <1>1, <2>1, <2>3, <2>4 DEF Prefix
<1>6. CallInv'
  BY <1>2 DEF PortInv, CallInv, ByteReceived, txVars, rxVars, call
<1>7. TxInv'
  BY <1>2, TxUntouched DEF PortInv, TxBurst, InFlight, Writing, call, txVars
<1>8. RxInv'
  <2>1. inbound' = inbound /\ arrived' = arrived + 1
    BY <1>2 DEF peer, ByteReceived
  <2>2. arrived' \in 0..Len(inbound')
    BY <1>2, <1>3, <2>1
  <2> QED
    BY <1>2, <1>3, <1>4, <1>5, <2>1, <2>2, ByteReceivedStep
<1> QED
  BY <1>6, <1>7, <1>8 DEF PortInv

LEMMA PeerSendStep ==
  ASSUME PortInv, NEW p \in PeerPayloads, PeerSend(p)
  PROVE  PortInv'
<1>1. /\ messages' = Append(messages, p) /\ inbound' = inbound \o Frame(p)
      /\ UNCHANGED <<is_initialized, txVars, rxVars, rxChip, call, announced>>
  BY DEF PeerSend
<1>2. p \in Bytes /\ Frame(p) \in Bytes /\ inbound \in Bytes /\ messages \in Seq(Bytes)
      /\ Len(inbound) \in Nat /\ arrived \in 0..Len(inbound) /\ Len(Frame(p)) \in Nat
  BY FrameType, EmptyBytes, PortAssumption DEF PortInv, RxInv
<1>3. inbound \o Frame(p) \in Bytes /\ Len(inbound \o Frame(p)) = Len(inbound) + Len(Frame(p))
  BY <1>2, Assoc
<1>4. Prefix(inbound \o Frame(p), arrived) = Prefix(inbound, arrived)
  <2>1. AtMost(arrived, Len(inbound \o Frame(p))) = arrived /\ AtMost(arrived, Len(inbound)) = arrived
    BY <1>2, <1>3 DEF AtMost
  <2>2. CASE arrived = 0
    BY <2>1, <2>2, SubSeqEmpty DEF Prefix
  <2>3. CASE arrived # 0
    <3>1. 1 \in 1..Len(inbound) /\ arrived \in 1..Len(inbound)
      BY <1>2, <2>3
    <3> QED
      BY <1>2, <2>1, <3>1, SubSeqOfConcat1 DEF Prefix, Bytes
  <2> QED
    BY <2>2, <2>3
<1>5. CallInv'
  BY <1>1 DEF PortInv, CallInv, txVars, rxVars, rxChip, call
<1>6. TxInv'
  BY <1>1, TxUntouched DEF PortInv, TxBurst, InFlight, Writing, call, txVars
<1>7. RxInv'
  <2>1. RxConservation'
    BY <1>1, <1>4 DEF PortInv, RxInv, RxConservation, RxBurst, rxVars, rxChip, call
  <2>2. RxLevelHolds'
    BY <1>1 DEF PortInv, RxInv, RxLevelHolds, RxFifoRoom, rxVars, rxChip, call
  <2>3. messages' \in Seq(Bytes)
    BY <1>1, <1>2, AppendProperties
  <2>4. inbound' \in Bytes /\ arrived' \in 0..Len(inbound')
    BY <1>1, <1>2, <1>3 DEF rxChip
  <2> QED
    BY <1>1, <2>1, <2>2, <2>3, <2>4 DEF PortInv, RxInv, rxVars, rxChip
<1> QED
  BY <1>5, <1>6, <1>7 DEF PortInv

LEMMA PortStutter == ASSUME PortInv, UNCHANGED vars PROVE PortInv'
<1>1. CallInv'
  BY DEF PortInv, CallInv, vars, txVars, rxVars, rxChip, call
<1>2. TxInv'
  BY TxUntouched DEF PortInv, vars, txVars, call, TxBurst, InFlight, Writing
<1>3. RxInv'
  BY RxUntouched DEF PortInv, vars, rxVars, rxChip, peer, call, RxBurst
<1> QED
  BY <1>1, <1>2, <1>3 DEF PortInv

-----------------------------------------------------------------------------
LEMMA PortNext == PortInv /\ [Next]_vars => PortInv'
<1> SUFFICES ASSUME PortInv, [Next]_vars PROVE PortInv'
  OBVIOUS
<1>1. CASE \E status \in {"INVALID_PORT", "INVALID_ARGUMENT"} : RejectCall(status)
  BY <1>1, RejectCallStep DEF Status
<1>2. CASE \E p \in Payloads : WriteRefused(p) \/ WriteAccepted(p)
  BY <1>2, WriteRefusedStep, WriteAcceptedStep
<1>3. CASE PollHw
  BY <1>3, PollHwStep
<1>4. CASE \E n \in ReadLengths : ReadHw(n)
  BY <1>4, ReadHwStep
<1>5. CASE CallStep
  BY <1>5, FlushLevelStep, StoreWordStep, WriteReturnStep, PollFlushedStep,
     StageLevelStep, RecheckLevelStep, LoadWordStep, StageDoneStep,
     PollReturnStep, DecodeFrameStep, ReadFailedStep, ReadReturnStep
     DEF CallStep
<1>6. CASE ShiftOut
  BY <1>6, ShiftOutStep
<1>7. CASE Arrive
  BY <1>7, ArriveStep
<1>8. CASE \E p \in PeerPayloads : PeerSend(p)
  BY <1>8, PeerSendStep
<1>9. CASE UNCHANGED vars
  BY <1>9, PortStutter
<1> QED
  BY <1>1, <1>2, <1>3, <1>4, <1>5, <1>6, <1>7, <1>8, <1>9 DEF Next

LEMMA PortInvHolds == Spec => []PortInv
  BY PortInit, PortNext, PTL DEF Spec

(* No ring of the port and no local buffer of a call ever exceeds its      *)
(* capacity, and every call returns one of the documented results.         *)
THEOREM PortTypeOK == Spec => []TypeOK
  BY PortInvHolds, PortInvImplies, PTL

(* xr17v358_write_hw and xr17v358_poll_hw_port put on the line exactly the *)
(* frames of the payloads that writes reported, in order, whatever the     *)
(* UART drains while a flush is under way.                                 *)
THEOREM PortTxConservation == Spec => []TxConservation
  BY PortInvHolds, PortInvImplies, PTL

(* xr17v358_read_hw and xr17v358_poll_hw_port hand the decoder every byte  *)
(* the UART received without an overrun, in order.                         *)
THEOREM PortRxConservation == Spec => []RxConservation
  BY PortInvHolds, PortInvImplies, PTL

(* The level a flush or a staging has read still holds when it moves the   *)
(* bytes, so neither the UART nor rx_fifo is ever given too many.          *)
THEOREM PortTxLevelHolds == Spec => []TxLevelHolds
  BY PortInvHolds, PortInvImplies, PTL

(* The receive half of the same statement.                                 *)
THEOREM PortRxLevelHolds == Spec => []RxLevelHolds
  BY PortInvHolds, PortInvImplies, PTL

-----------------------------------------------------------------------------
(* Whole messages.  A stream of messages is the concatenation of their     *)
(* frames, and the decoder takes it frame by frame however it was cut up.  *)

FramesUpTo(ms, k) == FlattenSeq([i \in 1..k |-> Frame(ms[i])])
DataUpTo(ms, k) == FlattenSeq(SubSeq(ms, 1, k))

(* Messages a peer can send: their encoder refuses none.                   *)
Sendable(ms) == ms \in Seq(Bytes) /\ \A i \in 1..Len(ms) : Encodable(ms[i], MaxEncoded)

LEMMA FirstMessages ==
  ASSUME NEW ms \in Seq(Bytes), NEW k \in 0..Len(ms)
  PROVE  /\ [i \in 1..k |-> Frame(ms[i])] \in Seq(Bytes)
         /\ Len([i \in 1..k |-> Frame(ms[i])]) = k
         /\ SubSeq(ms, 1, k) \in Seq(Bytes)
         /\ Len(SubSeq(ms, 1, k)) = k
         /\ \A i \in 1..k : SubSeq(ms, 1, k)[i] = ms[i]
         /\ FramesUpTo(ms, k) \in Bytes /\ DataUpTo(ms, k) \in Bytes
<1>1. k \in Nat /\ Len(ms) \in Nat /\ \A i \in 1..k : ms[i] \in Bytes
  BY ElementOfSeq
<1> DEFINE s == [i \in 1..k |-> Frame(ms[i])]
           t == SubSeq(ms, 1, k)
<1>2. s \in Seq(Bytes) /\ Len(s) = k
  BY <1>1, FrameType
<1>3. t \in Seq(Bytes) /\ Len(t) = k /\ \A i \in 1..k : t[i] = ms[i]
  <2>1. CASE k = 0
    <3>1. t = <<>>
      BY <2>1, SubSeqEmpty
    <3> HIDE DEF t
    <3> QED
      BY <2>1, <3>1, EmptySeq
  <2>2. CASE k # 0
    BY <1>1, <2>2, SubSeqProperties
  <2> QED
    BY <2>1, <2>2
<1> HIDE DEF s, t
<1>4. FlattenSeq(s) \in Bytes /\ FlattenSeq(t) \in Bytes
  BY <1>2, <1>3, FlattenAppend
<1> QED
  BY <1>2, <1>3, <1>4 DEF s, t, FramesUpTo, DataUpTo

LEMMA NoMessages == ASSUME NEW ms PROVE FramesUpTo(ms, 0) = <<>> /\ DataUpTo(ms, 0) = <<>>
<1>1. [i \in 1..0 |-> Frame(ms[i])] = <<>>
  OBVIOUS
<1>2. SubSeq(ms, 1, 0) = <<>>
  BY SubSeqEmpty
<1> QED
  BY <1>1, <1>2, FlattenAppend DEF FramesUpTo, DataUpTo

LEMMA NextMessageAppends ==
  ASSUME NEW ms \in Seq(Bytes), NEW k \in Nat, k < Len(ms)
  PROVE  /\ FramesUpTo(ms, k + 1) = FramesUpTo(ms, k) \o Frame(ms[k + 1])
         /\ DataUpTo(ms, k + 1) = DataUpTo(ms, k) \o ms[k + 1]
<1> DEFINE s(j) == [i \in 1..j |-> Frame(ms[i])]
           t(j) == SubSeq(ms, 1, j)
           x == Frame(ms[k + 1])
<1>1. k \in 0..Len(ms) /\ k + 1 \in 0..Len(ms) /\ k + 1 \in 1..Len(ms) /\ 1 \in 1..Len(ms)
      /\ Len(ms) \in Nat /\ k + 1 - 1 = k /\ 1 <= k + 1
  OBVIOUS
<1>2. ms[k + 1] \in Bytes /\ x \in Bytes
  BY <1>1, ElementOfSeq, FrameType
<1>3. s(k + 1) = Append(s(k), x)
  <2>1. s(k) \in Seq(Bytes) /\ Len(s(k)) = k /\ s(k + 1) \in Seq(Bytes) /\ Len(s(k + 1)) = k + 1
    BY <1>1, FirstMessages
  <2>2. \A i \in 1..k : s(k)[i] = Frame(ms[i])
    OBVIOUS
  <2>3. \A i \in 1..(k + 1) : s(k + 1)[i] = Frame(ms[i])
    OBVIOUS
  <2> DEFINE a == s(k)
             b == s(k + 1)
             c == Append(a, x)
  <2> HIDE DEF a, b
  <2>4. c \in Seq(Bytes) /\ Len(c) = k + 1 /\ (\A i \in 1..k : c[i] = a[i]) /\ c[k + 1] = x
    BY <1>2, <2>1, AppendProperties DEF a
  <2> HIDE DEF c
  <2>5. \A i \in 1..(k + 1) : c[i] = b[i]
    BY <2>2, <2>3, <2>4 DEF a, b
  <2>6. c = b
    BY <2>1, <2>4, <2>5, SeqEqual DEF b
  <2> QED
    BY <2>6 DEF a, b, c
<1>4. t(k + 1) = Append(t(k), ms[k + 1])
  <2>1. t(k) \in Seq(Bytes)
    BY <1>1, FirstMessages
  <2>2. t(k + 1) = t(k) \o <<ms[k + 1]>>
    BY <1>1, SubSeqRecursiveSecond
  <2> QED
    BY <1>2, <2>1, <2>2, AppendIsConcat
<1>5. s(k) \in Seq(Bytes) /\ t(k) \in Seq(Bytes)
  BY <1>1, FirstMessages
<1>6. FlattenSeq(Append(s(k), x)) = FlattenSeq(s(k)) \o x
  <2> DEFINE a == s(k)
  <2> HIDE DEF a, x
  <2>1. FlattenSeq(Append(a, x)) = FlattenSeq(a) \o x
    BY <1>2, <1>5, FlattenAppend DEF a
  <2> QED
    BY <2>1 DEF a
<1>7. FlattenSeq(Append(t(k), ms[k + 1])) = FlattenSeq(t(k)) \o ms[k + 1]
  BY <1>2, <1>5, FlattenAppend
<1> QED
  BY <1>3, <1>4, <1>6, <1>7 DEF FramesUpTo, DataUpTo

(* Sending one more message changes nothing of the earlier ones.           *)
LEMMA OneMore ==
  ASSUME NEW ms \in Seq(Bytes), NEW p \in Bytes, NEW k \in 0..Len(ms)
  PROVE  FramesUpTo(Append(ms, p), k) = FramesUpTo(ms, k) /\ DataUpTo(Append(ms, p), k) = DataUpTo(ms, k)
<1> DEFINE n == Append(ms, p)
<1>1. n \in Seq(Bytes) /\ Len(n) = Len(ms) + 1 /\ \A i \in 1..Len(ms) : n[i] = ms[i]
  BY AppendProperties
<1> HIDE DEF n
<1>2. k \in 0..Len(n) /\ \A i \in 1..k : n[i] = ms[i]
  BY <1>1
<1>3. [i \in 1..k |-> Frame(n[i])] = [i \in 1..k |-> Frame(ms[i])]
  BY <1>2
<1>4. SubSeq(n, 1, k) = SubSeq(ms, 1, k)
  <2> DEFINE a == SubSeq(n, 1, k)
             b == SubSeq(ms, 1, k)
  <2>1. a \in Seq(Bytes) /\ b \in Seq(Bytes) /\ Len(a) = k /\ Len(b) = k
        /\ (\A i \in 1..k : a[i] = n[i]) /\ (\A i \in 1..k : b[i] = ms[i])
    BY <1>1, <1>2, FirstMessages
  <2> HIDE DEF a, b
  <2>2. \A i \in 1..Len(a) : a[i] = b[i]
    BY <1>2, <2>1
  <2>3. a = b
    BY <2>1, <2>2, SeqEqual
  <2> QED
    BY <2>3 DEF a, b
<1> QED
  BY <1>3, <1>4 DEF n, FramesUpTo, DataUpTo

(* The stream of all messages begins with the frames of the first ones.    *)
LEMMA StreamSplits ==
  ASSUME NEW ms \in Seq(Bytes), NEW n \in 0..Len(ms), NEW k \in 0..n
  PROVE  /\ \E y \in Bytes : FramesUpTo(ms, n) = FramesUpTo(ms, k) \o y
         /\ \E y \in Bytes : DataUpTo(ms, n) = DataUpTo(ms, k) \o y
<1>1. n \in Nat /\ k \in Nat /\ k <= n /\ Len(ms) \in Nat /\ k \in 0..Len(ms)
  OBVIOUS
<1> DEFINE s == [i \in 1..n |-> Frame(ms[i])]
           t == SubSeq(ms, 1, n)
<1>2. /\ s \in Seq(Bytes) /\ Len(s) = n /\ t \in Seq(Bytes) /\ Len(t) = n
      /\ \A i \in 1..n : t[i] = ms[i]
  BY FirstMessages
<1>3. \A i \in 1..n : s[i] = Frame(ms[i])
  OBVIOUS
<1> HIDE DEF s, t
<1>4. SubSeq(s, 1, k) = [i \in 1..k |-> Frame(ms[i])]
  <2> DEFINE a == SubSeq(s, 1, k)
             b == [i \in 1..k |-> Frame(ms[i])]
  <2>1. b \in Seq(Bytes) /\ Len(b) = k /\ \A i \in 1..k : b[i] = Frame(ms[i])
    BY <1>1, FirstMessages
  <2>2. a \in Seq(Bytes) /\ Len(a) = k /\ \A i \in 1..k : a[i] = s[i]
    BY <1>1, <1>2, FirstMessages
  <2> HIDE DEF a, b
  <2>3. \A i \in 1..Len(a) : a[i] = b[i]
    BY <1>1, <1>3, <2>1, <2>2
  <2>4. a = b
    BY <2>1, <2>2, <2>3, SeqEqual
  <2> QED
    BY <2>4 DEF a, b
<1>5. SubSeq(t, 1, k) = SubSeq(ms, 1, k)
  <2> DEFINE a == SubSeq(t, 1, k)
             b == SubSeq(ms, 1, k)
  <2>1. b \in Seq(Bytes) /\ Len(b) = k /\ \A i \in 1..k : b[i] = ms[i]
    BY <1>1, FirstMessages
  <2>2. a \in Seq(Bytes) /\ Len(a) = k /\ \A i \in 1..k : a[i] = t[i]
    BY <1>1, <1>2, FirstMessages
  <2> HIDE DEF a, b
  <2>3. \A i \in 1..Len(a) : a[i] = b[i]
    BY <1>1, <1>2, <2>1, <2>2
  <2>4. a = b
    BY <2>1, <2>2, <2>3, SeqEqual
  <2> QED
    BY <2>4 DEF a, b
<1>6. k \in 0..Len(s) /\ k \in 0..Len(t)
  BY <1>1, <1>2
<1>7. /\ \E y \in Bytes : FlattenSeq(s) = FlattenSeq(SubSeq(s, 1, k)) \o y
      /\ \E y \in Bytes : FlattenSeq(t) = FlattenSeq(SubSeq(t, 1, k)) \o y
  BY <1>2, <1>6, FlattenSplit
<1> QED
  BY <1>4, <1>5, <1>7 DEF FramesUpTo, DataUpTo, s, t

(* A decoder that stands between two messages and sees two delimiters      *)
(* takes the whole next message and nothing else.                          *)
LEMMA NextMessageTaken ==
  ASSUME NEW ms, Sendable(ms), NEW n \in 0..Len(ms), NEW k \in 0..n,
         NEW q \in Bytes, NEW w \in Bytes, FramesUpTo(ms, k) \o (q \o w) = FramesUpTo(ms, n),
         HasCompleteFrame(q)
  PROVE  LET read == ReadFrame(q, MaxEncoded)
         IN  /\ k < n
             /\ read.status = "OK"
             /\ Decode(read.frame, QueueCapacity) = [status |-> "OK", data |-> ms[k + 1]]
             /\ FramesUpTo(ms, k) \o Prefix(q, Len(q) - Len(read.rest)) = FramesUpTo(ms, k + 1)
<1>1. /\ ms \in Seq(Bytes) /\ n \in Nat /\ k \in Nat /\ k <= n /\ n <= Len(ms) /\ Len(ms) \in Nat
      /\ k \in 0..Len(ms)
  BY DEF Sendable
<1> DEFINE a == FramesUpTo(ms, k)
<1>2. a \in Bytes /\ q \o w \in Bytes
  BY <1>1, FirstMessages, Assoc
<1>3. k < n
  <2> SUFFICES ASSUME k = n PROVE FALSE
    BY <1>1
  <2>1. a \o (q \o w) = a
    OBVIOUS
  <2> HIDE DEF a
  <2>2. a \o (q \o w) = a \o <<>>
    BY <1>2, <2>1, EmptyBytes
  <2>3. q \o w = <<>>
    BY <1>2, <2>2, EmptyBytes, Cancel
  <2>4. Len(q) + Len(w) = 0 /\ Len(q) \in Nat /\ Len(w) \in Nat
    BY <2>3, Assoc, EmptyBytes
  <2>5. q = <<>>
    BY <2>4, EmptyBytes
  <2>6. Delimiters(<<>>) = {}
    BY EmptyBytes DEF Delimiters
  <2>7. Cardinality(Delimiters(q)) = 0
    BY <2>5, <2>6, FS_EmptySet
  <2>8. Cardinality(Delimiters(q)) >= 2
    BY DEF HasCompleteFrame
  <2> QED
    BY <2>7, <2>8
<1>4. k < Len(ms) /\ k + 1 \in 1..Len(ms) /\ k + 1 \in 0..n
  BY <1>1, <1>3
<1> DEFINE p == ms[k + 1]
           f == Frame(p)
<1>5. p \in Bytes /\ Encodable(p, MaxEncoded)
  BY <1>1, <1>4, ElementOfSeq DEF Sendable
<1> HIDE DEF p
<1>6. IsFrame(f) /\ f \in Bytes /\ MaxEncoded \in Nat
  BY <1>5, EncodeShape, FrameAssumption DEF IsFrame, Frame, MaxEncoded
<1>7. FramesUpTo(ms, k + 1) = a \o f
  BY <1>1, <1>4, NextMessageAppends DEF p
<1>8. PICK y \in Bytes : FramesUpTo(ms, n) = (a \o f) \o y
  BY <1>1, <1>4, <1>7, StreamSplits
<1>9. a \o (q \o w) = (a \o f) \o y
  BY <1>8
<1> HIDE DEF a, f
<1>10. PICK r \in Bytes : q = f \o r
  <2> DEFINE u == q \o w
             v == f \o y
  <2>1. a \in Seq(AnyByte) /\ f \in Seq(AnyByte) /\ y \in Seq(AnyByte)
    BY <1>2, <1>6, <1>8 DEF Bytes
  <2>2. (a \o f) \o y = a \o v
    BY <2>1, ConcatAssociative
  <2>3. v \in Bytes
    BY <2>1, ConcatProperties DEF Bytes
  <2>4. u \in Bytes /\ a \o u = a \o v
    BY <1>2, <1>9, <2>2
  <2> HIDE DEF u, v
  <2>5. u = v
    BY <1>2, <2>3, <2>4, Cancel
  <2>6. q \o w = f \o y
    BY <2>5 DEF u, v
  <2>7. IsFrame(f) /\ HasCompleteFrame(q) /\ y \in Bytes
    BY <1>6, <1>8
  <2>8. BeginsWith(q, f)
    BY <2>6, <2>7, HeadOfStream
  <2> QED
    BY <2>8 DEF BeginsWith
<1> DEFINE read == ReadFrame(q, MaxEncoded)
<1>11. read = [status |-> "OK", frame |-> f, rest |-> r]
  <2> DEFINE z == <<>> \o f
  <2>1. <<>> \in Bytes /\ Delimiters(<<>>) = {} /\ z = f
    BY <1>6, EmptyBytes DEF Delimiters
  <2>2. ReadFrame(z \o r, MaxEncoded) = [status |-> "OK", frame |-> f, rest |-> r]
    BY <1>6, <1>10, <2>1, BehindNoise
  <2> HIDE DEF z
  <2>3. z \o r = q
    BY <1>10, <2>1
  <2> QED
    BY <2>2, <2>3
<1> HIDE DEF read
<1>12. read.status = "OK" /\ read.frame = f /\ read.rest = r
  BY <1>11
<1>13. Decode(f, QueueCapacity) = [status |-> "OK", data |-> p]
  BY <1>5, <1>6, DecodeUndoesEncode DEF f, Frame
<1>14. Prefix(q, Len(q) - Len(r)) = f
  <2> DEFINE l == Len(f)
             m == Len(r)
  <2>1. Len(q) = l + m /\ l \in Nat /\ m \in Nat
    BY <1>6, <1>10, Assoc, EmptyBytes
  <2>2. l # 0
    <3>1. l \in 3..MaxEncoded
      BY <1>6 DEF IsFrame
    <3> HIDE DEF l
    <3> QED
      BY <1>6, <3>1
  <2> HIDE DEF l, m
  <2>3. Len(q) - m = l /\ AtMost(l, Len(q)) = l /\ 1 \in 1..l /\ l \in 1..l /\ 1 <= l
    BY <2>1, <2>2 DEF AtMost
  <2>4. Prefix(q, Len(q) - m) = SubSeq(q, 1, l)
    BY <2>3 DEF Prefix
  <2>5. SubSeq(q, 1, l) = SubSeq(f, 1, l)
    BY <1>6, <1>10, <2>3, ConcatSubSeq DEF l
  <2>6. SubSeq(f, 1, l) = f
    BY <1>6, SubSeqFull DEF Bytes, l
  <2> QED
    BY <2>4, <2>5, <2>6 DEF m
<1> QED
  BY <1>3, <1>7, <1>12, <1>13, <1>14 DEF a, p, read

-----------------------------------------------------------------------------
(* The decoder stands between two messages of the stream, and the reads    *)
(* have returned, or hold in rx_queue, the payloads of those before.       *)
Standing(ms) ==
  ~overrun => \E k \in 0..Len(ms) :
                /\ taken = FramesUpTo(ms, k)
                /\ ~truncated => delivered \o rx_queue = DataUpTo(ms, k)

(* A step that neither decodes nor reads leaves the decoder where it is.   *)
LEMMA StandingKept ==
  ASSUME NEW ms, Standing(ms), overrun => overrun', overrun \in BOOLEAN, overrun' \in BOOLEAN,
         UNCHANGED <<taken, delivered, rx_queue, truncated>>
  PROVE  Standing(ms)'
  BY DEF Standing

(* More messages do not move it.                                           *)
LEMMA StandingOfMore ==
  ASSUME NEW ms \in Seq(Bytes), NEW p \in Bytes, Standing(ms)'
  PROVE  Standing(Append(ms, p))'
<1> SUFFICES ASSUME ~overrun'
             PROVE  \E k \in 0..Len(Append(ms, p)) :
                      /\ taken' = FramesUpTo(Append(ms, p), k)
                      /\ ~truncated' => delivered' \o rx_queue' = DataUpTo(Append(ms, p), k)
  BY DEF Standing
<1>1. PICK k \in 0..Len(ms) : /\ taken' = FramesUpTo(ms, k)
                              /\ ~truncated' => delivered' \o rx_queue' = DataUpTo(ms, k)
  BY DEF Standing
<1>2. FramesUpTo(Append(ms, p), k) = FramesUpTo(ms, k) /\ DataUpTo(Append(ms, p), k) = DataUpTo(ms, k)
  BY <1>1, OneMore
<1>3. k \in 0..Len(Append(ms, p))
  BY <1>1, AppendProperties
<1> QED
  BY <1>1, <1>2, <1>3

(* A read moves bytes from rx_queue to the application, and drops none.    *)
LEMMA ReadReturnStands ==
  ASSUME PortInv, NEW ms, Standing(ms), ReadReturn
  PROVE  Standing(ms)'
<1> DEFINE P == Prefix(rx_queue, length)
           S == Suffix(rx_queue, length)
<1>1. /\ delivered' = delivered \o P /\ rx_queue' = S
      /\ UNCHANGED <<taken, truncated, overrun>>
  BY DEF ReadReturn, rxChip
<1>2. delivered \in Bytes /\ P \in Bytes /\ S \in Bytes /\ P \o S = rx_queue
  BY PrefixSuffix DEF PortInv, CallInv, RxInv
<1> HIDE DEF P, S
<1>3. (delivered \o P) \o S = delivered \o (P \o S)
  BY <1>2, Assoc
<1>4. delivered' \o rx_queue' = delivered \o rx_queue
  BY <1>1, <1>2, <1>3
<1> QED
  BY <1>1, <1>4 DEF Standing

(* What a read decodes is exactly the next message of the stream: all that *)
(* the line will still bring (y) behind what has been received is frames.  *)
DecodesNext(ms, k) ==
  LET read == ReadFrame(rx_fifo, MaxEncoded)
  IN  /\ k < Len(ms)
      /\ taken = FramesUpTo(ms, k)
      /\ ~truncated => delivered \o rx_queue = DataUpTo(ms, k)
      /\ read.status = "OK"
      /\ Decode(read.frame, QueueCapacity) = [status |-> "OK", data |-> ms[k + 1]]
      /\ taken \o Prefix(rx_fifo, Len(rx_fifo) - Len(read.rest)) = FramesUpTo(ms, k + 1)

LEMMA DecodeTakes ==
  ASSUME PortInv, NEW ms, Sendable(ms), Standing(ms), NEW y \in Bytes,
         inbound \o y = FramesUpTo(ms, Len(ms)), ~overrun,
         pc = "staged", HasCompleteFrame(rx_fifo)
  PROVE  \E k \in 0..Len(ms) : DecodesNext(ms, k)
<1>1. PICK k \in 0..Len(ms) : /\ taken = FramesUpTo(ms, k)
                              /\ ~truncated => delivered \o rx_queue = DataUpTo(ms, k)
  BY DEF Standing
<1> DEFINE n == Len(ms)
           read == ReadFrame(rx_fifo, MaxEncoded)
           w == (rx_chip \o Suffix(inbound, arrived)) \o y
<1>2. /\ rx_fifo \in Bytes /\ rx_queue \in Bytes /\ taken \in Bytes /\ rx_chip \in Bytes
      /\ inbound \in Bytes /\ delivered \in Bytes /\ arrived \in Nat /\ truncated \in BOOLEAN
      /\ RxQueueRoom \in Nat /\ ms \in Seq(Bytes) /\ n \in Nat /\ k \in Nat /\ k <= n
      /\ n \in 0..Len(ms) /\ k \in 0..n
  BY <1>1, RxTypes, PortAssumption DEF PortInv, CallInv, RxInv, Sendable
<1>3. w \in Bytes /\ taken \o (rx_fifo \o w) = FramesUpTo(ms, n)
  <2> DEFINE S == Suffix(inbound, arrived)
             P == Prefix(inbound, arrived)
             c == rx_chip \o S
  <2>1. S \in Bytes /\ P \in Bytes /\ P \o S = inbound
    BY <1>2, PrefixSuffix
  <2>2. (taken \o rx_fifo) \o <<>> = taken \o rx_fifo
    BY <1>2, Assoc, EmptyBytes
  <2>3. (taken \o rx_fifo) \o rx_chip = P
    BY <2>2 DEF PortInv, RxInv, RxConservation, RxBurst
  <2>4. inbound \o y = FramesUpTo(ms, n)
    OBVIOUS
  <2>5. w = c \o y
    OBVIOUS
  <2> HIDE DEF S, P, w, n
  <2>6. c \in Bytes
    BY <1>2, <2>1, Assoc
  <2>7. taken \o rx_fifo \in Bytes
    BY <1>2, Assoc
  <2>8. (taken \o rx_fifo) \o c = inbound
    <3> DEFINE a == taken \o rx_fifo
    <3> HIDE DEF a
    <3>1. a \in Seq(AnyByte) /\ rx_chip \in Seq(AnyByte) /\ S \in Seq(AnyByte)
      BY <1>2, <2>1, <2>7 DEF Bytes, a
    <3>2. (a \o rx_chip) \o S = a \o (rx_chip \o S)
      BY <3>1, ConcatAssociative
    <3>3. a \o rx_chip = P
      BY <2>3 DEF a
    <3>4. a \o c = inbound
      BY <2>1, <3>2, <3>3
    <3> QED
      BY <3>4 DEF a
  <2> HIDE DEF c
  <2>9. c \o y \in Bytes /\ rx_fifo \o (c \o y) \in Bytes
    BY <1>2, <2>6, Assoc
  <2>10. ((taken \o rx_fifo) \o c) \o y = (taken \o rx_fifo) \o (c \o y)
    BY <2>6, <2>7, Assoc
  <2> DEFINE v == c \o y
  <2>11. v \in Bytes
    BY <2>9
  <2> HIDE DEF v
  <2>12. (taken \o rx_fifo) \o v = taken \o (rx_fifo \o v)
    <3>1. taken \in Seq(AnyByte) /\ rx_fifo \in Seq(AnyByte) /\ v \in Seq(AnyByte)
      BY <1>2, <2>11 DEF Bytes
    <3> QED
      BY <3>1, ConcatAssociative
  <2>13. taken \o (rx_fifo \o v) = FramesUpTo(ms, n)
    BY <2>4, <2>8, <2>10, <2>12 DEF v
  <2> QED
    BY <2>5, <2>11, <2>13 DEF v
<1> HIDE DEF w, n
<1>4. FramesUpTo(ms, k) \o (rx_fifo \o w) = FramesUpTo(ms, n)
  BY <1>1, <1>3
<1>5. /\ k < n /\ read.status = "OK"
      /\ Decode(read.frame, QueueCapacity) = [status |-> "OK", data |-> ms[k + 1]]
      /\ FramesUpTo(ms, k) \o Prefix(rx_fifo, Len(rx_fifo) - Len(read.rest)) = FramesUpTo(ms, k + 1)
  <2>1. n \in 0..Len(ms) /\ k \in 0..n /\ rx_fifo \in Bytes /\ w \in Bytes
    BY <1>2, <1>3
  <2> QED
    BY <2>1, <1>4, NextMessageTaken
<1>6. DecodesNext(ms, k)
  BY <1>1, <1>5 DEF DecodesNext, n
<1> QED
  BY <1>1, <1>6

LEMMA DecodeStands ==
  ASSUME PortInv, NEW ms, Sendable(ms), Standing(ms), NEW y \in Bytes,
         ~overrun => inbound \o y = FramesUpTo(ms, Len(ms)), DecodeFrame
  PROVE  Standing(ms)'
<1> SUFFICES ASSUME ~overrun
             PROVE  \E k \in 0..Len(ms) :
                      /\ taken' = FramesUpTo(ms, k)
                      /\ ~truncated' => delivered' \o rx_queue' = DataUpTo(ms, k)
  BY DEF Standing, DecodeFrame, rxChip
<1> DEFINE read == ReadFrame(rx_fifo, MaxEncoded)
           decoded == Decode(read.frame, QueueCapacity)
           ok == read.status = "OK" /\ decoded.status = "OK"
           short == ok /\ Len(decoded.data) > RxQueueRoom
<1>1. /\ pc = "staged" /\ HasCompleteFrame(rx_fifo)
      /\ taken' = taken \o Prefix(rx_fifo, Len(rx_fifo) - Len(read.rest))
      /\ rx_queue' = IF ok THEN rx_queue \o Prefix(decoded.data, RxQueueRoom) ELSE rx_queue
      /\ truncated' = (truncated \/ short) /\ delivered' = delivered
  BY DEF DecodeFrame, MayDecode
<1>2. PICK k \in 0..Len(ms) : DecodesNext(ms, k)
  BY <1>1, DecodeTakes
<1>3. /\ rx_queue \in Bytes /\ delivered \in Bytes /\ truncated \in BOOLEAN
      /\ RxQueueRoom \in Nat /\ ms \in Seq(Bytes) /\ Len(ms) \in Nat /\ k \in Nat
  BY <1>2, RxTypes, PortAssumption DEF PortInv, CallInv, RxInv, Sendable
<1>4. /\ k < Len(ms) /\ read.status = "OK" /\ decoded.status = "OK" /\ decoded.data = ms[k + 1]
      /\ ~truncated => delivered \o rx_queue = DataUpTo(ms, k)
  BY <1>2 DEF DecodesNext
<1>5. taken' = FramesUpTo(ms, k + 1)
  BY <1>1, <1>2 DEF DecodesNext
<1> HIDE DEF read, decoded
<1>6. ok
  BY <1>4
<1>7. k + 1 \in 0..Len(ms) /\ k + 1 \in 1..Len(ms)
  BY <1>3, <1>4
<1>8. ASSUME ~truncated'
       PROVE  delivered' \o rx_queue' = DataUpTo(ms, k + 1)
  <2> DEFINE p == ms[k + 1]
  <2>1. p \in Bytes /\ Len(p) \in Nat
    BY <1>3, <1>7, ElementOfSeq, EmptyBytes
  <2>2. ~truncated /\ ~(Len(p) > RxQueueRoom)
    BY <1>1, <1>4, <1>6, <1>8
  <2>3. DataUpTo(ms, k + 1) = DataUpTo(ms, k) \o p
    BY <1>3, <1>4, NextMessageAppends
  <2>4. rx_queue' = rx_queue \o Prefix(p, RxQueueRoom)
    BY <1>1, <1>4, <1>6
  <2> HIDE DEF p
  <2>5. Prefix(p, RxQueueRoom) = p
    <3>1. AtMost(RxQueueRoom, Len(p)) = Len(p)
      BY <1>3, <2>1, <2>2 DEF AtMost
    <3> QED
      BY <2>1, <3>1, SubSeqFull DEF Prefix, Bytes
  <2>6. (delivered \o rx_queue) \o p = delivered \o (rx_queue \o p)
    <3>1. delivered \in Seq(AnyByte) /\ rx_queue \in Seq(AnyByte) /\ p \in Seq(AnyByte)
      BY <1>3, <2>1 DEF Bytes
    <3> QED
      BY <3>1, ConcatAssociative
  <2>7. delivered' \o rx_queue' = (delivered \o rx_queue) \o p
    BY <1>1, <2>4, <2>5, <2>6
  <2> QED
    BY <1>4, <2>2, <2>3, <2>7
<1> QED
  BY <1>5, <1>7, <1>8

(* No step of the port takes the decoder off the messages' boundaries.     *)
LEMMA NextStands ==
  ASSUME PortInv, NEW ms, Sendable(ms), Standing(ms), NEW y \in Bytes,
         ~overrun => inbound \o y = FramesUpTo(ms, Len(ms)), [Next]_vars
  PROVE  Standing(ms)'
<1>1. overrun \in BOOLEAN /\ overrun' \in BOOLEAN
  BY PortNext DEF PortInv, CallInv
<1>2. CASE \E status \in {"INVALID_PORT", "INVALID_ARGUMENT"} : RejectCall(status)
  BY <1>1, <1>2, InitializationKeeps, StandingKept DEF RejectCall, rxChip
<1>3. CASE \E p \in Payloads : WriteRefused(p) \/ WriteAccepted(p)
  <2>1. EnsureInitialized /\ UNCHANGED <<taken, delivered, truncated, rxChip>>
    BY <1>3 DEF WriteRefused, WriteAccepted
  <2>2. rx_queue' = rx_queue
    BY <2>1, KeptIsAll DEF PortInv, EnsureInitialized
  <2> QED
    BY <1>1, <2>1, <2>2, StandingKept DEF rxChip
<1>4. CASE PollHw
  BY <1>1, <1>4, InitializationKeeps, StandingKept DEF PollHw, rxChip
<1>5. CASE \E n \in ReadLengths : ReadHw(n)
  BY <1>1, <1>5, InitializationKeeps, StandingKept DEF ReadHw, rxChip
<1>6. CASE DecodeFrame
  BY <1>6, DecodeStands
<1>7. CASE ReadReturn
  BY <1>7, ReadReturnStands
<1>8. CASE CallStep /\ ~DecodeFrame /\ ~ReadReturn
  <2>1. UNCHANGED <<taken, delivered, rx_queue, truncated, overrun>>
    BY <1>8 DEF CallStep, FlushLevel, StoreWord, WriteReturn, PollFlushed, StageLevel,
                RecheckLevel, LoadWord, StageDone, PollReturn, ReadFailed, rxVars, rxChip
  <2> QED
    BY <1>1, <2>1, StandingKept
<1>9. CASE Arrive
  <2>1. UNCHANGED <<taken, delivered, rx_queue, truncated>> /\ (overrun => overrun')
    BY <1>9 DEF Arrive, rxVars
  <2> QED
    BY <1>1, <2>1, StandingKept
<1>10. CASE ShiftOut \/ (\E p \in PeerPayloads : PeerSend(p)) \/ UNCHANGED vars
  <2>1. UNCHANGED <<taken, delivered, rx_queue, truncated, overrun>>
    BY <1>10 DEF ShiftOut, PeerSend, vars, rxVars, rxChip
  <2> QED
    BY <1>1, <2>1, StandingKept
<1> QED
  BY <1>2, <1>3, <1>4, <1>5, <1>6, <1>7, <1>8, <1>9, <1>10 DEF Next, CallStep

-----------------------------------------------------------------------------
(* The peer's messages.                                                    *)

DeliveryInv ==
  /\ Sendable(messages)
  /\ inbound = FramesUpTo(messages, Len(messages))
  /\ Standing(messages)

LEMMA DeliveryImplies == DeliveryInv => DeliveryIntegrity
  BY DEF DeliveryInv, Standing, DeliveryIntegrity, FirstFrames, FirstData, FramesUpTo, DataUpTo

LEMMA DeliveryInit == Init => DeliveryInv
<1> SUFFICES ASSUME Init PROVE DeliveryInv
  OBVIOUS
<1>1. messages = <<>> /\ inbound = <<>> /\ taken = <<>> /\ delivered = <<>> /\ rx_queue = <<>>
  BY DEF Init
<1>2. Len(messages) = 0 /\ messages \in Seq(Bytes) /\ 0 \in 0..Len(messages)
  BY <1>1
<1>3. FramesUpTo(messages, 0) = <<>> /\ DataUpTo(messages, 0) = <<>>
  BY NoMessages
<1>4. Sendable(messages)
  BY <1>2 DEF Sendable
<1>5. delivered \o rx_queue = <<>>
  BY <1>1, EmptyBytes
<1>6. Standing(messages)
  BY <1>1, <1>2, <1>3, <1>5 DEF Standing
<1> QED
  BY <1>1, <1>2, <1>3, <1>4, <1>6 DEF DeliveryInv

(* Every message the peer adds is a whole frame behind the others.         *)
LEMMA OneMoreMessage ==
  ASSUME NEW ms, Sendable(ms), NEW p \in Bytes, Encodable(p, MaxEncoded)
  PROVE  /\ Sendable(Append(ms, p))
         /\ FramesUpTo(Append(ms, p), Len(Append(ms, p))) = FramesUpTo(ms, Len(ms)) \o Frame(p)
<1> DEFINE all == Append(ms, p)
           n == Len(ms)
<1>1. ms \in Seq(Bytes) /\ n \in Nat /\ n \in 0..Len(ms)
  BY DEF Sendable
<1>2. /\ all \in Seq(Bytes) /\ Len(all) = n + 1 /\ all[n + 1] = p
      /\ \A i \in 1..n : all[i] = ms[i]
  BY <1>1, AppendProperties
<1>3. FramesUpTo(all, n) = FramesUpTo(ms, n)
  BY <1>1, OneMore
<1> HIDE DEF all
<1>4. Sendable(all)
  <2> SUFFICES ASSUME NEW i \in 1..Len(all) PROVE Encodable(all[i], MaxEncoded)
    BY <1>2 DEF Sendable
  <2>1. CASE i = n + 1
    BY <1>1, <1>2, <2>1
  <2>2. CASE i # n + 1
    <3>1. i \in 1..n
      BY <1>1, <1>2, <2>2
    <3> QED
      BY <1>2, <3>1 DEF Sendable
  <2> QED
    BY <2>1, <2>2
<1>5. FramesUpTo(all, n + 1) = FramesUpTo(all, n) \o Frame(all[n + 1])
  <2>1. all \in Seq(Bytes) /\ n \in Nat /\ n < Len(all)
    BY <1>1, <1>2
  <2> HIDE DEF n
  <2> QED
    BY <2>1, NextMessageAppends
<1> QED
  BY <1>2, <1>3, <1>4, <1>5 DEF all

LEMMA DeliveryNext == PortInv /\ DeliveryInv /\ [Next]_vars => DeliveryInv'
<1> SUFFICES ASSUME PortInv, DeliveryInv, [Next]_vars PROVE DeliveryInv'
  OBVIOUS
<1>1. PICK ms : ms = messages
  OBVIOUS
<1>2. Sendable(ms) /\ inbound = FramesUpTo(ms, Len(ms)) /\ Standing(ms) /\ ms \in Seq(Bytes)
  BY <1>1 DEF DeliveryInv, Sendable
<1>3. inbound \o <<>> = FramesUpTo(ms, Len(ms)) /\ <<>> \in Bytes
  BY <1>2, EmptyBytes DEF PortInv, RxInv
<1>4. Standing(ms)'
  BY <1>2, <1>3, NextStands
<1>5. CASE UNCHANGED peer
  <2>1. messages' = ms /\ inbound' = inbound
    BY <1>1, <1>5 DEF peer
  <2>2. Standing(messages)'
    BY <1>4, <2>1 DEF Standing
  <2> QED
    BY <1>2, <2>1, <2>2 DEF DeliveryInv
<1>6. CASE \E p \in PeerPayloads : PeerSend(p)
  <2>1. PICK p \in PeerPayloads : PeerSend(p)
    BY <1>6
  <2>2. messages' = Append(ms, p) /\ inbound' = inbound \o Frame(p)
    BY <1>1, <2>1 DEF PeerSend
  <2>3. p \in Bytes /\ Encodable(p, MaxEncoded)
    BY <2>1, PortAssumption, EncodeFits
  <2>4. /\ Sendable(Append(ms, p))
        /\ FramesUpTo(Append(ms, p), Len(Append(ms, p))) = FramesUpTo(ms, Len(ms)) \o Frame(p)
    BY <1>2, <2>3, OneMoreMessage
  <2>5. Standing(Append(ms, p))'
    BY <1>2, <1>4, <2>3, StandingOfMore
  <2> QED
    BY <1>2, <2>2, <2>4, <2>5 DEF DeliveryInv, Standing
<1>7. UNCHANGED peer \/ \E p \in PeerPayloads : PeerSend(p)
  BY DEF Next, CallStep, RejectCall, WriteRefused, WriteAccepted, PollHw, ReadHw,
         FlushLevel, StoreWord, WriteReturn, PollFlushed, StageLevel,
         RecheckLevel, LoadWord, StageDone, PollReturn, DecodeFrame, ReadFailed, ReadReturn,
         ShiftOut, Arrive, vars
<1> QED
  BY <1>5, <1>6, <1>7

LEMMA DeliveryInvHolds == Spec => []DeliveryInv
  BY PortInvHolds, DeliveryInit, DeliveryNext, PTL DEF Spec

(* xr17v358_read_hw takes the stream apart where the peer put it together: *)
(* on a line without overrun the decoder always stands between two of the  *)
(* peer's messages, and unless rx_queue once was too small for a payload   *)
(* the reads return the messages' bytes, complete and in order.            *)
THEOREM PortDeliveryIntegrity == Spec => []DeliveryIntegrity
  BY DeliveryInvHolds, DeliveryImplies, PTL

-----------------------------------------------------------------------------
(* What a poll announced is still there when the next read comes.          *)

AnnouncedHolds ==
  announced /\ ~overrun /\ ~truncated => HasCompleteFrame(rx_fifo) \/ rx_queue # <<>>

LEMMA MoreBytesKeepFrames ==
  ASSUME NEW a \in Bytes, NEW b \in Bytes, HasCompleteFrame(a)
  PROVE  HasCompleteFrame(a \o b)
<1> DEFINE c == Cardinality(Delimiters(a))
           d == Cardinality(Delimiters(b))
<1>1. Cardinality(Delimiters(a \o b)) = c + d
  BY ConcatDelimiters
<1>2. c \in Nat /\ d \in Nat
  BY DelimitersFinite
<1>3. c >= 2
  BY DEF HasCompleteFrame
<1> HIDE DEF c, d
<1>4. c + d >= 2
  BY <1>2, <1>3
<1> QED
  BY <1>1, <1>4 DEF HasCompleteFrame

LEMMA AnnouncedKept ==
  ASSUME AnnouncedHolds, UNCHANGED <<rx_fifo, rx_queue, truncated, announced>>,
         overrun => overrun', overrun \in BOOLEAN, overrun' \in BOOLEAN
  PROVE  AnnouncedHolds'
  BY DEF AnnouncedHolds

(* A decoded payload is never empty, so it is in rx_queue for the read.    *)
LEMMA DecodeKeepsAnnounced ==
  ASSUME PortInv, DeliveryInv, AnnouncedHolds, DecodeFrame
  PROVE  AnnouncedHolds'
<1> SUFFICES ASSUME announced', ~overrun', ~truncated'
             PROVE  rx_queue' # <<>>
  BY DEF AnnouncedHolds
<1> DEFINE read == ReadFrame(rx_fifo, MaxEncoded)
           decoded == Decode(read.frame, QueueCapacity)
           ok == read.status = "OK" /\ decoded.status = "OK"
           short == ok /\ Len(decoded.data) > RxQueueRoom
<1>1. /\ pc = "staged" /\ HasCompleteFrame(rx_fifo) /\ ~overrun
      /\ rx_queue' = IF ok THEN rx_queue \o Prefix(decoded.data, RxQueueRoom) ELSE rx_queue
      /\ truncated' = (truncated \/ short)
  BY DEF DecodeFrame, MayDecode, rxChip
<1>2. PICK ms : ms = messages
  OBVIOUS
<1>3. /\ Sendable(ms) /\ Standing(ms) /\ <<>> \in Bytes
      /\ inbound \o <<>> = FramesUpTo(ms, Len(ms))
  BY <1>2, EmptyBytes DEF DeliveryInv, PortInv, RxInv
<1>4. PICK k \in 0..Len(ms) : DecodesNext(ms, k)
  BY <1>1, <1>3, DecodeTakes
<1> DEFINE p == ms[k + 1]
<1>5. ok /\ decoded.data = p /\ k < Len(ms)
  BY <1>4 DEF DecodesNext
<1>6. /\ p \in Bytes /\ p # <<>> /\ Len(p) \in Nat /\ rx_queue \in Bytes /\ RxQueueRoom \in Nat
      /\ Len(rx_queue) \in Nat
  <2>1. ms \in Seq(Bytes) /\ k + 1 \in 1..Len(ms)
    BY <1>3, <1>4, <1>5 DEF Sendable
  <2>2. p \in Bytes /\ Encodable(p, MaxEncoded)
    BY <1>3, <2>1, ElementOfSeq DEF Sendable
  <2> HIDE DEF p
  <2> QED
    BY <2>2, RxTypes, EmptyBytes, PortAssumption DEF Encodable, PortInv, RxInv
<1>7. ~(Len(p) > RxQueueRoom) /\ rx_queue' = rx_queue \o Prefix(p, RxQueueRoom)
  BY <1>1, <1>5
<1> HIDE DEF p, read, decoded, ok
<1>8. Len(p) # 0 /\ AtMost(RxQueueRoom, Len(p)) = Len(p)
  BY <1>6, <1>7, EmptyBytes DEF AtMost
<1>9. Prefix(p, RxQueueRoom) = p
  BY <1>6, <1>8, SubSeqFull DEF Prefix, Bytes
<1>10. Len(rx_queue \o p) = Len(rx_queue) + Len(p)
  BY <1>6, Assoc
<1>11. Len(rx_queue') # 0
  BY <1>6, <1>7, <1>8, <1>9, <1>10
<1> QED
  BY <1>11, EmptyBytes

LEMMA StageKeepsAnnounced ==
  ASSUME PortInv, AnnouncedHolds, StageDone
  PROVE  AnnouncedHolds'
<1>1. /\ rx_fifo' = rx_fifo \o Prefix(burst, RxFifoRoom)
      /\ UNCHANGED <<rx_queue, truncated, announced, overrun>>
  BY DEF StageDone, rxChip
<1>2. rx_fifo \in Bytes /\ Prefix(burst, RxFifoRoom) \in Bytes
  BY RxTypes, PrefixSuffix, PortAssumption DEF PortInv, CallInv, RxInv, RxFifoRoom
<1>3. HasCompleteFrame(rx_fifo) => HasCompleteFrame(rx_fifo')
  BY <1>1, <1>2, MoreBytesKeepFrames
<1> QED
  BY <1>1, <1>3 DEF AnnouncedHolds

LEMMA AnnouncedNext ==
  ASSUME PortInv, DeliveryInv, AnnouncedHolds, [Next]_vars
  PROVE  AnnouncedHolds'
<1>1. overrun \in BOOLEAN /\ overrun' \in BOOLEAN
  BY PortNext DEF PortInv, CallInv
<1>2. CASE \E status \in {"INVALID_PORT", "INVALID_ARGUMENT"} : RejectCall(status)
  BY <1>1, <1>2, InitializationKeeps, AnnouncedKept DEF RejectCall, rxChip
<1>3. CASE \E p \in Payloads : WriteRefused(p) \/ WriteAccepted(p)
  <2>1. EnsureInitialized /\ UNCHANGED <<truncated, announced, rxChip>>
    BY <1>3 DEF WriteRefused, WriteAccepted
  <2>2. rx_queue' = rx_queue /\ rx_fifo' = rx_fifo
    BY <2>1, KeptIsAll DEF PortInv, EnsureInitialized
  <2> QED
    BY <1>1, <2>1, <2>2, AnnouncedKept DEF rxChip
<1>4. CASE PollHw
  BY <1>1, <1>4, InitializationKeeps, AnnouncedKept DEF PollHw, rxChip
<1>5. CASE \E n \in ReadLengths : ReadHw(n)
  BY <1>1, <1>5, InitializationKeeps, AnnouncedKept DEF ReadHw, rxChip
<1>6. CASE DecodeFrame
  BY <1>6, DecodeKeepsAnnounced
<1>7. CASE StageDone
  BY <1>7, StageKeepsAnnounced
<1>8. CASE PollReturn
  BY <1>8 DEF PollReturn, rxVars, AnnouncedHolds
<1>9. CASE ReadFailed \/ ReadReturn
  BY <1>9 DEF ReadFailed, ReadReturn, AnnouncedHolds
<1>10. CASE \/ FlushLevel \/ StoreWord \/ WriteReturn \/ PollFlushed
            \/ StageLevel \/ RecheckLevel \/ LoadWord
  <2>1. UNCHANGED <<rx_fifo, rx_queue, truncated, announced, overrun>>
    BY <1>10 DEF FlushLevel, StoreWord, WriteReturn, PollFlushed, StageLevel,
                 RecheckLevel, LoadWord, rxVars, rxChip
  <2> QED
    BY <1>1, <2>1, AnnouncedKept
<1>11. CASE Arrive
  <2>1. UNCHANGED <<rx_fifo, rx_queue, truncated, announced>> /\ (overrun => overrun')
    BY <1>11 DEF Arrive, rxVars
  <2> QED
    BY <1>1, <2>1, AnnouncedKept
<1>12. CASE ShiftOut \/ (\E p \in PeerPayloads : PeerSend(p)) \/ UNCHANGED vars
  <2>1. UNCHANGED <<rx_fifo, rx_queue, truncated, announced, overrun>>
    BY <1>12 DEF ShiftOut, PeerSend, vars, rxVars, rxChip
  <2> QED
    BY <1>1, <2>1, AnnouncedKept
<1> QED
  BY <1>2, <1>3, <1>4, <1>5, <1>6, <1>7, <1>8, <1>9, <1>10, <1>11, <1>12 DEF Next, CallStep

ReadyStep ==
  (/\ op = "read" /\ pc = "staged" /\ pc' = "idle"
   /\ announced /\ length > 0
   /\ ~overrun /\ ~truncated')
  => ret'.status = "OK" /\ ret'.count > 0

(* A read after an announcement can end in one way only.                   *)
LEMMA AnnouncedReadReturns ==
  ASSUME PortInv, DeliveryInv, AnnouncedHolds, [Next]_vars
  PROVE  ReadyStep
<1> SUFFICES ASSUME op = "read", pc = "staged", pc' = "idle", announced, length > 0,
                    ~overrun, ~truncated'
             PROVE  ret'.status = "OK" /\ ret'.count > 0
  BY DEF ReadyStep
<1>1. DecodeFrame \/ ReadFailed \/ ReadReturn
  BY DEF Next, CallStep, RejectCall, WriteRefused, WriteAccepted, PollHw, ReadHw, Begin,
         FlushLevel, StoreWord, WriteReturn, PollFlushed, StageLevel,
         RecheckLevel, LoadWord, StageDone, PollReturn, ShiftOut, Arrive, PeerSend, call, vars
<1>2. rx_queue \in Bytes /\ Len(rx_queue) \in Nat /\ length \in Nat
  BY RxTypes DEF PortInv, CallInv, RxInv
<1>3. ~DecodeFrame
  <2> SUFFICES ASSUME DecodeFrame PROVE FALSE
    OBVIOUS
  <2>1. PICK ms : ms = messages
    OBVIOUS
  <2>2. /\ Sendable(ms) /\ Standing(ms) /\ <<>> \in Bytes
        /\ inbound \o <<>> = FramesUpTo(ms, Len(ms))
    BY <2>1, EmptyBytes DEF DeliveryInv, PortInv, RxInv
  <2>3. PICK k \in 0..Len(ms) : DecodesNext(ms, k)
    BY <2>2, DecodeTakes DEF DecodeFrame, MayDecode
  <2> DEFINE read == ReadFrame(rx_fifo, MaxEncoded)
             decoded == Decode(read.frame, QueueCapacity)
             ok == read.status = "OK" /\ decoded.status = "OK"
             short == ok /\ Len(decoded.data) > RxQueueRoom
  <2>4. ok
    BY <2>3 DEF DecodesNext
  <2>5. truncated' = (truncated \/ short) /\ (ok /\ ~short => pc' = pc)
    BY DEF DecodeFrame
  <2> HIDE DEF read, decoded, ok, short
  <2> QED
    BY <2>4, <2>5
<1>4. rx_queue # <<>>
  <2> SUFFICES ASSUME rx_queue = <<>> PROVE FALSE
    OBVIOUS
  <2>1. ~MayDecode /\ truncated' = truncated
    BY <1>1, <1>3 DEF ReadFailed, ReadReturn
  <2>2. HasCompleteFrame(rx_fifo)
    BY <2>1 DEF AnnouncedHolds
  <2>3. Len(rx_queue) < RxQueueCapacity
    BY EmptyBytes, PortAssumption
  <2> QED
    BY <2>1, <2>2, <2>3 DEF MayDecode
<1>5. ReadReturn
  BY <1>1, <1>3, <1>4 DEF ReadFailed
<1>6. ret' = [status |-> "OK", count |-> AtMost(length, Len(rx_queue))]
  BY <1>5 DEF ReadReturn, Return
<1>7. AtMost(length, Len(rx_queue)) > 0
  <2>1. Len(rx_queue) # 0
    BY <1>2, <1>4, EmptyBytes
  <2> QED
    BY <1>2, <2>1 DEF AtMost
<1> QED
  BY <1>6, <1>7

(* MESSAGE_READY is a promise: without an overrun and without a payload    *)
(* cut off by a full rx_queue, a read that follows it and asks for bytes   *)
(* returns OK and at least one of them, whatever happened in between.      *)
THEOREM PortReadyIsHonest == Spec => ReadyIsHonest
<1>1. Init => AnnouncedHolds
  BY DEF Init, AnnouncedHolds
<1>2. PortInv /\ DeliveryInv /\ AnnouncedHolds /\ [Next]_vars => AnnouncedHolds'
  BY AnnouncedNext
<1>3. PortInv /\ DeliveryInv /\ AnnouncedHolds /\ [Next]_vars => [ReadyStep]_vars
  BY AnnouncedReadReturns
<1>4. Spec => [][ReadyStep]_vars
  BY <1>1, <1>2, <1>3, PortInvHolds, DeliveryInvHolds, PTL DEF Spec
<1> QED
  BY <1>4 DEF ReadyStep, ReadyIsHonest
=============================================================================
