-------------------------- MODULE XrLoopbackProofs --------------------------
(***************************************************************************)
(* For every queue size, FIFO depth, word size and set of payloads: a port *)
(* in loopback is a byte stream from write to read (BytePipe), as long as  *)
(* nothing was lost on the way.                                            *)
(*                                                                         *)
(* The messages written in loopback exist nowhere in the state as a list;  *)
(* the invariant says that there is one, of which the receiver's line and  *)
(* what waits in the transmitter are together the frames, and echoes the   *)
(* payloads.  From there on the port does what XrHwPortProofs shows.       *)
(***************************************************************************)
EXTENDS XrLoopback, XrHwPortProofs

Joined(a, b, c) == (a \o b) \o c

(* The bytes that are not on the line yet, the next one first.             *)
Waiting == Joined(tx_chip, TxBurst, tx_queue)

SwitchInv ==
  /\ loopback \in BOOLEAN /\ cut \in BOOLEAN /\ echoes \in Bytes
  /\ arrived = Len(inbound)

(* ms is the list of the messages written in loopback.                     *)
Carries(ms) ==
  /\ Sendable(ms)
  /\ echoes = DataUpTo(ms, Len(ms))
  /\ loopback => inbound \o Waiting = FramesUpTo(ms, Len(ms))
  /\ ~loopback => inbound = FramesUpTo(ms, Len(ms))
  /\ Standing(ms)

LoopInv == PortInv /\ SwitchInv /\ (~cut => \E ms : Carries(ms))

-----------------------------------------------------------------------------
(* Strings of bytes.                                                       *)

LEMMA FourParts ==
  ASSUME NEW a \in Bytes, NEW b \in Bytes, NEW c \in Bytes, NEW d \in Bytes
  PROVE  Joined(a \o b, c, d) = a \o Joined(b, c, d) /\ Joined(b, c, d) \in Bytes
<1> DEFINE bc == b \o c
           w == bc \o d
<1>1. a \in Seq(AnyByte) /\ b \in Seq(AnyByte) /\ c \in Seq(AnyByte) /\ d \in Seq(AnyByte)
  BY DEF Bytes
<1>2. bc \in Seq(AnyByte)
  BY <1>1, ConcatProperties
<1>3. (a \o b) \o c = a \o bc
  BY <1>1, ConcatAssociative
<1> HIDE DEF bc
<1>4. w \in Seq(AnyByte)
  BY <1>1, <1>2, ConcatProperties
<1>5. (a \o bc) \o d = a \o w
  BY <1>1, <1>2, ConcatAssociative
<1>6. ((a \o b) \o c) \o d = a \o w
  BY <1>3, <1>5
<1> QED
  BY <1>4, <1>6 DEF bc, Bytes, Joined

LEMMA BeginningIsPrefix ==
  ASSUME NEW a \in Bytes, NEW b \in Bytes
  PROVE  Pipe!IsPrefix(a, a \o b)
<1> DEFINE n == Len(a)
           m == Len(b)
           c == a \o b
<1>1. n \in Nat /\ m \in Nat /\ Len(c) = n + m
  BY Assoc, EmptyBytes
<1>2. SubSeq(a, 1, n) = SubSeq(c, 1, n)
  <2>1. CASE n = 0
    BY <2>1, SubSeqEmpty
  <2>2. CASE n # 0
    <3>1. 1 \in 1..n /\ n \in 1..n /\ 1 <= n
      BY <1>1, <2>2
    <3> QED
      BY <3>1, ConcatSubSeq
  <2> QED
    BY <2>1, <2>2
<1>3. n <= Len(c)
  <2> HIDE DEF n, m, c
  <2> QED
    BY <1>1
<1> QED
  BY <1>2, <1>3 DEF Pipe!IsPrefix

LEMMA PrefixOfItself == ASSUME NEW a \in Bytes PROVE Pipe!IsPrefix(a, a)
  BY EmptyBytes DEF Pipe!IsPrefix

-----------------------------------------------------------------------------
(* The port under loopback keeps the invariant of XrHwPortProofs.          *)

(* The calls that begin without taking anything into the queues.           *)
PlainCall ==
  \/ \E status \in {"INVALID_PORT", "INVALID_ARGUMENT"} : RejectCall(status)
  \/ \E p \in Payloads : WriteRefused(p)
  \/ PollHw
  \/ \E n \in ReadLengths : ReadHw(n)

PortCall == (\E p \in Payloads : WriteAccepted(p)) \/ PlainCall \/ CallStep

LoopPlain ==
  \/ \E status \in {"INVALID_PORT", "INVALID_ARGUMENT"} : LoopReject(status)
  \/ \E p \in Payloads : LoopRefuse(p)
  \/ LoopPoll
  \/ \E n \in ReadLengths : LoopRead(n)

LEMMA PlainIsPlain == LoopPlain => PlainCall /\ UNCHANGED switch
  BY DEF LoopPlain, PlainCall, LoopReject, LoopRefuse, LoopPoll, LoopRead

LEMMA LoopCases ==
  LoopNext <=> \/ \E p \in Payloads : LoopWrite(p)
               \/ LoopPlain \/ LoopCallStep
               \/ \E enabled \in BOOLEAN : SetLoopback(enabled)
               \/ Shift
  BY DEF LoopNext, LoopPlain

(* What a plain call leaves alone.                                         *)
LEMMA PlainKeeps ==
  ASSUME PlainCall
  PROVE  /\ UNCHANGED <<tx_chip, burst, taken, delivered, truncated, overrun, arrived, inbound>>
         /\ pc = "idle"
  BY DEF PlainCall, RejectCall, WriteRefused, PollHw, ReadHw, Begin, rxChip, peer

LEMMA PortCallIsNext == PortCall => Next /\ UNCHANGED <<peer, arrived, overrun>>
  BY DEF PortCall, PlainCall, Next, RejectCall, WriteRefused, WriteAccepted, PollHw, ReadHw,
         CallStep, rxChip,
         FlushLevel, StoreWord, WriteReturn, PollFlushed, StageLevel,
         RecheckLevel, LoadWord, StageDone, PollReturn, DecodeFrame, ReadFailed, ReadReturn

LEMMA ShiftPort == ASSUME PortInv, SwitchInv, Shift PROVE PortInv'
<1>1. ByteSent /\ UNCHANGED <<is_initialized, rxVars, messages, call, announced>>
  BY DEF Shift, ByteSent
<1>2. PICK b : b = Head(tx_chip)
  OBVIOUS
<1>3. b \in AnyByte /\ <<b>> \in Bytes
  BY <1>1, <1>2, FirstSent
<1>4. /\ inbound \in Bytes /\ Len(inbound) \in Nat /\ arrived = Len(inbound)
      /\ overrun \in BOOLEAN
  BY EmptyBytes DEF PortInv, CallInv, RxInv, SwitchInv
<1>5. \/ /\ loopback /\ inbound' = Append(inbound, b) /\ ByteReceived(b)
      \/ UNCHANGED <<rxChip, inbound>>
  BY <1>2 DEF Shift, ByteReceived
<1>6. overrun' \in BOOLEAN
  BY <1>4, <1>5 DEF ByteReceived, rxChip
<1>7. CallInv'
  <2>1. UNCHANGED <<is_initialized, pc, op, ret, burst, length, truncated, announced,
                    tx_queue, rx_fifo, rx_queue>>
    BY <1>1 DEF ByteSent, call, rxVars
  <2> QED
    BY <1>6, <2>1 DEF PortInv, CallInv
<1>8. TxInv'
  BY <1>1, ByteSentStep
<1>9. CASE loopback /\ inbound' = Append(inbound, b) /\ ByteReceived(b)
  <2>1. arrived' = arrived + 1
    BY <1>9 DEF ByteReceived
  <2>2. /\ inbound' = inbound \o <<b>> /\ inbound' \in Bytes
        /\ Len(inbound') = Len(inbound) + 1
    BY <1>3, <1>4, <1>9, AppendIsConcat, AppendProperties DEF Bytes
  <2>3. arrived' = Len(inbound') /\ arrived' \in 0..Len(inbound')
    BY <1>4, <2>1, <2>2
  <2>4. Prefix(inbound, arrived) = inbound
    BY <1>4, SubSeqFull DEF Prefix, AtMost, Bytes
  <2>5. Prefix(inbound', arrived') = inbound'
    BY <2>2, <2>3, SubSeqFull DEF Prefix, AtMost, Bytes
  <2>6. Prefix(inbound', arrived') = Prefix(inbound, arrived) \o <<b>>
    BY <2>2, <2>4, <2>5
  <2>7. RxInv'
    BY <1>3, <1>9, <2>2, <2>3, <2>6, ByteReceivedStep
  <2> QED
    BY <1>7, <1>8, <2>7 DEF PortInv
<1>10. CASE UNCHANGED <<rxChip, inbound>>
  <2>1. RxInv'
    BY <1>1, <1>10, RxUntouched DEF PortInv, RxBurst, rxVars, peer, call
  <2> QED
    BY <1>7, <1>8, <2>1 DEF PortInv
<1> QED
  BY <1>5, <1>9, <1>10

LEMMA LoopPort == ASSUME PortInv, SwitchInv, [LoopNext]_loopVars PROVE PortInv'
<1>1. PortCall \/ Shift \/ UNCHANGED vars
  BY LoopCases, PlainIsPlain DEF LoopWrite, LoopCallStep, SetLoopback, loopVars, PortCall
<1>2. CASE PortCall
  BY <1>2, PortCallIsNext, PortNext
<1>3. CASE Shift
  BY <1>3, ShiftPort
<1>4. CASE UNCHANGED vars
  BY <1>4, PortStutter
<1> QED
  BY <1>1, <1>2, <1>3, <1>4

LEMMA LoopSwitch == ASSUME PortInv, SwitchInv, [LoopNext]_loopVars PROVE SwitchInv'
<1>1. arrived' = Len(inbound')
  <2>1. CASE PortCall
    BY <2>1, PortCallIsNext DEF SwitchInv, peer
  <2>2. CASE Shift
    <3>1. inbound \in Bytes /\ tx_chip \in Bytes /\ tx_chip # <<>>
      BY <2>2 DEF PortInv, TxInv, RxInv, Shift
    <3>2. CASE loopback
      <4>1. inbound' = Append(inbound, Head(tx_chip)) /\ arrived' = arrived + 1
        BY <2>2, <3>2 DEF Shift
      <4>2. Len(inbound') = Len(inbound) + 1
        BY <3>1, <4>1, AppendProperties, HeadTailProperties DEF Bytes
      <4> QED
        BY <4>1, <4>2 DEF SwitchInv
    <3>3. CASE ~loopback
      BY <2>2, <3>3 DEF Shift, SwitchInv, rxChip
    <3> QED
      BY <3>2, <3>3
  <2>3. CASE UNCHANGED vars
    BY <2>3 DEF SwitchInv, vars, rxChip, peer
  <2> QED
    BY <2>1, <2>2, <2>3, LoopCases, PlainIsPlain
       DEF LoopWrite, LoopCallStep, SetLoopback, loopVars, PortCall
<1>2. echoes' \in Bytes
  <2>1. CASE \E p \in Payloads : LoopWrite(p)
    BY <2>1, Assoc, PortAssumption DEF SwitchInv, LoopWrite
  <2>2. CASE ~\E p \in Payloads : LoopWrite(p)
    <3>1. echoes' = echoes
      BY <2>2, LoopCases, PlainIsPlain DEF LoopCallStep, SetLoopback, Shift, switch, loopVars
    <3> QED
      BY <3>1 DEF SwitchInv
  <2> QED
    BY <2>1, <2>2
<1>3. loopback' \in BOOLEAN /\ cut' \in BOOLEAN
  BY LoopCases, PlainIsPlain
     DEF SwitchInv, LoopWrite, LoopCallStep, SetLoopback, Shift, switch, loopVars
<1> QED
  BY <1>1, <1>2, <1>3 DEF SwitchInv

-----------------------------------------------------------------------------
(* What waits is moved, never changed: bytes leave the transmitter and     *)
(* whole frames are queued behind the others.                              *)

LEMMA WaitingType == PortInv => Waiting \in Bytes
  BY FourParts, EmptyBytes DEF PortInv, CallInv, TxInv, TxBurst, Waiting

LEMMA CallStepKeepsWaiting ==
  ASSUME PortInv, PortInv', CallStep
  PROVE  Waiting' = Waiting
<1>1. sent' = sent
  BY DEF CallStep, FlushLevel, StoreWord, WriteReturn, PollFlushed, StageLevel,
         RecheckLevel, LoadWord, StageDone, PollReturn, DecodeFrame, ReadFailed, ReadReturn, txVars
<1>2. reported' \o InFlight' = reported \o InFlight
  <2>1. CASE WriteReturn
    <3>1. reported' = reported \o Frame(payload) /\ InFlight = Frame(payload) /\ InFlight' = <<>>
      BY <2>1 DEF WriteReturn, Return, InFlight, Writing
    <3>2. reported' \in Bytes
      BY DEF PortInv, TxInv
    <3> QED
      BY <3>1, <3>2, EmptyBytes
  <2>2. CASE CallStep /\ ~WriteReturn
    <3>1. reported' = reported /\ payload' = payload
      BY <2>2 DEF CallStep, FlushLevel, StoreWord, PollFlushed, StageLevel,
           RecheckLevel, LoadWord, StageDone, PollReturn, DecodeFrame, ReadFailed, ReadReturn, txVars
    <3>2. Writing' <=> Writing
      BY <2>2 DEF CallStep, FlushLevel, StoreWord, PollFlushed, StageLevel,
           RecheckLevel, LoadWord, StageDone, PollReturn, DecodeFrame, ReadFailed, ReadReturn,
           Return, Writing
    <3> QED
      BY <3>1, <3>2 DEF InFlight
  <2> QED
    BY <2>1, <2>2
<1>3. Joined(sent \o tx_chip, TxBurst, tx_queue) = reported \o InFlight
  BY DEF PortInv, TxInv, TxConservation, Joined
<1>4. Joined(sent' \o tx_chip', TxBurst', tx_queue') = reported' \o InFlight'
  BY DEF PortInv, TxInv, TxConservation, Joined
<1>5. /\ sent \in Bytes /\ tx_chip \in Bytes /\ TxBurst \in Bytes /\ tx_queue \in Bytes
      /\ tx_chip' \in Bytes /\ TxBurst' \in Bytes /\ tx_queue' \in Bytes
  BY EmptyBytes DEF PortInv, CallInv, TxInv, TxBurst
<1>6. /\ Joined(sent \o tx_chip, TxBurst, tx_queue) = sent \o Waiting
      /\ Waiting \in Bytes
  BY <1>5, FourParts DEF Waiting
<1>7. /\ Joined(sent \o tx_chip', TxBurst', tx_queue') = sent \o Waiting'
      /\ Waiting' \in Bytes
  BY <1>5, FourParts DEF Waiting
<1>8. sent \o Waiting' = sent \o Waiting
  BY <1>1, <1>2, <1>3, <1>4, <1>6, <1>7
<1> QED
  BY <1>5, <1>6, <1>7, <1>8, Cancel

LEMMA CallBeginsKeepsWaiting ==
  ASSUME PortInv, PlainCall
  PROVE  Waiting' = Waiting
<1>1. tx_queue' = tx_queue
  BY InitializationKeeps DEF PlainCall, RejectCall, WriteRefused, PollHw, ReadHw
<1>2. tx_chip' = tx_chip /\ TxBurst' = TxBurst
  BY DEF PlainCall, RejectCall, WriteRefused, PollHw, ReadHw, Begin, Return, TxBurst
<1> QED
  BY <1>1, <1>2 DEF Waiting

LEMMA WriteExtendsWaiting ==
  ASSUME PortInv, NEW p \in Payloads, WriteAccepted(p)
  PROVE  /\ p \in Bytes /\ Encodable(p, MaxEncoded)
         /\ Waiting' = Waiting \o Frame(p)
<1>1. p \in Bytes /\ Encodable(p, MaxEncoded) /\ Frame(p) \in Bytes
  BY PortAssumption, FrameType DEF WriteAccepted, Frame, Encode
<1>2. tx_queue' = tx_queue \o Frame(p) /\ tx_chip' = tx_chip /\ TxBurst' = TxBurst
  BY KeptIsAll DEF PortInv, WriteAccepted, Begin, TxBurst
<1>3. tx_chip \o TxBurst \in Bytes /\ tx_queue \in Bytes
  BY Assoc, EmptyBytes DEF PortInv, CallInv, TxInv, TxBurst
<1>4. (tx_chip \o TxBurst) \o (tx_queue \o Frame(p)) = ((tx_chip \o TxBurst) \o tx_queue) \o Frame(p)
  <2> DEFINE a == tx_chip \o TxBurst
             f == Frame(p)
  <2>1. a \in Seq(AnyByte) /\ tx_queue \in Seq(AnyByte) /\ f \in Seq(AnyByte)
    BY <1>1, <1>3 DEF Bytes
  <2> HIDE DEF a, f
  <2>2. a \o (tx_queue \o f) = (a \o tx_queue) \o f
    BY <2>1, ConcatAssociative
  <2> QED
    BY <2>2 DEF a, f
<1> QED
  BY <1>1, <1>2, <1>4 DEF Waiting, Joined

LEMMA ShiftMovesOne ==
  ASSUME PortInv, Shift
  PROVE  loopback => inbound' \o Waiting' = inbound \o Waiting
<1> SUFFICES ASSUME loopback PROVE inbound' \o Waiting' = inbound \o Waiting
  OBVIOUS
<1>1. ByteSent /\ inbound' = Append(inbound, Head(tx_chip)) /\ UNCHANGED <<pc, burst, tx_queue>>
  BY DEF Shift, ByteSent, call
<1> DEFINE h == <<Head(tx_chip)>>
<1>2. h \in Bytes /\ h \o tx_chip' = tx_chip /\ tx_chip' \in Bytes /\ Head(tx_chip) \in AnyByte
  BY <1>1, FirstSent
<1>3. inbound \in Bytes /\ tx_queue \in Bytes /\ TxBurst \in Bytes /\ TxBurst' = TxBurst
  BY <1>1, EmptyBytes DEF PortInv, CallInv, TxInv, RxInv, TxBurst
<1>4. inbound' = inbound \o h
  BY <1>1, <1>2, <1>3, AppendIsConcat DEF Bytes
<1> HIDE DEF h
<1> DEFINE w == Joined(tx_chip', TxBurst, tx_queue)
<1>5. Joined(h \o tx_chip', TxBurst, tx_queue) = h \o w /\ w \in Bytes
  <2>1. h \in Bytes /\ tx_chip' \in Bytes /\ TxBurst \in Bytes /\ tx_queue \in Bytes
    BY <1>2, <1>3
  <2> QED
    BY <2>1, FourParts
<1>6. Waiting = h \o w /\ Waiting' = w
  BY <1>1, <1>2, <1>3, <1>5 DEF Waiting
<1> HIDE DEF w
<1>7. inbound \in Seq(AnyByte) /\ h \in Seq(AnyByte) /\ w \in Seq(AnyByte)
  BY <1>2, <1>3, <1>5 DEF Bytes
<1>8. (inbound \o h) \o w = inbound \o (h \o w)
  BY <1>7, ConcatAssociative
<1> QED
  BY <1>4, <1>6, <1>8

-----------------------------------------------------------------------------
(* The messages written in loopback.                                       *)

LEMMA LoopInitially == LoopInit => LoopInv
<1> SUFFICES ASSUME LoopInit PROVE LoopInv
  OBVIOUS
<1>1. PortInv
  BY PortInit DEF LoopInit
<1>2. SwitchInv
  BY EmptyBytes DEF LoopInit, Init, SwitchInv
<1>3. Carries(<<>>)
  <2>1. /\ DeliveryInv /\ messages = <<>> /\ echoes = <<>> /\ ~loopback
    BY DeliveryInit DEF LoopInit, Init
  <2>2. Sendable(<<>>) /\ inbound = FramesUpTo(<<>>, Len(<<>>)) /\ Standing(<<>>)
    BY <2>1 DEF DeliveryInv
  <2>3. echoes = DataUpTo(<<>>, Len(<<>>))
    BY <2>1, NoMessages
  <2> QED
    BY <2>1, <2>2, <2>3 DEF Carries
<1> QED
  BY <1>1, <1>2, <1>3 DEF LoopInv

(* A step of the port other than a write carries the same messages.        *)
LEMMA SameMessages ==
  ASSUME PortInv, PortInv', NEW ms, Carries(ms), SwitchInv,
         [Next]_vars, Waiting' = Waiting, UNCHANGED <<inbound, switch>>
  PROVE  Carries(ms)'
<1>1. PICK y : y = IF loopback THEN Waiting ELSE <<>>
  OBVIOUS
<1>2. y \in Bytes /\ inbound \o y = FramesUpTo(ms, Len(ms))
  BY <1>1, WaitingType, EmptyBytes DEF Carries, PortInv, RxInv
<1>3. Sendable(ms) /\ Standing(ms)
  BY DEF Carries
<1>4. Standing(ms)'
  BY <1>2, <1>3, NextStands
<1> QED
  BY <1>4 DEF Carries, switch

(* A write in loopback adds one message.                                   *)
LEMMA WriteAddsMessage ==
  ASSUME PortInv, PortInv', NEW ms, Carries(ms), SwitchInv,
         NEW p \in Payloads, LoopWrite(p)
  PROVE  \E all : Carries(all)'
<1>1. /\ WriteAccepted(p) /\ UNCHANGED <<loopback, cut, inbound>>
      /\ echoes' = IF loopback THEN echoes \o p ELSE echoes
  BY DEF LoopWrite, WriteAccepted, peer
<1>2. p \in Bytes /\ Encodable(p, MaxEncoded) /\ Waiting' = Waiting \o Frame(p)
  BY <1>1, WriteExtendsWaiting
<1>3. PICK y : y = IF loopback THEN Waiting ELSE <<>>
  OBVIOUS
<1>4. y \in Bytes /\ inbound \o y = FramesUpTo(ms, Len(ms))
  BY <1>3, WaitingType, EmptyBytes DEF Carries, PortInv, RxInv
<1>5. Sendable(ms) /\ Standing(ms) /\ ms \in Seq(Bytes) /\ Len(ms) \in Nat
  BY DEF Carries, Sendable
<1>6. Next
  BY <1>1 DEF Next
<1>7. Standing(ms)'
  BY <1>4, <1>5, <1>6, NextStands
<1>8. CASE ~loopback
  <2>1. Carries(ms)'
    BY <1>1, <1>7, <1>8 DEF Carries
  <2> QED
    BY <2>1
<1>9. CASE loopback
  <2> DEFINE all == Append(ms, p)
             n == Len(ms)
  <2>1. /\ Sendable(all)
        /\ FramesUpTo(all, Len(all)) = FramesUpTo(ms, n) \o Frame(p)
    BY <1>2, <1>5, OneMoreMessage
  <2>2. /\ all \in Seq(Bytes) /\ Len(all) = n + 1 /\ all[n + 1] = p
        /\ n \in 0..n
    BY <1>2, <1>5, AppendProperties
  <2>3. DataUpTo(all, n) = DataUpTo(ms, n)
    BY <1>2, <1>5, <2>2, OneMore
  <2>4. Standing(all)'
    BY <1>2, <1>5, <1>7, StandingOfMore
  <2> HIDE DEF all
  <2>5. n < Len(all) /\ n \in Nat
    BY <1>5, <2>2
  <2> HIDE DEF n
  <2>6. DataUpTo(all, n + 1) = DataUpTo(all, n) \o all[n + 1]
    BY <2>2, <2>5, NextMessageAppends
  <2>7. echoes' = DataUpTo(all, Len(all))
    BY <1>1, <1>9, <2>2, <2>3, <2>6 DEF Carries, n
  <2>8. inbound' \o Waiting' = FramesUpTo(all, Len(all))
    <3> DEFINE f == Frame(p)
               i == inbound
               w == Waiting
    <3>1. i \in Seq(AnyByte) /\ w \in Seq(AnyByte) /\ f \in Seq(AnyByte)
      BY <1>2, WaitingType, FrameType DEF Bytes, PortInv, RxInv
    <3>2. i \o w = FramesUpTo(ms, n)
      BY <1>9 DEF Carries, n
    <3>3. inbound' \o Waiting' = i \o (w \o f)
      BY <1>1, <1>2
    <3> HIDE DEF f, i, w
    <3>4. i \o (w \o f) = (i \o w) \o f
      BY <3>1, ConcatAssociative
    <3>5. inbound' \o Waiting' = FramesUpTo(ms, n) \o f
      BY <3>2, <3>3, <3>4
    <3> QED
      BY <2>1, <3>5 DEF f, n
  <2>9. Carries(all)'
    BY <1>1, <1>9, <2>1, <2>4, <2>7, <2>8 DEF Carries
  <2> QED
    BY <2>9
<1> QED
  BY <1>8, <1>9

(* A switch under an empty transmitter changes neither stream.             *)
LEMMA SwitchCarries ==
  ASSUME PortInv, NEW ms, Carries(ms), SwitchInv,
         NEW enabled \in BOOLEAN, SetLoopback(enabled), ~cut'
  PROVE  Carries(ms)'
<1>1. /\ pc = "idle" /\ loopback' = enabled /\ UNCHANGED <<vars, echoes>>
      /\ loopback # enabled => tx_queue \o tx_chip = <<>>
  BY DEF SetLoopback
<1>2. UNCHANGED <<inbound, taken, delivered, rx_queue, truncated, overrun, pc, burst, tx_queue, tx_chip>>
  BY <1>1 DEF vars, peer, rxVars, rxChip, call, txVars
<1>3. Standing(ms)' /\ Waiting' = Waiting
  BY <1>2 DEF Carries, Standing, Waiting, TxBurst
<1>4. CASE loopback = enabled
  BY <1>1, <1>2, <1>3, <1>4 DEF Carries
<1>5. CASE loopback # enabled
  <2>1. /\ tx_queue \in Bytes /\ tx_chip \in Bytes /\ inbound \in Bytes
        /\ Len(tx_queue) \in Nat /\ Len(tx_chip) \in Nat
    BY EmptyBytes DEF PortInv, TxInv, RxInv
  <2>2. Len(tx_queue \o tx_chip) = Len(tx_queue) + Len(tx_chip)
    BY <2>1, Assoc
  <2>3. Len(tx_queue) + Len(tx_chip) = 0
    BY <1>1, <1>5, <2>2, EmptyBytes
  <2>4. tx_queue = <<>> /\ tx_chip = <<>>
    BY <2>1, <2>3, EmptyBytes
  <2>5. TxBurst = <<>>
    BY <1>1 DEF TxBurst
  <2>6. Waiting = <<>>
    BY <2>4, <2>5, EmptyBytes DEF Waiting, Joined
  <2>7. inbound \o Waiting = inbound
    BY <2>1, <2>6, EmptyBytes
  <2>8. inbound = FramesUpTo(ms, Len(ms))
    BY <2>7 DEF Carries
  <2> QED
    BY <1>1, <1>2, <1>3, <2>7, <2>8 DEF Carries
<1> QED
  BY <1>4, <1>5

LEMMA ShiftCarries ==
  ASSUME PortInv, PortInv', NEW ms, Carries(ms), SwitchInv, Shift
  PROVE  Carries(ms)'
<1>1. overrun \in BOOLEAN /\ overrun' \in BOOLEAN
  BY DEF PortInv, CallInv
<1>2. UNCHANGED <<taken, delivered, rx_queue, truncated, switch>> /\ (overrun => overrun')
  BY DEF Shift, rxVars, rxChip
<1>3. Standing(ms)'
  BY <1>1, <1>2, StandingKept DEF Carries
<1>4. CASE loopback
  <2>1. inbound' \o Waiting' = inbound \o Waiting
    BY <1>4, ShiftMovesOne
  <2> QED
    BY <1>2, <1>3, <1>4, <2>1 DEF Carries, switch
<1>5. CASE ~loopback
  <2>1. inbound' = inbound
    BY <1>5 DEF Shift
  <2> QED
    BY <1>2, <1>3, <1>5, <2>1 DEF Carries, switch
<1> QED
  BY <1>4, <1>5

LEMMA LoopKeeps == LoopInv /\ [LoopNext]_loopVars => LoopInv'
<1> SUFFICES ASSUME LoopInv, [LoopNext]_loopVars PROVE LoopInv'
  OBVIOUS
<1>1. PortInv /\ SwitchInv /\ PortInv' /\ SwitchInv'
  BY LoopPort, LoopSwitch DEF LoopInv
<1>2. ASSUME ~cut' PROVE \E ms : Carries(ms)'
  <2>1. ~cut
    BY <1>1, <1>2, LoopCases, PlainIsPlain
       DEF SwitchInv, LoopWrite, LoopCallStep, SetLoopback, Shift, switch, loopVars
  <2>2. PICK ms : Carries(ms)
    BY <2>1 DEF LoopInv
  <2>3. CASE \E p \in Payloads : LoopWrite(p)
    BY <1>1, <2>2, <2>3, WriteAddsMessage
  <2>4. CASE LoopPlain
    <3>1. PlainCall /\ UNCHANGED switch
      BY <2>4, PlainIsPlain
    <3>2. Waiting' = Waiting
      BY <1>1, <3>1, CallBeginsKeepsWaiting
    <3>3. Next /\ UNCHANGED inbound
      BY <3>1, PortCallIsNext DEF PortCall, peer
    <3>4. Carries(ms)'
      BY <1>1, <2>2, <3>1, <3>2, <3>3, SameMessages
    <3> QED
      BY <3>4
  <2>5. CASE LoopCallStep
    <3>1. CallStep /\ UNCHANGED switch
      BY <2>5 DEF LoopCallStep
    <3>2. Waiting' = Waiting
      BY <1>1, <3>1, CallStepKeepsWaiting
    <3>3. Next /\ UNCHANGED inbound
      BY <3>1, PortCallIsNext DEF PortCall, peer
    <3>4. Carries(ms)'
      BY <1>1, <2>2, <3>1, <3>2, <3>3, SameMessages
    <3> QED
      BY <3>4
  <2>6. CASE \E enabled \in BOOLEAN : SetLoopback(enabled)
    BY <1>1, <1>2, <2>2, <2>6, SwitchCarries
  <2>7. CASE Shift
    BY <1>1, <2>2, <2>7, ShiftCarries
  <2>8. CASE UNCHANGED loopVars
    <3>1. UNCHANGED vars /\ UNCHANGED switch
      BY <2>8 DEF loopVars
    <3>2. UNCHANGED <<inbound, tx_chip, pc, burst, tx_queue>>
      BY <3>1 DEF vars, peer, txVars, call
    <3>3. Waiting' = Waiting
      BY <3>2 DEF Waiting, TxBurst
    <3>4. Carries(ms)'
      BY <1>1, <2>2, <3>1, <3>2, <3>3, SameMessages
    <3> QED
      BY <3>4
  <2> QED
    BY <2>3, <2>4, <2>5, <2>6, <2>7, <2>8, LoopCases
<1> QED
  BY <1>1, <1>2 DEF LoopInv

LEMMA LoopInvHolds == LoopSpec => []LoopInv
  BY LoopInitially, LoopKeeps, PTL DEF LoopSpec

-----------------------------------------------------------------------------
(* The port in loopback implements a byte stream.                          *)

Lossy == overrun \/ truncated \/ cut

(* What reads have returned of an undisturbed loopback was written before. *)
LEMMA ReadsReturnWrites ==
  ASSUME LoopInv, ~Lossy
  PROVE  Pipe!IsPrefix(delivered, echoes)
<1>1. PICK ms : Carries(ms)
  BY DEF LoopInv, Lossy
<1>2. Sendable(ms) /\ echoes = DataUpTo(ms, Len(ms)) /\ Standing(ms)
  BY <1>1 DEF Carries
<1>3. PICK k \in 0..Len(ms) : delivered \o rx_queue = DataUpTo(ms, k)
  BY <1>2 DEF Standing, Lossy
<1>4. ms \in Seq(Bytes) /\ Len(ms) \in 0..Len(ms) /\ k \in 0..Len(ms)
  BY <1>2, <1>3 DEF Sendable
<1>5. PICK y \in Bytes : DataUpTo(ms, Len(ms)) = DataUpTo(ms, k) \o y
  BY <1>4, StreamSplits
<1> DEFINE rest == rx_queue \o y
<1>6. delivered \in Seq(AnyByte) /\ rx_queue \in Seq(AnyByte) /\ y \in Seq(AnyByte)
  BY <1>5 DEF LoopInv, PortInv, RxInv, Bytes
<1>7. (delivered \o rx_queue) \o y = delivered \o rest /\ rest \in Seq(AnyByte)
  BY <1>6, ConcatAssociative, ConcatProperties
<1> HIDE DEF rest
<1>8. echoes = delivered \o rest
  BY <1>2, <1>3, <1>5, <1>7
<1>9. delivered \in Bytes /\ rest \in Bytes
  BY <1>6, <1>7 DEF Bytes
<1> QED
  BY <1>8, <1>9, BeginningIsPrefix

LEMMA WriteIsPut ==
  ASSUME LoopInv, NEW p \in Payloads, LoopWrite(p)
  PROVE  Pipe!Put
<1>1. UNCHANGED <<delivered, overrun, truncated, cut>>
  BY DEF LoopWrite, WriteAccepted, rxChip
<1>2. echoes \in Bytes /\ p \in Bytes
  BY PortAssumption DEF LoopInv, SwitchInv
<1>3. Pipe!IsPrefix(echoes, echoes')
  <2>1. CASE loopback
    BY <1>2, <2>1, BeginningIsPrefix DEF LoopWrite
  <2>2. CASE ~loopback
    BY <1>2, <2>2, PrefixOfItself DEF LoopWrite
  <2> QED
    BY <2>1, <2>2
<1> QED
  BY <1>1, <1>3 DEF Pipe!Put

LEMMA ReadIsGet ==
  ASSUME LoopInv, LoopInv', ReadReturn, UNCHANGED switch, ~Lossy'
  PROVE  Pipe!Get
<1>1. /\ delivered' = delivered \o Prefix(rx_queue, length)
      /\ UNCHANGED <<truncated, overrun, echoes, cut>>
  BY DEF ReadReturn, rxChip, switch
<1>2. delivered \in Bytes /\ Prefix(rx_queue, length) \in Bytes
  BY PrefixSuffix DEF LoopInv, PortInv, CallInv, RxInv
<1>3. Pipe!IsPrefix(delivered, delivered')
  BY <1>1, <1>2, BeginningIsPrefix
<1>4. Pipe!IsPrefix(delivered', echoes)
  <2>1. Pipe!IsPrefix(delivered, echoes)'
    BY ReadsReturnWrites, PTL
  <2> QED
    BY <1>1, <2>1
<1> QED
  BY <1>1, <1>3, <1>4 DEF Pipe!Get

LEMMA LoopStepIsPipeStep ==
  ASSUME LoopInv, LoopInv', [LoopNext]_loopVars
  PROVE  [Pipe!Next]_<<echoes, delivered, Lossy>>
<1>1. CASE Lossy'
  <2>1. Lossy' = TRUE
    BY <1>1 DEF Lossy
  <2> QED
    BY <2>1 DEF Lossy, Pipe!Next, Pipe!Break
<1>2. CASE ~Lossy' /\ \E p \in Payloads : LoopWrite(p)
  BY <1>2, WriteIsPut DEF Pipe!Next
<1>3. CASE ~Lossy' /\ ReadReturn /\ UNCHANGED switch
  BY <1>3, ReadIsGet DEF Pipe!Next
<1>4. CASE /\ ~Lossy'
           /\ ~\E p \in Payloads : LoopWrite(p)
           /\ ~(ReadReturn /\ UNCHANGED switch)
  <2>1. UNCHANGED <<echoes, delivered>>
    BY <1>4, LoopCases, PlainIsPlain, PlainKeeps
       DEF LoopCallStep, SetLoopback, Shift,
           CallStep, FlushLevel, StoreWord, WriteReturn, PollFlushed, StageLevel,
           RecheckLevel, LoadWord, StageDone, PollReturn, DecodeFrame, ReadFailed,
           switch, loopVars, vars, rxVars
  <2>2. ~Lossy
    BY <1>4, LoopCases, PlainIsPlain, PlainKeeps
       DEF Lossy, LoopCallStep, SetLoopback, Shift,
           CallStep, FlushLevel, StoreWord, WriteReturn, PollFlushed, StageLevel,
           RecheckLevel, LoadWord, StageDone, PollReturn, DecodeFrame, ReadFailed,
           switch, loopVars, vars, rxVars, rxChip, LoopInv, PortInv, CallInv, SwitchInv
  <2>3. Lossy' = Lossy
    BY <1>4, <2>2 DEF Lossy
  <2> QED
    BY <2>1, <2>3
<1> QED
  BY <1>1, <1>2, <1>3, <1>4

(* xr17v358_set_loopback turns a port into a byte stream from write_hw to  *)
(* read_hw: what reads return is what writes in loopback accepted, in      *)
(* order, however flushes, stagings and polls cut it up, until a byte is   *)
(* lost to an overrun, to a full rx_queue or to a switch of the loopback.  *)
THEOREM LoopImplementsPipe == LoopSpec => LoopIsPipe
<1>1. LoopInit => Pipe!Init
  BY DEF LoopInit, Init, Pipe!Init
<1>2. LoopInv /\ LoopInv' /\ [LoopNext]_loopVars
        => [Pipe!Next]_<<echoes, delivered, overrun \/ truncated \/ cut>>
  BY LoopStepIsPipeStep DEF Lossy
<1> QED
  BY <1>1, <1>2, LoopInvHolds, PTL DEF LoopSpec, LoopIsPipe, Pipe!Spec

(* The two conservation statements of XrHwPort survive the loopback, where *)
(* the bytes the driver sends are the ones it receives.                    *)
THEOREM LoopConserves == LoopSpec => [](TxConservation /\ RxConservation)
  BY LoopInvHolds, PortInvImplies, PTL DEF LoopInv
=============================================================================
