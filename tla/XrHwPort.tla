------------------------------ MODULE XrHwPort ------------------------------
(***************************************************************************)
(* One port of the driver on its hardware path: xr17v358_write_hw,         *)
(* xr17v358_read_hw and xr17v358_poll_hw_port, which hw_abstraction.c and  *)
(* through it the application call, together with the UART they drive.     *)
(*                                                                         *)
(* The driver is sequential C without locks, so one call runs at a time;   *)
(* the UART is not: between any two register accesses of a call it shifts  *)
(* bytes out of its TX FIFO and receives bytes into its RX FIFO.  A step   *)
(* of a call is therefore one access (a level register, one word or byte   *)
(* of the FIFO window) with the computation up to the next one; pc says    *)
(* where the call is.                                                      *)
(*                                                                         *)
(* The rings are sequences of bytes (ByteRing implements them) and a frame *)
(* is what SerialFrame says.                                               *)
(***************************************************************************)
EXTENDS SerialFrame

CONSTANTS
  FifoCapacity,     \* XR17V358_FIFO_CAPACITY: depth of the UART's FIFOs
  LevelMax,         \* largest value an 8-bit level register can show
  WordSize,         \* bytes moved by one 32-bit access of the FIFO window
  TxQueueCapacity,  \* bytes tx_queue holds
  RxFifoCapacity,   \* bytes rx_fifo holds
  RxQueueCapacity,  \* bytes rx_queue holds
  Payloads,         \* payloads the application writes
  PeerPayloads,     \* payloads the device at the other end sends: what fits a frame
  ReadLengths,      \* lengths the application passes to read
  MaxReported,      \* encoded bytes after which no more writes start (bound)
  MaxMessages       \* messages the peer sends (bound)

ASSUME PortAssumption ==
  /\ FifoCapacity \in Nat \ {0}
  /\ LevelMax \in 1..FifoCapacity
  /\ WordSize \in Nat \ {0}
  /\ TxQueueCapacity \in Nat
  /\ RxFifoCapacity \in Nat
  /\ RxQueueCapacity \in Nat \ {0}
  /\ Payloads \subseteq Bytes
  /\ \A p \in PeerPayloads : p \in Bytes /\ Len(p) \in 1..QueueCapacity
  /\ ReadLengths \subseteq Nat
  /\ MaxReported \in Nat
  /\ MaxMessages \in Nat

VARIABLES
  \* the driver's state
  is_initialized, tx_queue, rx_fifo, rx_queue,
  \* the call in progress
  pc,        \* where it is, "idle" when there is none
  op,        \* which call it is, "none" when there is none
  payload,   \* data argument of a write
  length,    \* length argument of a read
  burst,     \* the local frame_bytes: on its way to or from the FIFO window
  todo,      \* bytes the read loop of xr17v358_read_rx_fifo will fetch
  ret,       \* what the last call returned, until the next one begins
  \* the UART and the line
  tx_chip,   \* TX FIFO
  rx_chip,   \* RX FIFO
  arrived,   \* how many bytes of inbound have reached the UART
  overrun,   \* the UART dropped a byte because its RX FIFO was full
  \* what happened so far, as the application and the peer see it
  reported,  \* frames of the payloads that calls reported as written
  sent,      \* bytes the UART put on the line
  messages,  \* payloads the peer sent
  inbound,   \* their bytes on the line
  taken,     \* bytes the decoder removed from rx_fifo
  delivered, \* payload bytes returned by reads
  truncated, \* a payload did not fit into rx_queue
  announced  \* the last poll said MESSAGE_READY and no read has returned since

txVars == <<tx_queue, tx_chip, sent, reported, payload>>
rxVars == <<rx_fifo, rx_queue, length, todo, taken, delivered, truncated>>
rxChip == <<rx_chip, arrived, overrun>>
peer == <<messages, inbound>>
call == <<pc, op, ret, burst>>
vars == <<is_initialized, txVars, rxVars, rxChip, peer, call, announced>>

-----------------------------------------------------------------------------
Frame(p) == Encode(p, MaxEncoded)

(* An 8-bit level register of a FIFO: it cannot show a full FIFO of 256.   *)
(* The clamp of xr17v358_read_fifo_level to FifoCapacity is above LevelMax *)
(* and never acts.                                                         *)
Level(n) == AtMost(n, LevelMax)

(* Room the driver believes TXLVL reports.                                 *)
TxRoom == FifoCapacity - Len(tx_chip)

(* Mutant: every call resets the state. *)
KeptNever(ring) == <<>>

(* xr17v358_ensure_state_initialized: the first call empties the rings.    *)
Kept(ring) == IF is_initialized THEN ring ELSE <<>>

EnsureInitialized ==
  /\ is_initialized' = TRUE
  /\ rx_fifo' = Kept(rx_fifo)
  /\ rx_queue' = Kept(rx_queue)

Begin(operation, at) ==
  /\ pc = "idle" /\ pc' = at
  /\ op' = operation
  /\ ret' = [status |-> "RUNNING", count |-> 0]

Return(status, count) ==
  /\ pc' = "idle"
  /\ op' = "none"
  /\ ret' = [status |-> status, count |-> count]

Init ==
  /\ is_initialized = FALSE
  /\ tx_queue = <<>> /\ rx_fifo = <<>> /\ rx_queue = <<>>
  /\ pc = "idle" /\ op = "none" /\ payload = <<>> /\ length = 0
  /\ burst = <<>> /\ todo = 0
  /\ ret = [status |-> "OK", count |-> 0]
  /\ tx_chip = <<>> /\ rx_chip = <<>> /\ arrived = 0 /\ overrun = FALSE
  /\ reported = <<>> /\ sent = <<>>
  /\ messages = <<>> /\ inbound = <<>>
  /\ taken = <<>> /\ delivered = <<>> /\ truncated = FALSE
  /\ announced = FALSE

-----------------------------------------------------------------------------
(* Calls begin.                                                            *)

(* A call with a bad port or a null pointer does nothing but initialise.   *)
RejectCall(status) ==
  /\ pc = "idle"
  /\ EnsureInitialized
  /\ tx_queue' = Kept(tx_queue)
  /\ Return(status, 0)
  /\ UNCHANGED <<burst, tx_chip, sent, reported, payload, length, todo,
                 taken, delivered, truncated, rxChip, peer, announced>>

(* Mutant: the queue is only tested for being full. *)
FitsIfNotFull(frame) == Len(Kept(tx_queue)) < TxQueueCapacity

(* Whether xr17v358_write_hw queues a frame: whole or not at all.          *)
Fits(frame) == Len(Kept(tx_queue)) + Len(frame) <= TxQueueCapacity

(* A payload that cannot be encoded or whose frame does not fit is not     *)
(* queued: the call returns at once, without touching the UART.            *)
WriteRefused(p) ==
  /\ pc = "idle"
  /\ Frame(p) = <<>> \/ ~Fits(Frame(p))
  /\ EnsureInitialized
  /\ tx_queue' = Kept(tx_queue)
  /\ Return("OK", 0)
  /\ UNCHANGED <<burst, tx_chip, sent, reported, payload, length, todo,
                 taken, delivered, truncated, rxChip, peer, announced>>

WriteAccepted(p) ==
  /\ Begin("write", "tx_level")
  /\ Len(reported) < MaxReported
  /\ Frame(p) # <<>> /\ Fits(Frame(p))
  /\ EnsureInitialized
  /\ tx_queue' = Kept(tx_queue) \o Frame(p)
  /\ payload' = p
  /\ UNCHANGED <<burst, tx_chip, sent, reported, length, todo,
                 taken, delivered, truncated, rxChip, peer, announced>>

PollHw ==
  /\ Begin("poll", "tx_level")
  /\ EnsureInitialized
  /\ tx_queue' = Kept(tx_queue)
  /\ UNCHANGED <<burst, tx_chip, sent, reported, payload, length, todo,
                 taken, delivered, truncated, rxChip, peer, announced>>

ReadHw(n) ==
  /\ Begin("read", "rx_level")
  /\ EnsureInitialized
  /\ tx_queue' = Kept(tx_queue)
  /\ length' = n
  /\ UNCHANGED <<burst, tx_chip, sent, reported, payload, todo,
                 taken, delivered, truncated, rxChip, peer, announced>>

-----------------------------------------------------------------------------
(* xr17v358_flush_tx_queue_to_hw.                                          *)

(* Mutant: a flush assumes an empty TX FIFO. *)
FlushWholeFifo == FifoCapacity

(* Mutant: a flush waits until the UART has room for all queued bytes. *)
FlushAllOrNothing == IF Len(tx_queue) <= Level(TxRoom) THEN Len(tx_queue) ELSE 0

(* Bytes a flush may move, by the TXLVL it reads.                          *)
FlushSize == AtMost(Level(TxRoom), FifoCapacity)

(* TXLVL is read and as many queued bytes as it allows leave the ring.     *)
FlushLevel ==
  /\ pc = "tx_level"
  /\ burst' = Prefix(tx_queue, FlushSize)
  /\ tx_queue' = Suffix(tx_queue, FlushSize)
  /\ pc' = "tx_data"
  /\ UNCHANGED <<is_initialized, op, ret, payload, tx_chip, sent, reported,
                 rxVars, rxChip, peer, announced>>

(* Bytes one access moves: a whole word while there is one, then single    *)
(* bytes.                                                                  *)
AccessSize(n) == IF n >= WordSize THEN WordSize ELSE 1

(* One write to the FIFO window; the UART drops what its FIFO cannot take. *)
StoreWord ==
  /\ pc = "tx_data"
  /\ burst # <<>>
  /\ LET n == AccessSize(Len(burst))
     IN  /\ tx_chip' = tx_chip \o Prefix(Prefix(burst, n), TxRoom)
         /\ burst' = Suffix(burst, n)
  /\ UNCHANGED <<is_initialized, pc, op, ret, payload, tx_queue, sent, reported,
                 rxVars, rxChip, peer, announced>>

(* The flush is over: a write returns, a poll goes on to its RX half.      *)
WriteReturn ==
  /\ pc = "tx_data" /\ burst = <<>> /\ op = "write"
  /\ Return("OK", Len(payload))
  /\ reported' = reported \o Frame(payload)
  /\ payload' = <<>>
  /\ UNCHANGED <<is_initialized, burst, tx_queue, tx_chip, sent,
                 rxVars, rxChip, peer, announced>>

PollFlushed ==
  /\ pc = "tx_data" /\ burst = <<>> /\ op = "poll"
  /\ pc' = "rx_level"
  /\ UNCHANGED <<is_initialized, op, ret, burst, txVars, rxVars, rxChip, peer,
                 announced>>

-----------------------------------------------------------------------------
(* xr17v358_stage_rx_bytes_from_hw.                                        *)

RxFifoRoom == RxFifoCapacity - Len(rx_fifo)

(* Mutant: the room in rx_fifo is not looked at. *)
StageSizeByLevel == AtMost(Level(Len(rx_chip)), FifoCapacity)

(* Bytes xr17v358_stage_rx_bytes_from_hw asks for, by the RXLVL it reads.  *)
StageSize == AtMost(AtMost(Level(Len(rx_chip)), RxFifoRoom), FifoCapacity)

(* RXLVL is read; nothing is staged when it shows 0 or rx_fifo is full.    *)
StageLevel ==
  /\ pc = "rx_level"
  /\ todo' = StageSize
  /\ pc' = IF todo' = 0 THEN "staged" ELSE "rx_check"
  /\ UNCHANGED <<is_initialized, op, ret, burst, txVars, rx_fifo, rx_queue,
                 length, taken, delivered, truncated, rxChip, peer, announced>>

(* xr17v358_read_rx_fifo reads RXLVL again before it fetches the bytes.    *)
RecheckLevel ==
  /\ pc = "rx_check"
  /\ todo' = AtMost(AtMost(todo, Level(Len(rx_chip))), FifoCapacity)
  /\ pc' = "rx_data"
  /\ UNCHANGED <<is_initialized, op, ret, burst, txVars, rx_fifo, rx_queue,
                 length, taken, delivered, truncated, rxChip, peer, announced>>

(* One read of the FIFO window; an empty UART FIFO would yield zeroes.     *)
LoadWord ==
  /\ pc = "rx_data"
  /\ Len(burst) < todo
  /\ LET n == AccessSize(todo - Len(burst))
     IN  /\ burst' = burst \o [i \in 1..n |-> IF i <= Len(rx_chip) THEN rx_chip[i] ELSE 0]
         /\ rx_chip' = Suffix(rx_chip, n)
  /\ UNCHANGED <<is_initialized, pc, op, ret, txVars, rxVars, arrived, overrun,
                 peer, announced>>

(* The fetched bytes go into rx_fifo; a short ring write fails the call.   *)
StageDone ==
  /\ pc = "rx_data"
  /\ Len(burst) = todo
  /\ rx_fifo' = rx_fifo \o Prefix(burst, RxFifoRoom)
  /\ burst' = <<>>
  /\ todo' = 0
  /\ IF Len(burst) > RxFifoRoom
     THEN Return("INVALID_FRAME", 0) /\ length' = 0
     ELSE pc' = "staged" /\ UNCHANGED <<op, ret, length>>
  /\ UNCHANGED <<is_initialized, txVars, rx_queue, taken, delivered,
                 truncated, rxChip, peer, announced>>

-----------------------------------------------------------------------------
(* Calls end.                                                              *)

PollReturn ==
  /\ pc = "staged" /\ op = "poll"
  /\ announced' = HasCompleteFrame(rx_fifo)
  /\ Return(IF HasCompleteFrame(rx_fifo) THEN "MESSAGE_READY" ELSE "MESSAGE_NOT_READY", 0)
  /\ UNCHANGED <<is_initialized, burst, txVars, rxVars, rxChip, peer>>

(* Mutant: the last frame in rx_fifo is never decoded. *)
MayDecodeAllButLast == FrameCount(rx_fifo) > 1 /\ Len(rx_queue) < RxQueueCapacity

(* The condition of the loop of xr17v358_decode_rx_fifo_into_read_queue.   *)
MayDecode == HasCompleteFrame(rx_fifo) /\ Len(rx_queue) < RxQueueCapacity

RxQueueRoom == RxQueueCapacity - Len(rx_queue)

(* One iteration: a frame leaves rx_fifo, and its payload, or the part of  *)
(* it that fits, enters rx_queue.  A frame that is broken and a payload    *)
(* that does not fit both end the read with INVALID_FRAME.                 *)
DecodeFrame ==
  /\ pc = "staged" /\ op = "read"
  /\ MayDecode
  /\ LET read == ReadFrame(rx_fifo, MaxEncoded)
         decoded == Decode(read.frame, QueueCapacity)
         ok == read.status = "OK" /\ decoded.status = "OK"
         short == ok /\ Len(decoded.data) > RxQueueRoom
     IN  /\ rx_fifo' = read.rest
         /\ taken' = taken \o Prefix(rx_fifo, Len(rx_fifo) - Len(read.rest))
         /\ rx_queue' = IF ok THEN rx_queue \o Prefix(decoded.data, RxQueueRoom) ELSE rx_queue
         /\ truncated' = (truncated \/ short)
         /\ IF ok /\ ~short
            THEN UNCHANGED <<pc, op, ret, length, announced>>
            ELSE Return("INVALID_FRAME", 0) /\ length' = 0 /\ announced' = FALSE
  /\ UNCHANGED <<is_initialized, burst, txVars, todo, delivered, rxChip, peer>>

(* The end of xr17v358_read_from_staged_rx.                                *)
ReadFailed ==
  /\ pc = "staged" /\ op = "read"
  /\ ~MayDecode
  /\ rx_queue = <<>> /\ rx_fifo # <<>>
  /\ Return("INVALID_FRAME", 0)
  /\ length' = 0
  /\ announced' = FALSE
  /\ UNCHANGED <<is_initialized, burst, txVars, rx_fifo, rx_queue, todo, taken,
                 delivered, truncated, rxChip, peer>>

ReadReturn ==
  /\ pc = "staged" /\ op = "read"
  /\ ~MayDecode
  /\ rx_queue # <<>> \/ rx_fifo = <<>>
  /\ delivered' = delivered \o Prefix(rx_queue, length)
  /\ rx_queue' = Suffix(rx_queue, length)
  /\ Return("OK", AtMost(length, Len(rx_queue)))
  /\ length' = 0
  /\ announced' = FALSE
  /\ UNCHANGED <<is_initialized, burst, txVars, rx_fifo, todo, taken, truncated,
                 rxChip, peer>>

-----------------------------------------------------------------------------
(* The UART and the device at the other end of the line.                   *)

ShiftOut ==
  /\ tx_chip # <<>>
  /\ sent' = Append(sent, Head(tx_chip))
  /\ tx_chip' = Tail(tx_chip)
  /\ UNCHANGED <<is_initialized, tx_queue, reported, payload, rxVars, rxChip,
                 peer, call, announced>>

(* The next byte on the line reaches the UART, and is lost if its RX FIFO  *)
(* is full; the driver never looks at the overrun bit of LSR.              *)
Arrive ==
  /\ arrived < Len(inbound)
  /\ arrived' = arrived + 1
  /\ IF Len(rx_chip) < FifoCapacity
     THEN rx_chip' = Append(rx_chip, inbound[arrived + 1]) /\ UNCHANGED overrun
     ELSE overrun' = TRUE /\ UNCHANGED rx_chip
  /\ UNCHANGED <<is_initialized, txVars, rxVars, peer, call, announced>>

PeerSend(p) ==
  /\ Len(messages) < MaxMessages
  /\ messages' = Append(messages, p)
  /\ inbound' = inbound \o Frame(p)
  /\ UNCHANGED <<is_initialized, txVars, rxVars, rxChip, call, announced>>

-----------------------------------------------------------------------------
CallStep ==
  \/ FlushLevel \/ StoreWord \/ WriteReturn \/ PollFlushed
  \/ StageLevel \/ RecheckLevel \/ LoadWord \/ StageDone
  \/ PollReturn \/ DecodeFrame \/ ReadFailed \/ ReadReturn

Next ==
  \/ \E status \in {"INVALID_PORT", "INVALID_ARGUMENT"} : RejectCall(status)
  \/ \E p \in Payloads : WriteRefused(p) \/ WriteAccepted(p)
  \/ PollHw
  \/ \E n \in ReadLengths : ReadHw(n)
  \/ CallStep
  \/ ShiftOut
  \/ Arrive
  \/ \E p \in PeerPayloads : PeerSend(p)

Spec == Init /\ [][Next]_vars

-----------------------------------------------------------------------------
(* What is on its way, by direction.                                       *)

TxBurst == IF pc = "tx_data" THEN burst ELSE <<>>
RxBurst == IF pc = "rx_data" THEN burst ELSE <<>>

Writing == op = "write" /\ pc \in {"tx_level", "tx_data"}
InFlight == IF Writing THEN Frame(payload) ELSE <<>>

Status == {"RUNNING", "OK", "MESSAGE_READY", "MESSAGE_NOT_READY",
           "INVALID_ARGUMENT", "INVALID_PORT", "INVALID_FRAME"}

TypeOK ==
  /\ is_initialized \in BOOLEAN
  /\ tx_queue \in Bytes /\ Len(tx_queue) <= TxQueueCapacity
  /\ rx_fifo \in Bytes /\ Len(rx_fifo) <= RxFifoCapacity
  /\ rx_queue \in Bytes /\ Len(rx_queue) <= RxQueueCapacity
  /\ pc \in {"idle", "tx_level", "tx_data", "rx_level", "rx_check", "rx_data", "staged"}
  /\ op \in {"none", "write", "read", "poll"}
  /\ payload \in Bytes
  /\ length \in Nat
  /\ burst \in Bytes /\ Len(burst) <= FifoCapacity
  /\ todo \in 0..FifoCapacity
  /\ ret \in [status : Status, count : Nat]
  /\ tx_chip \in Bytes /\ Len(tx_chip) <= FifoCapacity
  /\ rx_chip \in Bytes /\ Len(rx_chip) <= FifoCapacity
  /\ arrived \in 0..Len(inbound)
  /\ {overrun, truncated, announced} \subseteq BOOLEAN
  /\ reported \in Bytes /\ sent \in Bytes
  /\ messages \in Seq(Bytes) /\ inbound \in Bytes
  /\ taken \in Bytes /\ delivered \in Bytes

(* Everything the application was told is written, and nothing else, goes  *)
(* to the line in order: the level read from TXLVL is old when the bytes   *)
(* are stored, a flush may stop in the middle of a frame or of an escape   *)
(* pair, and a refused write leaves no trace.                              *)
TxConservation ==
  sent \o tx_chip \o TxBurst \o tx_queue = reported \o InFlight

(* A level register read earlier in a call is still a safe bound when the  *)
(* bytes move: the UART has room for every byte a flush took from tx_queue *)
(* although TXLVL was read before the first of them was stored.            *)
TxLevelHolds == pc = "tx_data" => Len(burst) <= TxRoom

(* The same for receiving: what is still to be fetched is in the UART's RX *)
(* FIFO, and rx_fifo has room for all of it, so no read of the window      *)
(* yields a byte the UART does not have and no ring write falls short.     *)
RxLevelHolds ==
  /\ pc = "rx_check" => todo <= Len(rx_chip) /\ todo <= RxFifoRoom
  /\ pc = "rx_data" => /\ Len(burst) <= todo /\ todo <= RxFifoRoom
                       /\ todo - Len(burst) <= Len(rx_chip)

(* Every byte the UART received without an overrun is in rx_fifo, in       *)
(* transit, or was handed to the decoder, in order, although RXLVL is read *)
(* twice and more bytes arrive between the reads.                          *)
RxConservation ==
  ~overrun => taken \o rx_fifo \o RxBurst \o rx_chip = Prefix(inbound, arrived)

-----------------------------------------------------------------------------
(* Fairness.  A call never waits for anything, so it runs to its end; the  *)
(* UART keeps shifting bytes in and out.                                   *)
CallsEnd == WF_vars(CallStep)
UartRuns == WF_vars(ShiftOut) /\ WF_vars(Arrive)

(* The application's service loop: it polls the port and reads from it     *)
(* again and again, whatever else it calls in between.                     *)
Serviced ==
  /\ SF_vars(PollHw)
  /\ SF_vars(\E n \in ReadLengths \ {0} : ReadHw(n))

ServicedSpec == Spec /\ CallsEnd /\ UartRuns /\ Serviced

(* An application that only writes, and writes again when nothing was      *)
(* accepted.                                                               *)
WriteOnlySpec ==
  Spec /\ CallsEnd /\ UartRuns /\ SF_vars(\E p \in Payloads : WriteRefused(p) \/ WriteAccepted(p))

(* The line catches up with everything the driver accepted: queued bytes   *)
(* never stay in tx_queue for good.                                        *)
TxDrained == []<>(sent = reported \o InFlight)
=============================================================================
