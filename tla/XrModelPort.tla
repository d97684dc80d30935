---------------------------- MODULE XrModelPort ----------------------------
(***************************************************************************)
(* One port of the driver on its modelled path, without a UART:            *)
(* xr17v358_write, xr17v358_read and xr17v358_poll_port, and the helpers   *)
(* of hw_test_helpers.c that stand in for the device at the other end.     *)
(* A write goes tx_queue -> tx_fifo -> xr17v358_queue_read, a message of   *)
(* the peer goes xr17v358_receive -> rx_pending -> rx_fifo -> rx_queue ->  *)
(* xr17v358_read.  Polls move bytes; writes, reads and helpers move frames.*)
(*                                                                         *)
(* Calls run one at a time.  A call is one step, except that the loops of  *)
(* read, queue_read and ring_transfer_frames take a step per frame.        *)
(***************************************************************************)
EXTENDS SerialFrame

CONSTANTS
  FifoCapacity,   \* XR17V358_FIFO_CAPACITY: bytes one poll moves, messages tx_fifo takes
  RingCapacity,   \* XR17V358_RING_BUFFER_STORAGE_CAPACITY: bytes each ring holds
  Payloads,       \* payloads written and received
  RawBytes,       \* byte strings tests inject
  Lengths,        \* buffer lengths passed to read and queue_read
  MaxTraffic      \* bytes written, received and injected between resets (bound)

ASSUME ModelAssumption ==
  /\ FifoCapacity \in Nat \ {0}
  /\ RingCapacity \in Nat
  /\ Payloads \subseteq Bytes
  /\ RawBytes \subseteq Bytes
  /\ Lengths \subseteq Nat
  /\ MaxTraffic \in Nat

VARIABLES
  is_initialized,
  port,   \* the five rings of the port, as byte sequences
  call,   \* a call in the middle of its loop: op, its length and data arguments
  ret,    \* what the last call returned
  tx,     \* history of the transmit side, see NoTx
  rx      \* history of the receive side, see NoRx

vars == <<is_initialized, port, call, ret, tx, rx>>

EmptyPort ==
  [tx_queue |-> <<>>, tx_fifo |-> <<>>, rx_pending |-> <<>>, rx_fifo |-> <<>>, rx_queue |-> <<>>]

NoCall == [op |-> "none", length |-> 0, data |-> <<>>]

(* written: frames of the accepted writes; fetched: bytes queue_reads took *)
(* from tx_fifo; took: those the last one took; collected: payload bytes   *)
(* they returned; raw: a test put raw bytes into tx_fifo; torn: a transfer *)
(* began in the middle of a frame.                                         *)
NoTx == [written |-> <<>>, fetched |-> <<>>, took |-> <<>>, collected |-> <<>>,
         raw |-> FALSE, torn |-> FALSE]

(* offered: frames of the accepted receives; taken: bytes the decoder took *)
(* from rx_fifo; delivered: payload bytes reads returned; raw: a test put  *)
(* raw bytes into rx_fifo; truncated: a payload did not fit into rx_queue. *)
NoRx == [offered |-> <<>>, taken |-> <<>>, delivered |-> <<>>, raw |-> FALSE, truncated |-> FALSE]

-----------------------------------------------------------------------------
Room(ring) == RingCapacity - Len(ring)

(* xr17v358_ring_write_bytes: what does not fit is not written.            *)
RingWrite(ring, s) == ring \o Prefix(s, Room(ring))

Frame(p) == Encode(p, MaxEncoded)

(* Mutant: the room in the destination is not looked at. *)
MovableUnchecked(source, destination) == AtMost(Len(source), FifoCapacity)

(* Bytes xr17v358_transfer_ring_bytes moves for a poll.                    *)
Movable(source, destination) ==
  AtMost(AtMost(Len(source), FifoCapacity), Room(destination))

TransferBytes(r, source, destination) ==
  LET n == Movable(r[source], r[destination])
  IN  [r EXCEPT ![source] = Suffix(@, n),
                ![destination] = RingWrite(@, Prefix(r[source], n))]

FlushTxQueue(r) == TransferBytes(r, "tx_queue", "tx_fifo")
StageRxBytes(r) == TransferBytes(r, "rx_pending", "rx_fifo")

(* xr17v358_inject_frame_bytes.                                            *)
Injected(r, ring, s) == [r EXCEPT ![ring] = RingWrite(@, s)]

(* Mutant: only the number of frames counts. *)
CanAcceptByCount(ring, frames) == FrameCount(ring) < frames

(* xr17v358_ring_can_accept_frame.                                         *)
CanAcceptFrame(ring, frames) ==
  FrameCount(ring) < frames /\ Len(ring) + MaxEncoded <= RingCapacity

(* Mutant: the closing delimiter stays, to open the next frame. *)
KeepDelimiter(ring, cut) ==
  IF cut.status = "OK" THEN <<Delimiter>> \o cut.rest ELSE cut.rest

(* What xr17v358_ring_read_frame leaves in the ring.                       *)
AfterCut(ring, cut) == cut.rest

(* A frame leaves the ring and is decoded.  A frame that cannot be cut is  *)
(* the empty sequence, which does not decode.                              *)
NextMessage(ring) ==
  LET cut == ReadFrame(ring, MaxEncoded)
      decoded == Decode(cut.frame, QueueCapacity)
      rest == AfterCut(ring, cut)
  IN  [status |-> decoded.status, data |-> decoded.data, rest |-> rest,
       bytes |-> Prefix(ring, Len(ring) - Len(rest))]

(* The rings a call finds: the first call empties them.                    *)
Ready == IF is_initialized THEN port ELSE EmptyPort

Init ==
  /\ is_initialized = FALSE
  /\ port = EmptyPort
  /\ call = NoCall
  /\ ret = [status |-> "OK", count |-> 0]
  /\ tx = NoTx /\ rx = NoRx

-----------------------------------------------------------------------------
Enter == call = NoCall /\ is_initialized' = TRUE

Begin(op, n) ==
  /\ Enter
  /\ port' = Ready
  /\ call' = [op |-> op, length |-> n, data |-> <<>>]
  /\ tx' = [tx EXCEPT !.took = <<>>]
  /\ UNCHANGED <<ret, rx>>

Return(status, count) ==
  call' = NoCall /\ ret' = [status |-> status, count |-> count]

(* A call that only initialises and returns.                               *)
Answer(status, count) ==
  Enter /\ port' = Ready /\ Return(status, count) /\ UNCHANGED <<tx, rx>>

(* Mutant: room for the frame is not looked at. *)
AcceptsAny(ring, p) == Frame(p) # <<>>

(* Whether a ring takes the frame of a payload: whole or not at all.       *)
Accepts(ring, p) == Frame(p) # <<>> /\ Len(ring) + Len(Frame(p)) <= RingCapacity

(* Bound: bytes that have entered either side since the last reset, or     *)
(* what is left of them.                                                   *)
AtLeast(a, b) == IF a < b THEN b ELSE a
Traffic == AtLeast(Len(tx.written), Len(tx.fetched \o port.tx_fifo))
             + AtLeast(Len(rx.offered), Len(rx.taken \o port.rx_fifo))
MayFeed(s) == Traffic + Len(s) <= MaxTraffic

WriteAccepted(p) ==
  /\ Enter
  /\ Accepts(Ready.tx_queue, p) /\ MayFeed(Frame(p))
  /\ port' = [Ready EXCEPT !.tx_queue = @ \o Frame(p)]
  /\ tx' = [tx EXCEPT !.written = @ \o Frame(p)]
  /\ Return("OK", Len(p))
  /\ UNCHANGED rx

WriteRefused(p) == ~Accepts(Ready.tx_queue, p) /\ Answer("OK", 0)

ReceiveAccepted(p) ==
  /\ Enter
  /\ Accepts(Ready.rx_pending, p) /\ MayFeed(Frame(p))
  /\ port' = [Ready EXCEPT !.rx_pending = @ \o Frame(p)]
  /\ rx' = [rx EXCEPT !.offered = @ \o Frame(p)]
  /\ Return("OK", Len(p))
  /\ UNCHANGED tx

ReceiveRefused(p) == ~Accepts(Ready.rx_pending, p) /\ Answer("OK", 0)

PollPort ==
  /\ Enter
  /\ port' = StageRxBytes(FlushTxQueue(Ready))
  /\ Return(IF HasCompleteFrame(port'.rx_fifo) THEN "MESSAGE_READY" ELSE "MESSAGE_NOT_READY", 0)
  /\ UNCHANGED <<tx, rx>>

InjectRx(s) ==
  /\ Enter /\ MayFeed(s)
  /\ port' = Injected(Ready, "rx_fifo", s)
  /\ rx' = [rx EXCEPT !.raw = TRUE]
  /\ Return("OK", AtMost(Len(s), Room(Ready.rx_fifo)))
  /\ UNCHANGED tx

InjectTx(s) ==
  /\ Enter /\ MayFeed(s)
  /\ port' = Injected(Ready, "tx_fifo", s)
  /\ tx' = [tx EXCEPT !.raw = TRUE]
  /\ Return("OK", AtMost(Len(s), Room(Ready.tx_fifo)))
  /\ UNCHANGED rx

(* Despite its name it fills tx_fifo, not tx_queue.                        *)
InjectQueue(s) == InjectTx(s)

Level(ring) == Answer("OK", FrameCount(Ready[ring]))

Reset ==
  /\ call = NoCall
  /\ is_initialized' = TRUE
  /\ port' = EmptyPort
  /\ tx' = NoTx /\ rx' = NoRx
  /\ Return("OK", 0)

-----------------------------------------------------------------------------
(* Frames moved past the poll.                                             *)

(* The bytes that left tx_queue end inside a frame.                        *)
InsideFrame == Cardinality(Delimiters(tx.fetched \o port.tx_fifo)) % 2 = 1

(* xr17v358_ring_transfer_frame from tx_queue to tx_fifo.                  *)
TransferFrame(r) ==
  LET cut == ReadFrame(r.tx_queue, MaxEncoded)
  IN  /\ port' = [r EXCEPT !.tx_queue = AfterCut(r.tx_queue, cut),
                           !.tx_fifo = RingWrite(@, cut.frame)]
      /\ tx' = [tx EXCEPT !.torn = @ \/ InsideFrame]
      /\ UNCHANGED rx

TransferOk(r) ==
  LET cut == ReadFrame(r.tx_queue, MaxEncoded)
  IN  cut.status = "OK" /\ Len(cut.frame) <= Room(r.tx_fifo)

MayTransfer(r) == FrameCount(r.tx_queue) > 0 /\ CanAcceptFrame(r.tx_fifo, FifoCapacity)

TransferNextTxFrame ==
  \/ MayTransfer(Ready) /\ Enter /\ TransferFrame(Ready)
       /\ Return(IF TransferOk(Ready) THEN "OK" ELSE "INVALID_FRAME", 0)
  \/ ~MayTransfer(Ready) /\ Answer("INVALID_FRAME", 0)

(* xr17v358_ring_transfer_frames, on the same two rings.                   *)
TransferFramesStep ==
  /\ call.op = "transfer_frames"
  /\ \/ /\ MayTransfer(port)
        /\ TransferFrame(port)
        /\ IF TransferOk(port) THEN UNCHANGED <<call, ret>> ELSE Return("INVALID_FRAME", 0)
     \/ ~MayTransfer(port) /\ Return("OK", 0) /\ UNCHANGED <<port, tx, rx>>
  /\ UNCHANGED is_initialized

-----------------------------------------------------------------------------
(* The loops of read and queue_read.                                       *)

MayDecode == HasCompleteFrame(port.rx_fifo) /\ Len(port.rx_queue) < RingCapacity

DecodeFrame ==
  /\ call.op = "read" /\ MayDecode
  /\ LET m == NextMessage(port.rx_fifo)
         fits == Len(m.data) <= Room(port.rx_queue)
     IN  /\ port' = [port EXCEPT !.rx_fifo = m.rest, !.rx_queue = RingWrite(@, m.data)]
         /\ rx' = [rx EXCEPT !.taken = @ \o m.bytes, !.truncated = @ \/ ~fits]
         /\ IF m.status = "OK" /\ fits THEN UNCHANGED <<call, ret>> ELSE Return("INVALID_FRAME", 0)
  /\ UNCHANGED <<is_initialized, tx>>

(* Mutant: a read that finds no message throws away what is in rx_fifo. *)
DropNoise(ring) == <<>>

(* A failing read leaves rx_fifo as it is.                                 *)
AfterFailure(ring) == ring

ReadFailed ==
  /\ call.op = "read" /\ ~MayDecode
  /\ port.rx_queue = <<>> /\ port.rx_fifo # <<>>
  /\ port' = [port EXCEPT !.rx_fifo = AfterFailure(@)]
  /\ Return("INVALID_FRAME", 0)
  /\ UNCHANGED <<is_initialized, tx, rx>>

ReadReturn ==
  /\ call.op = "read" /\ ~MayDecode
  /\ port.rx_queue # <<>> \/ port.rx_fifo = <<>>
  /\ port' = [port EXCEPT !.rx_queue = Suffix(@, call.length)]
  /\ rx' = [rx EXCEPT !.delivered = @ \o Prefix(port.rx_queue, call.length)]
  /\ Return("OK", AtMost(call.length, Len(port.rx_queue)))
  /\ UNCHANGED <<is_initialized, tx>>

(* Mutant: the loop goes on when the caller's buffer is full. *)
MayFetchWhenFull == Len(call.data) <= call.length /\ HasCompleteFrame(port.tx_fifo)

MayFetch == Len(call.data) < call.length /\ HasCompleteFrame(port.tx_fifo)

(* A payload that does not fit into the caller's buffer ends the call; the *)
(* frame is gone, and so is what the call had collected.                   *)
FetchFrame ==
  /\ call.op = "queue_read" /\ MayFetch
  /\ LET m == NextMessage(port.tx_fifo)
         fits == Len(call.data) + Len(m.data) <= call.length
         ok == m.status = "OK" /\ fits
     IN  /\ port' = [port EXCEPT !.tx_fifo = m.rest]
         /\ tx' = [tx EXCEPT !.fetched = @ \o m.bytes, !.took = @ \o m.bytes]
         /\ IF ok THEN call' = [call EXCEPT !.data = @ \o m.data] /\ UNCHANGED ret
            ELSE Return(IF fits THEN m.status ELSE "INVALID_ARGUMENT", 0)
  /\ UNCHANGED <<is_initialized, rx>>

QueueReadReturn ==
  /\ call.op = "queue_read" /\ ~MayFetch
  /\ tx' = [tx EXCEPT !.collected = @ \o call.data]
  /\ Return("OK", Len(call.data))
  /\ UNCHANGED <<is_initialized, port, rx>>

-----------------------------------------------------------------------------
Next ==
  \/ \E status \in {"INVALID_PORT", "INVALID_ARGUMENT"} : Answer(status, 0)
  \/ \E p \in Payloads : \/ WriteAccepted(p) \/ WriteRefused(p)
                         \/ ReceiveAccepted(p) \/ ReceiveRefused(p)
  \/ \E s \in RawBytes : InjectRx(s) \/ InjectTx(s) \/ InjectQueue(s)
  \/ PollPort
  \/ \E ring \in {"rx_fifo", "tx_fifo"} : Level(ring)
  \/ TransferNextTxFrame
  \/ Begin("transfer_frames", 0) \/ TransferFramesStep
  \/ \E n \in Lengths : Begin("read", n) \/ Begin("queue_read", n)
  \/ DecodeFrame \/ ReadFailed \/ ReadReturn
  \/ FetchFrame \/ QueueReadReturn
  \/ Reset

Spec == Init /\ [][Next]_vars

-----------------------------------------------------------------------------
Status == {"OK", "MESSAGE_READY", "MESSAGE_NOT_READY",
           "INVALID_ARGUMENT", "INVALID_PORT", "INVALID_FRAME"}

Ring == {s \in Bytes : Len(s) <= RingCapacity}

TypeOK ==
  /\ is_initialized \in BOOLEAN
  /\ port \in [tx_queue : Ring, tx_fifo : Ring, rx_pending : Ring, rx_fifo : Ring, rx_queue : Ring]
  /\ call \in [op : {"none", "read", "queue_read", "transfer_frames"}, length : Nat, data : Bytes]
  /\ Len(call.data) <= call.length
  /\ ret \in [status : Status, count : Nat]
  /\ tx \in [written : Bytes, fetched : Bytes, took : Bytes, collected : Bytes,
             raw : BOOLEAN, torn : BOOLEAN]
  /\ rx \in [offered : Bytes, taken : Bytes, delivered : Bytes, raw : BOOLEAN, truncated : BOOLEAN]

(* Every byte of an accepted write is in tx_queue, in tx_fifo or was taken *)
(* by queue_read, in order, however polls and frame transfers take turns,  *)
(* as long as no transfer begins in the middle of a frame and no raw bytes *)
(* are mixed in: a poll that finds tx_fifo nearly full, a partial frame    *)
(* left by a poll and a transfer refused for lack of room lose nothing.    *)
TxKept ==
  ~tx.raw /\ ~tx.torn => tx.fetched \o port.tx_fifo \o port.tx_queue = tx.written

(* The same for what the peer sent, from receive to the decoder.           *)
RxKept ==
  ~rx.raw => rx.taken \o port.rx_fifo \o port.rx_pending = rx.offered

(* An rx_fifo that is full without holding two delimiters.                 *)
Wedged == Len(port.rx_fifo) = RingCapacity /\ ~HasCompleteFrame(port.rx_fifo)

(* Such a port never receives again: polls cannot add a byte and reads do  *)
(* not remove one.  Only a reset ends it.                                  *)
WedgedForGood == [][Wedged => Wedged' \/ port' = EmptyPort]_vars
=============================================================================
