# Formal models of the XR17V358 serial driver

TLA+ modules, TLC configurations and TLAPS proofs for the driver in `src/`: an
eight-port UART driver in C that packs payloads into `0x7E`-delimited,
byte-stuffed frames, keeps them in byte rings, and moves them to and from the
FIFOs of an XR17V358. All paths below are relative to the repository
(`src/xr17v358.c` is the driver's main file).

Run everything from this directory: `tlc -config <cfg> <module>.tla` for a model
check, `tlapm <module>.tla` for the proofs.

## The system

The driver is sequential C: no threads, no interrupts, no locks. One call runs at
a time and never blocks. What runs at the same time is the hardware: between any
two register accesses of a call the UART shifts bytes out of its TX FIFO and
receives bytes into its RX FIFO. Ports share no state except one flag,
`is_initialized`, and the device's address space. The data path is therefore
modelled for one port, the control side (where addresses matter) for all eight.

| Component | State | Operations | Correct means |
|---|---|---|---|
| Byte ring (`ring_buffer.c`) | `storage`, `head`, `tail`, `size`, `capacity` | reset, write bytes, read bytes | a bounded FIFO queue through every wrap-around; a short transfer moves exactly the prefix it reports |
| Frame scanners (`ring_buffer.c`) | none (work on a ring) | `frame_count`, `has_complete_frame`, `read_frame`, `transfer_frame(s)` | frames are cut at the right byte, noise before a frame is dropped |
| Encoder, decoder (`xr17v358.c`) | none | `encode_serial_data`, `decode_serial_data` | lossless, self-delimiting, never longer than the buffers |
| Hardware data path (`xr17v358.c`) | `tx_queue`, `rx_fifo`, `rx_queue` of a port | `write_hw`, `read_hw`, `poll_hw_port`, over `write_tx_fifo`, `read_rx_fifo` | the line carries exactly what was reported as written; what was received is delivered in order; nothing waits for ever |
| Modelled data path (`xr17v358.c`) | `tx_queue`, `tx_fifo`, `rx_pending`, `rx_fifo`, `rx_queue` | `write`, `read`, `poll_port` | the same without a UART |
| Test helpers (`hw_test_helpers.c`) | the rings above | `receive`, `inject_*`, `transfer_next_tx_frame`, `queue_read`, `reset`, counters | stand in for the peer without corrupting the path under test |
| Lifecycle (`xr17v358.c`) | `is_initialized`, `port_config` | lazy initialisation, `initialize_port`, `get_port_config`, `reset_state` | the first call initialises, no later call wipes data or configurations; only supported configurations are stored |
| Modem lines (`xr17v358.c`) | the UART's MCR register | `set_discrete`, `set_loopback` | each changes its own bit of its own port only |
| Addresses (`xr17v358.c`, `xr17v358_register_map.h`) | none | register and FIFO window addresses | no window and no register reaches another one |
| Hardware abstraction (`hw_abstraction.c`) | none | `abaco_hw_*` | forwards to the driver; converts status codes and configurations |
| UART and peer | TX and RX FIFO, level registers, MCR, line | external | modelled from how the driver uses them |

Interactions: the application calls `abaco_hw_*`, which call the hardware path.
`write_hw` encodes, queues the frame in `tx_queue` whole or not at all, and
flushes as much of `tx_queue` as TXLVL allows. `poll_hw_port` flushes, stages
received bytes into `rx_fifo` and says whether a complete frame is there.
`read_hw` stages too, then decodes frames from `rx_fifo` into `rx_queue` and
copies payload bytes out. Every call of the data path may be the first and
initialises lazily. `set_discrete` and `set_loopback` touch MCR only, with a read
and a write. The modelled path (`write`, `read`, `poll_port`) has byte rings where
the other one has the UART, and the test helpers work on the same rings: polls
move bytes between them, helpers move frames.

What is hard here: level registers are read before the bytes move, RXLVL even
twice; a flush or a staging stops anywhere, in the middle of a frame or of an
escape pair, and goes on in a later call; rings wrap and fill up exactly; the RX
FIFO overruns without notice; a call can fail after it has already taken bytes;
the two scanners disagree about what a frame is when delimiters are adjacent.
`PROJECT.json` lists these hazards line by line.

## Modules

| Module | What it is |
|---|---|
| `BoundedFifo` | abstract specification of a byte buffer: Put the prefix that fits, Take the oldest, Clear |
| `ByteRing` | the circular storage of `ring_buffer.c`; refines `BoundedFifo` with `q <- Contents` |
| `SerialFrame` | the message format: encoder, decoder, scanners, as operators without recursion |
| `SerialLoops` | the C loops of encoder, decoder and scanners as a state machine that reads a byte per step; shown to compute what `SerialFrame` says |
| `XrHwPort` | one port's hardware path with the UART and the peer; uses `SerialFrame` |
| `XrModelPort` | one port's modelled path with every test helper; uses `SerialFrame` |
| `FrameStream` | what a stream of bytes means, stated over the whole stream: the reference for what the driver makes of it in pieces |
| `BytePipe` | abstract specification of an undisturbed byte stream from one end to the other |
| `XrLoopback` | `XrHwPort` with the UART's loopback switch: its two halves composed; implements `BytePipe` |
| `PortMap` | offsets and addresses of ports, registers and FIFO windows |
| `XrControl` | configuration, modem lines and the conversions of `hw_abstraction.c`, all eight ports, registers by address; uses `PortMap` |
| `MCByteRing`, `MCSerialFrame`, `MCXrHwPort`, `MCXrModelPort`, `MCXrLoopback`, `MCXrControl` | instances for TLC; `MCSerialFrame` also says what encoder, decoder and scanners owe each other, `MCXrHwPort` and `MCXrModelPort` hold the properties about whole messages |
| `ByteRingProofs`, `SerialFrameProofs`, `FrameStreamProofs`, `MCSerialFrameProofs`, `XrHwPortProofs`, `XrLoopbackProofs`, `XrModelPortProofs`, `XrControlProofs` | theorems and proofs |

**ByteRing.** One action per function. The C loops move a byte per iteration; an
action is the whole call, and says where each byte of it ends up. `moved` is what
the last call moved; its length is the function's result. `capacity` is a
constant: `reset_state` gives each ring the same one every time. TLC and TLAPS
both show `Spec => Fifo!Spec`, which is why the other modules use plain
sequences for rings.

**SerialFrame.** `Encode`, `Decode`, `FrameCount`, `HasCompleteFrame` and
`ReadFrame` say what the functions return, by positions and cardinalities rather
than by a loop, so that they can be reasoned about and used as one step of a call.

**SerialLoops.** The loops themselves. A string `line` grows by one byte per step,
and each loop does its iteration for that byte, so that its variables are always
those it has after reading the string so far: `encoder` is the frame under
construction and the counted length, `counter`, `detector` and `reader` are the
locals of `ring_frame_count`, `ring_has_complete_frame` and `ring_read_frame`.
`decoder` lags one byte behind, because the C loop leaves out the last byte of a
frame; it takes an escape and its byte in two steps where the C code takes them in
one iteration. `decoder` and `reader` hold one loop per size of the caller's
buffer. `LoopEncode`, `LoopDecode` and `LoopReadFrame` are what the functions return
if the string ends here, tests before and after the loops included.

**XrHwPort.** A step of a call is one register access and the computation up to
the next one; `pc` says where the call is and `op` which call it is. So
`write_hw` is `WriteAccepted` (or `WriteRefused`, `RejectCall`), `FlushLevel`
(TXLVL), `StoreWord` (repeated), `WriteReturn`; `poll_hw_port` is `PollHw`, the
same flush, `PollFlushed`, `StageLevel` (RXLVL), `RecheckLevel` (RXLVL again),
`LoadWord` (repeated), `StageDone`, `PollReturn`; `read_hw` is `ReadHw`, the same
staging, `DecodeFrame` (one per loop iteration), then `ReadFailed` or
`ReadReturn`. `ShiftOut`, `Arrive` and `PeerSend` are the UART and the other end;
they are enabled at every step of a call. The last group of variables
(`reported`, `sent`, `messages`, `inbound`, `taken`, `delivered`, `truncated`,
`announced`) is history that only the properties read.

**XrModelPort.** A call runs alone, so a call is one step, except that the loops
of `read`, `queue_read` and `ring_transfer_frames` take a step per frame (`call`
holds the call in progress); no property depends on where such a loop stands.
`port` holds the five rings. `Movable` is the clamp of `transfer_ring_bytes`,
`NextMessage` is `ring_read_frame` followed by the decoder, as both loops use it.
`inject_queue_bytes` fills `tx_fifo`, as in the code, not `tx_queue`.
`TransferFramesStep` stands for `ring_transfer_frames`, which has no caller in
`src/`, on the rings that `ring_transfer_frame` is used on.
The histories `tx` and `rx` say what went in, what was taken out (`tx.took`: by the
last `queue_read` alone), and which of the things happened that cost bytes: `tx.raw`
and `rx.raw` (a test put raw bytes into `tx_fifo` or `rx_fifo`), `tx.torn` (a transfer
began inside a frame that a poll had started to move), `rx.truncated` (a payload did
not fit into `rx_queue`). A failing `queue_read` needs no such mark: its property says
what the failure costs.

**XrControl.** `memory` maps register addresses to bytes. `set_discrete` and
`set_loopback` are `ReadMcr` and `WriteMcr`, two steps, and calls on different
ports may overlap between them, which is more than a sequential application does:
they share nothing in the driver. `StoreFifo` is a store of the data path (any
position of the window of any port; its value does not matter, so it is a zero
byte). `Touch` stands for the calls that only initialise. A status code becomes an integer and
an abstraction code (`ToAbaco`); `MESSAGE_NOT_READY` and `OK` are both 0.
Configurations cross the abstraction as unchecked integers.

**XrLoopback.** The actions are those of `XrHwPort`, rejected calls and refused
writes included; `Shift` replaces `ShiftOut` and `Arrive`, and there is no peer: what leaves the transmitter arrives at the receiver while `loopback`
is set. `echoes` are the payload bytes of writes accepted in loopback; `cut` says
that loopback was switched while bytes waited to be sent. The refinement maps the
pipe's input to `echoes`, its output to `delivered`, and its breaking to an
overrun, a truncated payload or such a switch.

Abstractions and assumptions:

- TXLVL is the free space of the TX FIFO, RXLVL the fill of the RX FIFO (this is
  how the driver uses them). They are 8-bit registers of a 256-byte FIFO, so they
  saturate: `LevelMax` is below `FifoCapacity` in every instance (255 and 256 on
  the chip), which makes the driver's clamp to 256 unreachable.
- The FIFO window is accessed in words, then single bytes; `WordSize` bytes move
  at once. The order of bytes inside a word is not modelled.
- Error branches that the check just before them rules out (a short
  `ring_write_bytes` after a size test, `bytes_written != bytes_to_write`) have
  no action, except the one in `StageDone`, which the proofs show is never taken.
- An unsuccessful call has result count 0; the C code leaves the caller's
  variable alone in some of these cases.
- Null pointers, bad ports and a null base are one action, `RejectCall`
  (`Answer` with an error in `XrModelPort`).

## Runs

| Run | Instance | Shows |
|---|---|---|
| `ByteRing` | 3 bytes of storage, bursts up to 4, 3 byte values | `TypeOK`, `Geometry`, `ImplementsFifo`: wrap-around, exactly full, short writes, resets in between |
| `SerialFrame` | `QUEUE_CAPACITY` 3, all strings up to 8 bytes over `7E 7D 5E 11` | `EncodeIsLoop`, `DecodeIsLoop`, `ScannersAreLoops`: the operators say what the C loops compute, for every buffer size; `RoundTrip`; `FrameBoundaries` |
| `PortTx` | FIFO 4, word 2, `tx_queue` 8, writes until 14 encoded bytes are reported | `TxConservation`, `TxLevelHolds`, `TypeOK` |
| `PortRx` | FIFO 3, word 2, `rx_fifo` 7, `rx_queue` 3, three messages | `RxConservation`, `RxLevelHolds`, `DeliveryIntegrity`, `ReadyIsHonest` |
| `PortTxLive` | as `PortTx`, 9 bytes | `TxDrained` |
| `PortRxLive` | payloads of 1 byte, plain or escaped, two messages | `RxDrained` |
| `PortWriteRetry` | an application that only writes | expected violation of `WritesDrain` |
| `PortReadSplice` | two-byte messages, `rx_queue` 3 | expected violation of `DeliveredIsStream` |
| `PortReady` | as `PortRx` | expected violation of `ReadyMeansMessage` |
| `ModelPort` | a plain payload of 1 byte, one of 2 with an escape, an empty one (`QUEUE_CAPACITY` 2), buffers of 1 and 2, rings of 8, polls of 2, noise of a delimiter behind a plain byte or of six plain bytes, 10 bytes of traffic | `TypeOK`, `TxKept`, `RxKept`, `DeliveredByPhase`, `TearsStayLocal`, `CountersAgree`, `WedgedForGood`, `QueueReadAccounts` |
| `Loopback` | 1-byte payloads, plain or escaped, FIFO 3, rings 5, 6 and 1 | `LoopIsPipe`, `LoopDrained` |
| `Control` | ports 0 and 1 and a bad one, four configurations, registers starting at 0 or 235 | `TypeOK`, `LinesAsCommanded`, `ConfigAsAccepted` |

What the runs of `XrModelPort` show about noise: `DeliveredByPhase` says that reads
return the payloads between the first and second delimiter, the third and fourth,
and so on, of everything that entered `rx_fifo`, however it was cut up. So after one
stray delimiter the messages that follow are cut between the wrong delimiters, and
nothing resynchronises. `WedgedForGood` says that a port whose `rx_fifo` is full
without two delimiters never receives again until it is reset. `CountersAgree` says
that the two scanners agree as long as there is no noise; `PortReady` shows what
happens when they do not.

What it shows about losses the code reports badly or not at all. A
`transfer_next_tx_frame` that comes after a poll has moved the first bytes of a frame
drops the rest of that frame and still returns `OK` (`src/hw_test_helpers.c:118`).
`TearsStayLocal` says how far this reaches: the frame it shortens stays closed, no
other frame changes, none disappears, and nothing is left lying between frames that
would shift the decoder, so that the frames on their way are those of the writes, some
of them shortened. `TxKept` says that without such a transfer nothing is lost at all. A
`queue_read` that fails drops the payloads it has already decoded
(`src/hw_test_helpers.c:165`). `QueueReadAccounts` says what that costs and when it
happens: a call that returns `OK` returns exactly the payloads of the frames it took
and stops only when its buffer is full or no frame is left; `INVALID_ARGUMENT` means
that the last frame it took has no room in what is left of the buffer, and costs all
frames of this call and no others; `INVALID_FRAME` happens only after a transfer has
torn a frame. In the run a `queue_read` with a buffer of 2 takes a one-byte message and
then a two-byte one and loses both; one with a buffer of 1 loses a two-byte message
whose front part would have fitted. Nothing is promised once a test has put raw bytes
into `tx_fifo`.

Bounds: `MaxTransfer` (length argument of a ring call), `MaxLine` (strings of
`SerialFrame`), `MaxReported` (no write starts once this many encoded bytes were
reported), `MaxMessages` (messages the peer sends), `MaxTraffic` (bytes written,
received and injected into a modelled port between two resets). They are large enough for
what matters to happen: a ring call longer than the ring and several laps around
it; strings with a frame, an overflow of the frame buffer and another frame; a
`tx_queue` that holds two frames, refuses a third, and is emptied in pieces that are
words and single bytes and end inside an escape pair; an RX FIFO that overruns, an
`rx_fifo` that fills before a frame is complete, an `rx_queue` too small for the next
payload; a modelled `tx_fifo` in which a poll left part of a frame, a transfer that
then cuts an escape pair so that the frame no longer decodes, an `rx_fifo` stuffed
with noise, a `queue_read` whose buffer is too small for its first frame, or for its
second one; a FIFO store between the two accesses of an MCR change. Register value 235
has RTS and most other bits up and loopback down, 0 has every bit down. Queue sizes on
the chip are larger, which is what the proofs are for: they hold for every value of
the constants.

The application's inputs include refused payloads (empty, too long), reads of
length 0, and calls in any order; no run restricts the interleaving with the UART.

### Fairness

- `CallsEnd`: weak fairness of the steps of a call. The driver has no wait loops.
- `UartRuns`: weak fairness of shifting out and receiving. This is hardware.
- `Serviced`: strong fairness of starting a poll and of starting a read of at
  least one byte. This is the application's service loop; strong because the
  guard (no other call is running) comes and goes. `PortWriteRetry` replaces it
  by strong fairness of writing: an application that writes and never polls.
- `LoopFairness`: the same three for `XrLoopback`; nothing makes the application
  write or switch loopback. `LoopDrained` needs all of them.

### What the expected violations say

- `PortWriteRetry`. `write_hw` returns before its flush when the new frame does not
  fit into `tx_queue` (`src/xr17v358.c:682`), while `include/xr17v358.h:215`
  says "Queue one payload packet and flush as much as possible into the hardware
  TX FIFO". Retrying the write therefore never makes room, even with an idle
  UART: the bytes already accepted stay queued until somebody polls.
- `PortReadSplice`. The decode loop asks whether `rx_queue` is not full, not
  whether the next payload fits (`src/xr17v358.c:98`); the frame is removed, the
  part of the payload that fits is queued, the rest is lost and the call fails with
  `INVALID_FRAME` (`src/xr17v358.c:112`). `include/xr17v358.h:239` promises that
  complete frames are decoded before payload bytes are copied, and the test
  `WriteAndReadGuardAgainstShortWritesWithCorruptedState` takes the short write
  for a sign of corrupted state. `DeliveryIntegrity` states what does hold: the
  reads return the payload stream as long as this has not happened (`truncated`).
- `PortReady`. `poll_hw_port` asks for two delimiters (`src/xr17v358.c:750`), while
  `include/xr17v358.h:274` promises a complete message. When the UART overruns, the
  end of one message can meet the start of a later one: two adjacent delimiters are
  announced as a message, and the read fails. `ReadyIsHonest` states what holds
  without an overrun: the next read finds the message.

## Proofs

All theorems are for every value of the constants that satisfies the named
assumptions: `RingAssumption`, `FrameAssumption`, `AlphabetAssumption`,
`PortAssumption`, `ModelAssumption`, `ControlAssumption`. They are range conditions,
and the code's constants meet them. The least obvious are two of `PortAssumption`:
`rx_queue` holds at least one byte (its storage is an array of a positive
compile-time size), and the peer's payloads are not empty and at most
`QUEUE_CAPACITY` long, which is what its encoder, the same code, accepts
(`src/xr17v358.c:351`). What an arbitrary or faulty peer does to a port is the
noise of `XrModelPort`, where nothing is assumed of the injected bytes.

**ByteRingProofs.** `RingTypeOK`, `RingGeometry`, `RingImplementsFifo`. `TypeOK`
and `Geometry` together are inductive: the tail is `size` steps after the head,
modulo the capacity. The refinement compares `Contents'` byte by byte with what
`Put` and `Take` say; the work is in `AdvanceTwice` (wrapping twice is wrapping
once) and `OffsetLemma` (which storage cell a written byte lands in).

**SerialFrameProofs.** `EncodeShape` (a frame has delimiters at its ends and
nowhere else, and fits the buffer), `EncodeFits` (a payload of legal length is
never refused by the encoder), `ReadFrameCuts` (reading a frame splits the ring's
content, whatever it is), `DecodeType` (the decoder never produces more than
`QUEUE_CAPACITY` bytes). `CountUpTo` and `NthExists` give the counting
arguments: the i-th of n positions exists.

**FrameStreamProofs.** `DecodeUndoesEncode` and `EncodeUndoesDecode`: on legal
payloads the decoder inverts the encoder, and it accepts nothing that the encoder
does not produce. Body positions and payload positions are matched by counting: the
i-th payload byte ends at position `BodyLength` of the first i bytes, and the
positions at which the decoder stores a value are exactly these. Where a fact holds
for every position, the proof takes the least position that fails and finds a
smaller one, because the library's induction rules cannot be instantiated here. The
lemmas about streams (what the reader takes from a boundary, what adding or removing
a frame does to `PairedData`) serve the two port modules.

**MCSerialFrameProofs.** `SerialEncodeIsLoop`, `SerialDecodeIsLoop` and
`SerialScannersAreLoops`: the loops compute what the operators say. `LoopsInv`
states, for each loop, what its variables mean in terms of the bytes read: the
encoder has the body, the decoder has the values up to the first byte that stops it
or the buffer's end, the counter knows how many bytes follow the last delimiter, the
reader is before, inside or behind the first frame. TLC checked it before the
proof. A specification whose `line` grows byte by byte reaches every byte string, so
these invariants are facts about every input of the C functions; this replaces the
induction over data that the prover lacks. `SerialRoundTrip` and
`SerialFrameBoundaries` follow from `FrameStreamProofs`.

**XrHwPortProofs.** `PortTypeOK`, `PortTxConservation`, `PortRxConservation`,
`PortTxLevelHolds`, `PortRxLevelHolds`, all from one inductive invariant
`PortInv == CallInv /\ TxInv /\ RxInv`. The conservation properties are not
inductive: a flush step drops bytes if the UART has no room, a staging step reads
garbage if the UART has too few bytes. `TxLevelHolds` and `RxLevelHolds` rule both
out, and they are preserved because the UART only makes room in its TX FIFO and
only adds to its RX FIFO while a call runs. `CallInv` adds that the local buffer
is empty outside a transfer, that a running call has initialised the state, and
that uninitialised rings are empty, so that the lazy initialisation is a no-op on
data (`KeptIsAll`). There is one lemma per action; `TxUntouched` and
`RxUntouched` cover the half an action does not move.

`PortDeliveryIntegrity` and `PortReadyIsHonest` are about messages. `DeliveryInv`
adds to `PortInv` that the line carries the frames of the messages and that the
decoder stands at the boundary behind the k-th of them (`Standing`). The decoder can
take a frame only when two delimiters are in `rx_fifo`; from a boundary on a clean
line this is exactly the next frame (`DecodeTakes`), and `DecodeUndoesEncode` says
what comes out of it. `AnnouncedHolds` says that, once a poll has announced a message,
there is a frame in `rx_fifo` or data in `rx_queue` until a read returns; it needs
`rx_queue` to hold at least a byte.

**XrLoopbackProofs.** `LoopImplementsPipe`: `LoopSpec` implements `BytePipe`, step by
step, and `LoopConserves`: the conservation properties of both halves survive being
connected. The messages written in loopback exist nowhere in the state as a list, so
`LoopInv` says that there is one (`\E ms : Carries(ms)`): the receiver's line and
what waits in the transmitter are together its frames, `echoes` its payloads, and the
decoder stands at one of its boundaries. A write extends the list, every other step
keeps it. Once the pipe is broken, any step is a step of the pipe. That the driver may
switch loopback between the bytes of a frame is why `cut` is among what breaks it.

**XrModelPortProofs.** `ModelTypeOK`, `ModelTxKept`, `ModelRxKept`,
`ModelWedgedForGood`, from `ModelInv`. `TxKept` is not inductive: a transfer drops
whatever precedes the first delimiter of `tx_queue`, and `ring_read_frame` drops
what it has read when no frame ends in time. `ModelInv` adds that everything
written is a sequence of whole frames (`WholeFrames`: a position with an even number
of delimiters before it holds an opening delimiter, and the closing one is within
reach of the frame buffer). A transfer that is not torn finds an even number of
delimiters behind it, so `tx_queue` starts with a whole frame (`CutAtBoundary`), and
`ring_can_accept_frame` guarantees the room for it. `WholeFramesAppend` keeps the
invariant when a write adds a frame, by `EncodeShape`. Polls are `MovedBytes`, twice.

`ModelTearsStayLocal` rests on a part of `ModelInv` (`TearsAreLocal`, over `Local`):
the frames that left or will leave `tx_queue` are those written, each whole or cut short
(`CutShort`), and nothing lies between them (`OnlyFrames`). A poll moves bytes and
leaves the concatenation alone (`Moved`), a write appends a frame (`LocalAppend`), and a
transfer inside a frame cuts bytes before that frame's closing delimiter (`LocalCut`,
`CutInside`, `TwoDelimiters`); cutting a frame again, when two transfers tear it, is
cutting it once (`CutAgain`). `Join` is concatenation under a name, for steps in which
the prover should not look into it.

`ModelDeliveredByPhase`, `ModelQueueReadAccounts` and `ModelCountersAgree` use two
more invariants. `RxStream`: without noise, what was offered to the receive side
consists of whole frames and the decoder stands at a boundary; with noise too, what
reads returned is `PairedData` of what was taken, until a frame is too long for the
frame buffer or a payload for `rx_queue`. `TxStream` says
of the transmit side without raw bytes, torn or not, that `queue_read` stands at a
boundary and that the call in progress has collected `PairedData` of what it took. That
it is never out of step is where `TearsStayLocal` is needed: a frame on its way is no
longer than the one written, so it fits the frame buffer (`NextFits`). `Fetched` adds
that every frame decodes unless it was torn (`Decodable`). A read cuts from the first delimiter to the second of what is left,
which at an even number of delimiters are the next two of the whole stream.
`CountersAgree` then holds because a ring that starts at a boundary of whole frames
has no closing delimiter right behind its opening one, so `FrameCount` is half its
delimiters (`CountersMatch`).

**XrControlProofs.** `RegistersApart` and `WindowsApart` are about the address
tables; from them a store or an MCR change reaches its own cell only.
`ControlLinesAsCommanded` needs that the value an MCR change has read is still
current when it is written back: nothing else writes that register, since no other
change of the same port is under way and no window reaches it.
`ControlConfigAsAccepted` and `ControlTypeOK` come from the same invariant.

Every invariant, action property and refinement that a passing run checks is also
proved. Only model-checked: the liveness properties `TxDrained`, `RxDrained` and
`LoopDrained`, since the prover has no fairness reasoning and no `ENABLED`. The three
expected violations are TLC's counterexamples.

## Not modelled

- `ghs_interface.c`: compiled only under GHSMULTI, startup and I/O stubs of a
  toolchain, no driver logic.
- Direct calls of the raw FIFO accessors (`write_tx_fifo`, `read_rx_fifo`) by an
  application, past the queues. The data path's own use of them is in `XrHwPort`.
- The order of bytes within a 32-bit FIFO word.
- The descriptions in `xr17v358_register_map.h`, the getters of constants, and most
  null-pointer checks: none of them touches state.
- Configuring the UART: `initialize_port` stores the configuration and has a TODO
  where the registers would be written.
- Reentrancy. The driver has no interrupt handler and no lock; two calls on the same
  port at the same time are outside what it supports.

## Plan

1. Proofs of bounds TLC cannot reach: that a read and a `queue_read` end (a variant
   for their loops), as an action property.
2. The receive side of the loopback and of the port with a peer that is not the
   driver's encoder, as an invariant like `DeliveredByPhase` for `XrHwPort`.
