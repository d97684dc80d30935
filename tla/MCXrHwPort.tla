----------------------------- MODULE MCXrHwPort -----------------------------
(***************************************************************************)
(* XrHwPort on small instances, and the properties that speak of whole     *)
(* messages.                                                               *)
(***************************************************************************)
EXTENDS XrHwPort, SequencesExt

(* The first k messages of the peer: on the line, and as payload bytes.    *)
FirstFrames(k) == FlattenSeq([i \in 1..k |-> Frame(messages[i])])
FirstData(k) == FlattenSeq(SubSeq(messages, 1, k))

(* On a line without overrun the decoder always stands at the boundary of  *)
(* two messages, and as long as rx_queue was never too small the reads     *)
(* return the payload bytes of the messages, complete and in order.        *)
DeliveryIntegrity ==
  ~overrun => \E k \in 0..Len(messages) :
                /\ taken = FirstFrames(k)
                /\ ~truncated => delivered \o rx_queue = FirstData(k)

(* MESSAGE_READY from poll_hw_port is honest: the next read that asks for  *)
(* bytes returns some, whatever writes and arrivals come between the two.  *)
ReadyIsHonest ==
  [][(/\ op = "read" /\ pc = "staged" /\ pc' = "idle"
      /\ announced /\ length > 0
      /\ ~overrun /\ ~truncated')
     => ret'.status = "OK" /\ ret'.count > 0]_vars

(* Every message that reached the UART undamaged ends up at the            *)
(* application: a frame that arrives in pieces, over many polls and reads, *)
(* is still delivered.                                                     *)
RxDrained == []<>(overrun \/ truncated \/ delivered = FirstData(Len(messages)))

(* What xr17v358.h says of a read: complete frames are decoded into the    *)
(* read queue before payload bytes are copied out.  So, as long as the     *)
(* UART loses nothing, the application sees the peer's payload bytes.      *)
DeliveredIsStream ==
  ~overrun => IsPrefix(delivered \o rx_queue, FirstData(Len(messages)))

(* What xr17v358.h says of a poll: MESSAGE_READY when a complete RX        *)
(* message is available.  So there is one, by the count fifo_level goes by *)
(* ("complete RX messages buffered for the port").                         *)
ReadyMeansMessage ==
  pc = "idle" /\ ret.status = "MESSAGE_READY" => FrameCount(rx_fifo) > 0

(* What xr17v358.h says of a write: it queues one packet and flushes as    *)
(* much as possible into the hardware TX FIFO.  So an application that     *)
(* goes on writing gets its queued bytes on the line.                      *)
WritesDrain == TxDrained

-----------------------------------------------------------------------------
(* Instances.                                                              *)

MCNone == {}

(* A plain byte, an escaped one, and the payloads a write refuses.         *)
MCTxPayloads == {<<17>>, <<126, 18>>, <<>>, <<17, 17, 17>>}
MCOneByte == {<<17>>}
MCStuffed == {<<126>>}
MCTwoBytes == {<<17, 18>>}
MCPeerPayloads == {<<17>>, <<126, 18>>}
MCPeerBytes == {<<17>>, <<125>>}

MCRead0or2 == {0, 2}
MCRead1 == {1}
=============================================================================
