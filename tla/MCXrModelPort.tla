--------------------------- MODULE MCXrModelPort ---------------------------
(***************************************************************************)
(* XrModelPort on a small instance, and the properties that speak of whole *)
(* messages.                                                               *)
(***************************************************************************)
EXTENDS XrModelPort, FrameStream

(* What reads deliver depends on the bytes alone, not on how receives,     *)
(* injections, polls and failing reads cut them up: the payloads between   *)
(* the first and second delimiter, the third and fourth, and so on.  A     *)
(* stray delimiter therefore shifts every later frame of the stream, and   *)
(* the payloads of messages sent after it are lost for good.               *)
DeliveredByPhase ==
  ~rx.truncated /\ ~Overlong(rx.taken \o port.rx_fifo) =>
     /\ AtBoundary(rx.taken)
     /\ rx.delivered \o port.rx_queue = PairedData(rx.taken)

(* g is frame f without some of the bytes before its closing delimiter.    *)
CutShort(g, f) == \E m \in 1..(Len(f) - 1) : g = Append(Prefix(f, m), Delimiter)

(* A transfer that begins inside a frame, because a poll had moved the     *)
(* first bytes of it, loses bytes of an accepted write and says nothing.   *)
(* It never loses more than the rest of that frame: every other frame      *)
(* stays whole, and nothing but frames is on its way, so that no later     *)
(* message is cut between the wrong delimiters.                            *)
TearsStayLocal ==
  LET all == tx.fetched \o port.tx_fifo \o port.tx_queue
  IN  ~tx.raw =>
        /\ OnlyFrames(all) /\ Pairs(all) = Pairs(tx.written)
        /\ \A i \in Pairs(all) : CutShort(FrameAt(all, i), FrameAt(tx.written, i))

(* q ends in a frame whose payload is the first one with no room left.     *)
LastDoesNotFit(q, room) ==
  \E n \in 0..Len(q) : /\ Cardinality(Delimiters(Suffix(q, n))) = 2
                       /\ Len(PairedData(Prefix(q, n))) < room
                       /\ Len(PairedData(q)) > room

(* A queue_read takes whole frames, and what becomes of their payloads     *)
(* depends on its buffer only.  They all fit, and it returns all of them   *)
(* and stops no earlier than it must; or the last one does not fit, and    *)
(* the error costs the caller that one and every message before it in the  *)
(* same call.  No call touches what another one returns, and any other     *)
(* error comes from a frame that a transfer has torn.                      *)
QueueReadAccounts ==
  [][call.op = "queue_read" /\ call'.op = "none" /\ ~tx.raw =>
       LET data == PairedData(tx'.took)
       IN  /\ AtBoundary(tx'.took)
           /\ \/ /\ ret' = [status |-> "OK", count |-> Len(data)]
                 /\ tx'.collected = tx.collected \o data
                 /\ Len(data) <= call.length
                 /\ Len(data) = call.length \/ ~HasCompleteFrame(port'.tx_fifo)
              \/ /\ ret'.status = "INVALID_ARGUMENT"
                 /\ tx'.collected = tx.collected
                 /\ LastDoesNotFit(tx'.took, call.length)
              \/ /\ ret'.status = "INVALID_FRAME" /\ tx.torn
                 /\ tx'.collected = tx.collected
                 /\ Len(data) < call.length]_vars

(* On undamaged streams the two ways of recognising a message agree:       *)
(* fifo_level and queue_size count exactly the messages for which a poll   *)
(* says MESSAGE_READY and which a read or queue_read will take.            *)
CountersAgree ==
  /\ ~rx.raw => FrameCount(port.rx_fifo) = Cardinality(Pairs(port.rx_fifo))
  /\ ~tx.raw /\ ~tx.torn =>
       FrameCount(port.tx_fifo) = Cardinality(Pairs(port.tx_fifo))

-----------------------------------------------------------------------------
MCPayloads == {<<17>>, <<126, 18>>, <<>>}
MCRaw == {<<17, 126>>, <<17, 18, 19, 20, 21, 22>>}
MCLengths == {1, 2}
=============================================================================
