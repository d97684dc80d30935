----------------------------- MODULE XrLoopback -----------------------------
(***************************************************************************)
(* A port whose UART the application can put into internal loopback by     *)
(* xr17v358_set_loopback: what the transmitter shifts out then arrives at  *)
(* the receiver, so the two halves of XrHwPort meet.  Nothing is connected *)
(* to the line.                                                            *)
(***************************************************************************)
EXTENDS XrHwPort

VARIABLES
  loopback,  \* MCR's loopback bit
  \* what happened so far
  cut,       \* loopback was switched while bytes were waiting to be sent
  echoes     \* payload bytes of the writes accepted in loopback

switch == <<loopback, cut, echoes>>
loopVars == <<vars, switch>>

LoopInit == Init /\ loopback = FALSE /\ cut = FALSE /\ echoes = <<>>

(* The calls of XrHwPort do not look at MCR.                               *)
LoopWrite(p) ==
  /\ WriteAccepted(p)
  /\ echoes' = IF loopback THEN echoes \o p ELSE echoes
  /\ UNCHANGED <<loopback, cut>>

LoopReject(status) == RejectCall(status) /\ UNCHANGED switch
LoopRefuse(p) == WriteRefused(p) /\ UNCHANGED switch
LoopPoll == PollHw /\ UNCHANGED switch
LoopRead(n) == ReadHw(n) /\ UNCHANGED switch
LoopCallStep == CallStep /\ UNCHANGED switch

(* The driver does not wait for the transmitter to run empty.              *)
SetLoopback(enabled) ==
  /\ pc = "idle"
  /\ loopback' = enabled
  /\ cut' = (cut \/ (loopback # enabled /\ tx_queue \o tx_chip # <<>>))
  /\ UNCHANGED <<vars, echoes>>

(* The next byte leaves the transmitter; in loopback it is received.       *)
Shift ==
  /\ tx_chip # <<>>
  /\ tx_chip' = Tail(tx_chip)
  /\ sent' = Append(sent, Head(tx_chip))
  /\ IF loopback
     THEN /\ inbound' = Append(inbound, Head(tx_chip))
          /\ arrived' = arrived + 1
          /\ IF Len(rx_chip) < FifoCapacity
             THEN rx_chip' = Append(rx_chip, Head(tx_chip)) /\ UNCHANGED overrun
             ELSE overrun' = TRUE /\ UNCHANGED rx_chip
     ELSE UNCHANGED <<rxChip, inbound>>
  /\ UNCHANGED <<is_initialized, tx_queue, reported, payload, rxVars, messages,
                 call, announced, switch>>

LoopNext ==
  \/ \E status \in {"INVALID_PORT", "INVALID_ARGUMENT"} : LoopReject(status)
  \/ \E p \in Payloads : LoopRefuse(p) \/ LoopWrite(p)
  \/ LoopPoll
  \/ \E n \in ReadLengths : LoopRead(n)
  \/ LoopCallStep
  \/ \E enabled \in BOOLEAN : SetLoopback(enabled)
  \/ Shift

(* As in XrHwPort: calls end, the UART runs, the application polls and     *)
(* reads again and again.  Nothing makes it write or switch.               *)
LoopFairness ==
  /\ WF_loopVars(LoopCallStep) /\ WF_loopVars(Shift)
  /\ SF_loopVars(LoopPoll)
  /\ SF_loopVars(\E n \in ReadLengths \ {0} : LoopRead(n))

LoopSpec == LoopInit /\ [][LoopNext]_loopVars /\ LoopFairness

-----------------------------------------------------------------------------
Pipe ==
  INSTANCE BytePipe WITH input <- echoes, output <- delivered,
                         broken <- overrun \/ truncated \/ cut

(* In loopback a port implements a byte stream from write to read: through *)
(* the four buffers, the framing, the partial flushes and the partial      *)
(* stagings, reads return the written payload bytes in order, as long as   *)
(* the receiver did not overrun, rx_queue had room and loopback was not    *)
(* switched under bytes that wait to be sent.                              *)
LoopIsPipe == Pipe!Spec

(* And everything written comes back if the application goes on polling    *)
(* and reading.                                                            *)
LoopDrained == []<>(overrun \/ truncated \/ cut \/ delivered = echoes)
=============================================================================
