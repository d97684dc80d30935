---------------------------- MODULE MCXrControl ----------------------------
(***************************************************************************)
(* XrControl on two ports, next to each other, and a number that is no     *)
(* port.                                                                   *)
(***************************************************************************)
EXTENDS XrControl

MCPorts == {0, 1, 8}

(* One configuration the UART has, one without a baud rate, and two with   *)
(* integers that are no enumeration constants.                             *)
MCConfigs ==
  {[baud_rate |-> 9600, stop_bits |-> 2, parity |-> 1],
   [baud_rate |-> 0, stop_bits |-> 1, parity |-> 0],
   [baud_rate |-> 9600, stop_bits |-> 3, parity |-> 0],
   [baud_rate |-> 9600, stop_bits |-> 1, parity |-> -1]}

MCPowerUp == {0, 235}

(* The first bytes of the window, where MCR would be, and its last byte.   *)
MCPositions == {0, 4, 255}
=============================================================================
