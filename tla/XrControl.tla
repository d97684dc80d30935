----------------------------- MODULE XrControl -----------------------------
(***************************************************************************)
(* The control side of the driver as the application sees it through       *)
(* hw_abstraction.c: configuring a port and switching its modem control    *)
(* lines.  MCR, which holds the lines, is read, changed and written back   *)
(* by two register accesses.  The calls that do so share no state of the   *)
(* driver, so calls on different ports may overlap here, and the data path *)
(* stores into the FIFO windows between the accesses.                      *)
(***************************************************************************)
EXTENDS PortMap

CONSTANTS
  PortIndices,   \* port numbers the application passes
  Configs,       \* abaco_hw_port_config values it passes
  PowerUp,       \* what the registers may hold when the driver starts
  Positions      \* positions in the FIFO window the data path stores to

ASSUME ControlAssumption ==
  /\ PortIndices \subseteq Nat
  /\ Configs \subseteq [baud_rate : Nat, stop_bits : Int, parity : Int]
  /\ PowerUp \subseteq 0..255
  /\ Positions \subseteq 0..(FifoSize - 1)

VARIABLES
  is_initialized, port_config,
  memory,      \* the registers, by address
  update,      \* by port, a change of MCR that has been read but not written
  ret,         \* status the last call returned to the application
  \* what happened so far
  powered,     \* what the registers held at the start
  commanded,   \* by port, the last command for each line
  accepted     \* by port, the last configuration that was accepted

vars == <<is_initialized, port_config, memory, update, ret, powered, commanded, accepted>>

-----------------------------------------------------------------------------
(* Status codes cross hw_abstraction.c as integers.                        *)
XrCode ==
  [MESSAGE_NOT_READY |-> 0, OK |-> 0, MESSAGE_READY |-> 1,
   INVALID_ARGUMENT |-> -1, INVALID_PORT |-> -2, INVALID_FRAME |-> -3]

AbacoCode ==
  [MESSAGE_READY |-> 1, OK |-> 0,
   INVALID_ARGUMENT |-> -1, INVALID_PORT |-> -2, INVALID_FRAME |-> -3]

ToAbaco(status) == CHOOSE s \in DOMAIN AbacoCode : AbacoCode[s] = XrCode[status]

(* So do the enumerations of a configuration, unchecked.                   *)
ToConfig(c) == [baud_rate |-> c.baud_rate, stop_bits |-> c.stop_bits, parity |-> c.parity]

StopBits == {1, 2}
Parity == {0, 1, 2}

(* Mutant: the enumerations are not looked at. *)
ValidBaud(c) == c.baud_rate # 0

ValidConfig(c) == c.baud_rate # 0 /\ c.stop_bits \in StopBits /\ c.parity \in Parity

DefaultConfig == [baud_rate |-> 115200, stop_bits |-> 1, parity |-> 0]

(* port_config before anything is called: static storage, all zero.        *)
ZeroConfig == [baud_rate |-> 0, stop_bits |-> 0, parity |-> 0]

-----------------------------------------------------------------------------
(* Bits of MCR.                                                            *)
RTS == 2
LOOPBACK == 16
Lines == {RTS, LOOPBACK}

BitUp(v, bit) == (v \div bit) % 2 = 1

(* Mutant: the bit is added whether it is up or not. *)
AddBit(v, bit, up) == IF up THEN v + bit ELSE v - bit

WithBit(v, bit, up) ==
  IF BitUp(v, bit) = up THEN v ELSE IF up THEN v + bit ELSE v - bit

Mcr(p) == RegisterAddress(p, "MCR")

Cells == {RegisterAddress(p, r) : p \in Port, r \in Registers}

Idle == [bit |-> 0, up |-> FALSE, value |-> 0]

Init ==
  /\ is_initialized = FALSE
  /\ port_config = [p \in Port |-> ZeroConfig]
  /\ \E v \in PowerUp : memory = [a \in Cells |-> v]
  /\ powered = memory
  /\ update = [p \in Port |-> Idle]
  /\ ret = "OK"
  /\ commanded = [p \in Port |-> <<>>]
  /\ accepted = [p \in Port |-> DefaultConfig]

-----------------------------------------------------------------------------
(* Configuration.                                                          *)

(* The configurations a call finds: the first call sets the default ones.  *)
Ready == IF is_initialized THEN port_config ELSE [p \in Port |-> DefaultConfig]

(* A call of the data path or a rejected one: all it does here is the lazy *)
(* initialisation.                                                         *)
Touch(status) ==
  /\ is_initialized' = TRUE
  /\ port_config' = Ready
  /\ ret' = ToAbaco(status)
  /\ UNCHANGED <<memory, update, powered, commanded, accepted>>

(* What xr17v358_get_port_config returns; as a step it is Touch("OK").     *)
GetPortConfig(p) == Ready[p]

(* The abstraction looks at the pointer before the driver is called.       *)
InitializeNull ==
  /\ ret' = "INVALID_ARGUMENT"
  /\ UNCHANGED <<is_initialized, port_config, memory, update, powered, commanded, accepted>>

InitializePort(p, c) ==
  \/ ~IsValidPort(p) /\ Touch("INVALID_PORT")
  \/ IsValidPort(p) /\ ~ValidConfig(ToConfig(c)) /\ Touch("INVALID_ARGUMENT")
  \/ /\ IsValidPort(p) /\ ValidConfig(ToConfig(c))
     /\ is_initialized' = TRUE
     /\ port_config' = [Ready EXCEPT ![p] = ToConfig(c)]
     /\ accepted' = [accepted EXCEPT ![p] = ToConfig(c)]
     /\ ret' = ToAbaco("OK")
     /\ UNCHANGED <<memory, update, powered, commanded>>

Reset ==
  /\ is_initialized' = TRUE
  /\ port_config' = [p \in Port |-> DefaultConfig]
  /\ accepted' = [p \in Port |-> DefaultConfig]
  /\ UNCHANGED <<memory, update, ret, powered, commanded>>

-----------------------------------------------------------------------------
(* Modem control lines.                                                    *)

RejectLine(p) ==
  /\ ~IsValidPort(p)
  /\ ret' = ToAbaco("INVALID_PORT")
  /\ UNCHANGED <<is_initialized, port_config, memory, update, powered, commanded, accepted>>

ReadMcr(p, bit, up) ==
  /\ IsValidPort(p) /\ update[p] = Idle
  /\ update' = [update EXCEPT ![p] = [bit |-> bit, up |-> up, value |-> memory[Mcr(p)]]]
  /\ UNCHANGED <<is_initialized, port_config, memory, ret, powered, commanded, accepted>>

(* The discrete output is active low.                                      *)
SetDiscrete(p, asserted) == ReadMcr(p, RTS, ~asserted)

SetLoopback(p, enabled) == ReadMcr(p, LOOPBACK, enabled)

WriteMcr(p) ==
  /\ update[p] # Idle
  /\ LET u == update[p]
     IN  /\ memory' = [memory EXCEPT ![Mcr(p)] = WithBit(u.value, u.bit, u.up)]
         /\ commanded' = [commanded EXCEPT ![p] =
                            [b \in DOMAIN @ \cup {u.bit} |-> IF b = u.bit THEN u.up ELSE @[b]]]
  /\ update' = [update EXCEPT ![p] = Idle]
  /\ ret' = ToAbaco("OK")
  /\ UNCHANGED <<is_initialized, port_config, powered, accepted>>

(* A store of the data path, a zero byte at position i of the window.      *)
StoreFifo(p, i) ==
  /\ IsValidPort(p)
  /\ memory' = [a \in Cells |-> IF a = FifoBase(p) + i THEN 0 ELSE memory[a]]
  /\ UNCHANGED <<is_initialized, port_config, update, ret, powered, commanded, accepted>>

-----------------------------------------------------------------------------
Next ==
  \/ \E status \in DOMAIN XrCode : Touch(status)
  \/ InitializeNull
  \/ \E p \in PortIndices :
       \/ \E c \in Configs : InitializePort(p, c)
       \/ RejectLine(p)
       \/ \E on \in BOOLEAN : SetDiscrete(p, on) \/ SetLoopback(p, on)
       \/ \E i \in Positions : StoreFifo(p, i)
  \/ Reset
  \/ \E p \in Port : WriteMcr(p)

Spec == Init /\ [][Next]_vars

-----------------------------------------------------------------------------
Byte == 0..255
Bits == {1, 2, 4, 8, 16, 32, 64, 128}
Config == [baud_rate : Nat, stop_bits : Int, parity : Int]
Supported == [baud_rate : Nat \ {0}, stop_bits : {1, 2}, parity : {0, 1, 2}]

TypeOK ==
  /\ is_initialized \in BOOLEAN
  /\ port_config \in [Port -> Config] /\ accepted \in [Port -> Config]
  /\ memory \in [Cells -> Byte] /\ powered \in [Cells -> Byte]
  /\ update \in [Port -> {Idle} \cup [bit : Lines, up : BOOLEAN, value : Byte]]
  /\ ret \in DOMAIN AbacoCode
  /\ commanded \in [Port -> UNION {[L -> BOOLEAN] : L \in SUBSET Lines}]

(* Whether a bit of MCR should be up: as commanded last, or as found.      *)
Expected(p, bit) ==
  IF bit \in DOMAIN commanded[p] THEN commanded[p][bit] ELSE BitUp(powered[Mcr(p)], bit)

(* set_discrete and set_loopback leave each other's bit, the other bits of *)
(* MCR, every other register and every other port alone, although they     *)
(* write back all of a register they read earlier and the data path stores *)
(* into the FIFO windows in between.                                       *)
LinesAsCommanded ==
  /\ \A p \in Port, bit \in Bits : BitUp(memory[Mcr(p)], bit) = Expected(p, bit)
  /\ \A a \in Cells \ {Mcr(p) : p \in Port} : memory[a] = powered[a]

(* The configuration get_port_config returns, from the first call on, is   *)
(* the one accepted last: it stays until another one is accepted for the   *)
(* same port or the state is reset.  A later call never finds the state    *)
(* uninitialised, and a rejected one changes nothing.  What is stored is a *)
(* configuration the UART supports, whatever integers came through the     *)
(* abstraction.                                                            *)
ConfigAsAccepted ==
  \A p \in Port : GetPortConfig(p) = accepted[p] /\ accepted[p] \in Supported
=============================================================================
