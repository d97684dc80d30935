-------------------------- MODULE XrControlProofs --------------------------
(***************************************************************************)
(* Proofs about PortMap and XrControl.                                     *)
(***************************************************************************)
EXTENDS XrControl, TLAPS

-----------------------------------------------------------------------------
(* Addresses.                                                              *)

(* The hand-written port offsets are the multiples of the stride.          *)
LEMMA PortOffsets == \A p \in Port : PortOffset(p) = p * PortStride
<1>1. Port = 0..7
  BY DEF Port, PortCount, k_port_offsets
<1> QED
  BY <1>1 DEF PortOffset, k_port_offsets, PortStride

(* Registers lie in the first 20 bytes of a port, each name in its own.    *)
LEMMA RegisterOffsets ==
  /\ \A r \in Registers : RegisterOffset[r] \in 0..19
  /\ \A r, s \in Registers : RegisterOffset[r] = RegisterOffset[s] => r = s
  /\ "MCR" \in Registers
BY DEF Registers, RegisterOffset

(* No two registers of the device share an address.                        *)
THEOREM RegistersApart ==
  \A p, q \in Port : \A r, s \in Registers :
     RegisterAddress(p, r) = RegisterAddress(q, s) => p = q /\ r = s
<1> SUFFICES ASSUME NEW p \in Port, NEW q \in Port, NEW r \in Registers, NEW s \in Registers,
                    RegisterAddress(p, r) = RegisterAddress(q, s)
             PROVE  p = q /\ r = s
  OBVIOUS
<1>1. p \in Int /\ q \in Int
  BY DEF Port, PortCount, k_port_offsets
<1>2. PortOffset(p) = p * 1024 /\ PortOffset(q) = q * 1024
  BY PortOffsets DEF PortStride
<1>3. RegisterOffset[r] \in 0..19 /\ RegisterOffset[s] \in 0..19
  BY RegisterOffsets
<1>4. p * 1024 + RegisterOffset[r] = q * 1024 + RegisterOffset[s]
  BY <1>1, <1>2, <1>3 DEF RegisterAddress, DeviceBase
<1>5. p = q
  BY <1>1, <1>3, <1>4
<1> QED
  BY <1>1, <1>3, <1>4, <1>5, RegisterOffsets

(* No FIFO window reaches a register, of its own port or of another one.   *)
THEOREM WindowsApart ==
  \A p \in Port, i \in 0..(FifoSize - 1) : FifoBase(p) + i \notin Cells
<1> SUFFICES ASSUME NEW p \in Port, NEW i \in 0..255, NEW q \in Port, NEW r \in Registers
             PROVE  FifoBase(p) + i # RegisterAddress(q, r)
  BY DEF Cells, FifoSize
<1>1. p \in Int /\ q \in Int
  BY DEF Port, PortCount, k_port_offsets
<1>2. PortOffset(p) = p * 1024 /\ PortOffset(q) = q * 1024
  BY PortOffsets DEF PortStride
<1>3. RegisterOffset[r] \in 0..19
  BY RegisterOffsets
<1>4. p * 1024 + 256 + i # q * 1024 + RegisterOffset[r]
  BY <1>1, <1>3
<1> QED
  BY <1>1, <1>2, <1>3, <1>4 DEF FifoBase, RegisterAddress, DeviceBase, FifoRegister

LEMMA McrCells ==
  /\ \A p \in Port : Mcr(p) \in Cells
  /\ \A p, q \in Port : Mcr(p) = Mcr(q) => p = q
BY RegisterOffsets, RegistersApart DEF Mcr, Cells

-----------------------------------------------------------------------------
(* Values.                                                                 *)

(* Changing a line changes its bit and no other bit.                       *)
LEMMA WithBitChanges ==
  ASSUME NEW v \in Byte, NEW bit \in Lines, NEW up \in BOOLEAN
  PROVE  /\ WithBit(v, bit, up) \in Byte
         /\ \A b \in Bits : BitUp(WithBit(v, bit, up), b) = IF b = bit THEN up ELSE BitUp(v, b)
<1>1. CASE bit = 2
  <2>1. CASE BitUp(v, 2) = up
    BY <1>1, <2>1 DEF WithBit
  <2>2. CASE BitUp(v, 2) # up /\ up
    <3>1. v \in 0..255 /\ WithBit(v, bit, up) = v + 2 /\ (v \div 2) % 2 = 0
      <4>1. ~BitUp(v, 2) /\ up = TRUE
        BY <2>2
      <4>2. WithBit(v, bit, up) = v + 2
        BY <1>1, <2>2, <4>1 DEF WithBit
      <4>3. v \in 0..255 /\ (v \div 2) % 2 # 1
        BY <4>1 DEF BitUp, Byte
      <4> QED
        BY <4>2, <4>3
    <3>2. v + 2 \in 0..255
      BY <3>1
    <3>3. \A k \in Bits \ {2} : ((v + 2) \div k) % 2 = (v \div k) % 2
      BY <3>1 DEF Bits
    <3>4. ((v + 2) \div 2) % 2 = 1
      BY <3>1
    <3> QED
      BY <1>1, <2>2, <3>1, <3>2, <3>3, <3>4 DEF Byte, BitUp, Bits
  <2>3. CASE BitUp(v, 2) # up /\ ~up
    BY <1>1, <2>3 DEF WithBit, BitUp, Byte, Bits
  <2> QED
    BY <2>1, <2>2, <2>3
<1>2. CASE bit = 16
  <2>1. CASE BitUp(v, 16) = up
    BY <1>2, <2>1 DEF WithBit
  <2>2. CASE BitUp(v, 16) # up /\ up
    <3>1. v \in 0..255 /\ WithBit(v, bit, up) = v + 16 /\ (v \div 16) % 2 = 0
      <4>1. ~BitUp(v, 16) /\ up = TRUE
        BY <2>2
      <4>2. WithBit(v, bit, up) = v + 16
        BY <1>2, <2>2, <4>1 DEF WithBit
      <4>3. v \in 0..255 /\ (v \div 16) % 2 # 1
        BY <4>1 DEF BitUp, Byte
      <4> QED
        BY <4>2, <4>3
    <3>2. v + 16 \in 0..255
      BY <3>1
    <3>3. \A k \in Bits \ {16} : ((v + 16) \div k) % 2 = (v \div k) % 2
      BY <3>1 DEF Bits
    <3>4. ((v + 16) \div 16) % 2 = 1
      BY <3>1
    <3> QED
      BY <1>2, <2>2, <3>1, <3>2, <3>3, <3>4 DEF Byte, BitUp, Bits
  <2>3. CASE BitUp(v, 16) # up /\ ~up
    BY <1>2, <2>3 DEF WithBit, BitUp, Byte, Bits
  <2> QED
    BY <2>1, <2>2, <2>3
<1> QED
  BY <1>1, <1>2 DEF Lines, RTS, LOOPBACK

(* Every status of the driver has a status of the abstraction.             *)
LEMMA ToAbacoType == \A s \in DOMAIN XrCode : ToAbaco(s) \in DOMAIN AbacoCode
<1> SUFFICES ASSUME NEW s \in DOMAIN XrCode
             PROVE  \E t \in DOMAIN AbacoCode : AbacoCode[t] = XrCode[s]
  BY DEF ToAbaco
<1>1. XrCode[s] \in {0, 1, -1, -2, -3}
  BY DEF XrCode
<1>2. /\ AbacoCode["OK"] = 0 /\ AbacoCode["MESSAGE_READY"] = 1
      /\ AbacoCode["INVALID_ARGUMENT"] = -1 /\ AbacoCode["INVALID_PORT"] = -2
      /\ AbacoCode["INVALID_FRAME"] = -3
  BY DEF AbacoCode
<1>3. {"OK", "MESSAGE_READY", "INVALID_ARGUMENT", "INVALID_PORT", "INVALID_FRAME"}
        \subseteq DOMAIN AbacoCode
  BY DEF AbacoCode
<1> QED
  BY <1>1, <1>2, <1>3

-----------------------------------------------------------------------------
(* The inductive invariant.                                                *)

(* A value of MCR that was read is not old when it is written back.        *)
Fresh == \A p \in Port : update[p] # Idle => update[p].value = memory[Mcr(p)]

(* Before the first call the stored configurations count for nothing.      *)
Accepted ==
  /\ accepted \in [Port -> Supported]
  /\ Ready = accepted

IInv == TypeOK /\ Fresh /\ LinesAsCommanded /\ Accepted

LEMMA DefaultSupported == DefaultConfig \in Supported
BY DEF DefaultConfig, Supported

LEMMA ControlInit == Init => IInv
<1> SUFFICES ASSUME Init PROVE IInv
  OBVIOUS
<1>1. PICK v \in 0..255 : memory = [a \in Cells |-> v]
  BY ControlAssumption DEF Init
<1>2. TypeOK
  <2>1. ZeroConfig \in Config /\ DefaultConfig \in Config /\ "OK" \in DOMAIN AbacoCode
    BY DEF ZeroConfig, DefaultConfig, Config, AbacoCode
  <2>2. << >> \in [{} -> BOOLEAN]
    OBVIOUS
  <2>3. << >> \in UNION {[L -> BOOLEAN] : L \in SUBSET Lines}
    BY <2>2
  <2> QED
    BY <1>1, <2>1, <2>3 DEF Init, TypeOK, Byte
<1>3. Fresh
  BY DEF Init, Fresh
<1>4. LinesAsCommanded
  BY DEF Init, LinesAsCommanded, Expected
<1>5. Accepted
  BY DefaultSupported DEF Init, Accepted, Ready
<1> QED
  BY <1>2, <1>3, <1>4, <1>5 DEF IInv

(* A step that leaves the registers and the commands alone.                *)
LEMMA QuietStep ==
  ASSUME IInv, TypeOK', Accepted', UNCHANGED <<memory, update, powered, commanded>>
  PROVE  IInv'
<1>1. Fresh'
  BY DEF IInv, Fresh
<1>2. LinesAsCommanded'
  BY DEF IInv, LinesAsCommanded, Expected
<1> QED
  BY <1>1, <1>2 DEF IInv

(* A step that leaves the configurations alone.                            *)
LEMMA LineStep ==
  ASSUME IInv, TypeOK', Fresh', LinesAsCommanded',
         UNCHANGED <<is_initialized, port_config, accepted>>
  PROVE  IInv'
BY DEF IInv, Accepted, Ready

LEMMA ReadyType == ASSUME IInv PROVE Ready \in [Port -> Config]
BY DEF IInv, Accepted, Supported, Config

LEMMA TouchStep == ASSUME IInv, NEW status \in DOMAIN XrCode, Touch(status) PROVE IInv'
<1>1. TypeOK'
  BY ReadyType, ToAbacoType DEF Touch, IInv, TypeOK
<1>2. Accepted'
  BY DEF Touch, IInv, Accepted, Ready
<1> QED
  BY <1>1, <1>2, QuietStep DEF Touch

LEMMA InitializePortStep ==
  ASSUME IInv, NEW p \in PortIndices, NEW c \in Configs, InitializePort(p, c)
  PROVE  IInv'
<1>1. CASE ~IsValidPort(p) /\ Touch("INVALID_PORT")
  BY <1>1, TouchStep DEF XrCode
<1>2. CASE IsValidPort(p) /\ ~ValidConfig(ToConfig(c)) /\ Touch("INVALID_ARGUMENT")
  BY <1>2, TouchStep DEF XrCode
<1>3. CASE /\ IsValidPort(p) /\ ValidConfig(ToConfig(c))
           /\ is_initialized' = TRUE
           /\ port_config' = [Ready EXCEPT ![p] = ToConfig(c)]
           /\ accepted' = [accepted EXCEPT ![p] = ToConfig(c)]
           /\ ret' = ToAbaco("OK")
           /\ UNCHANGED <<memory, update, powered, commanded>>
  <2>1. p \in Port
    BY <1>3 DEF IsValidPort
  <2>2. ToConfig(c) \in Config /\ ToConfig(c) \in Supported
    BY <1>3, ControlAssumption DEF ToConfig, ValidConfig, Config, Supported, StopBits, Parity
  <2>3. ToAbaco("OK") \in DOMAIN AbacoCode
    BY ToAbacoType DEF XrCode
  <2>4. TypeOK'
    BY <1>3, <2>1, <2>2, <2>3, ReadyType DEF IInv, TypeOK
  <2>5. Accepted'
    BY <1>3, <2>1, <2>2 DEF IInv, Accepted, Ready
  <2> QED
    BY <1>3, <2>4, <2>5, QuietStep
<1> QED
  BY <1>1, <1>2, <1>3 DEF InitializePort

LEMMA ResetStep == ASSUME IInv, Reset PROVE IInv'
<1>1. DefaultConfig \in Config
  BY DEF DefaultConfig, Config
<1>2. TypeOK'
  BY <1>1 DEF Reset, IInv, TypeOK
<1>3. Accepted'
  BY DefaultSupported DEF Reset, Accepted, Ready
<1> QED
  BY <1>2, <1>3, QuietStep DEF Reset

LEMMA ReadMcrStep ==
  ASSUME IInv, NEW p \in Port, NEW bit \in Lines, NEW up \in BOOLEAN, ReadMcr(p, bit, up)
  PROVE  IInv'
<1>1. memory[Mcr(p)] \in Byte
  BY McrCells DEF IInv, TypeOK
<1>2. TypeOK'
  BY <1>1 DEF ReadMcr, IInv, TypeOK
<1>3. Fresh'
  BY DEF ReadMcr, IInv, TypeOK, Fresh
<1>4. LinesAsCommanded'
  BY DEF ReadMcr, IInv, LinesAsCommanded, Expected
<1> QED
  BY <1>2, <1>3, <1>4, LineStep DEF ReadMcr

LEMMA StoreFifoStep ==
  ASSUME IInv, NEW p \in PortIndices, NEW i \in Positions, StoreFifo(p, i)
  PROVE  IInv'
<1>1. p \in Port /\ i \in 0..(FifoSize - 1)
  BY ControlAssumption DEF StoreFifo, IsValidPort
<1>2. \A a \in Cells : a # FifoBase(p) + i
  BY <1>1, WindowsApart
<1>3. memory' = [a \in Cells |-> memory[a]]
  BY <1>2 DEF StoreFifo
<1>4. memory' = memory
  BY <1>3 DEF IInv, TypeOK
<1>5. TypeOK'
  BY <1>4 DEF StoreFifo, IInv, TypeOK
<1>6. Accepted'
  BY DEF StoreFifo, IInv, Accepted, Ready
<1> QED
  BY <1>4, <1>5, <1>6, QuietStep DEF StoreFifo

LEMMA WriteMcrStep == ASSUME IInv, NEW p \in Port, WriteMcr(p) PROVE IInv'
<1> DEFINE u == update[p]
           value == WithBit(u.value, u.bit, u.up)
<1>1. /\ u \in [bit : Lines, up : BOOLEAN, value : Byte]
      /\ u.value = memory[Mcr(p)]
  BY DEF WriteMcr, IInv, TypeOK, Fresh
<1>2. u.bit \in Lines /\ u.up \in BOOLEAN /\ u.value \in Byte
  BY <1>1
<1>3. /\ value \in Byte
      /\ \A b \in Bits : BitUp(value, b) = IF b = u.bit THEN u.up ELSE BitUp(u.value, b)
  BY <1>2, WithBitChanges
<1>4. /\ memory' = [memory EXCEPT ![Mcr(p)] = value]
      /\ commanded' = [commanded EXCEPT ![p] =
                          [b \in DOMAIN commanded[p] \cup {u.bit} |->
                             IF b = u.bit THEN u.up ELSE commanded[p][b]]]
      /\ update' = [update EXCEPT ![p] = Idle]
      /\ ret' = ToAbaco("OK")
      /\ UNCHANGED <<is_initialized, port_config, powered, accepted>>
  BY DEF WriteMcr
<1> HIDE DEF u, value
<1>5. memory \in [Cells -> Byte] /\ Mcr(p) \in Cells
  BY McrCells DEF IInv, TypeOK
<1>6. PICK L \in SUBSET Lines : commanded[p] \in [L -> BOOLEAN]
  BY DEF IInv, TypeOK
<1>7. [b \in DOMAIN commanded[p] \cup {u.bit} |-> IF b = u.bit THEN u.up ELSE commanded[p][b]]
        \in UNION {[M -> BOOLEAN] : M \in SUBSET Lines}
  <2>1. [b \in L \cup {u.bit} |-> IF b = u.bit THEN u.up ELSE commanded[p][b]]
          \in [L \cup {u.bit} -> BOOLEAN]
    BY <1>2, <1>6
  <2>2. DOMAIN commanded[p] = L /\ L \cup {u.bit} \in SUBSET Lines
    BY <1>2, <1>6
  <2> QED
    BY <2>1, <2>2
<1>8. TypeOK'
  <2>1. ToAbaco("OK") \in DOMAIN AbacoCode
    BY ToAbacoType DEF XrCode
  <2>2. memory' \in [Cells -> Byte]
    BY <1>3, <1>4, <1>5
  <2>3. commanded' \in [Port -> UNION {[M -> BOOLEAN] : M \in SUBSET Lines}]
    BY <1>4, <1>7 DEF IInv, TypeOK
  <2>4. update' \in [Port -> {Idle} \cup [bit : Lines, up : BOOLEAN, value : Byte]]
    BY <1>4 DEF IInv, TypeOK
  <2> QED
    BY <1>4, <2>1, <2>2, <2>3, <2>4 DEF IInv, TypeOK
<1>9. \A q \in Port \ {p} : memory'[Mcr(q)] = memory[Mcr(q)] /\ commanded'[q] = commanded[q]
  BY <1>4, <1>5, McrCells DEF IInv, TypeOK
<1>10. Fresh'
  BY <1>4, <1>9 DEF IInv, TypeOK, Fresh
<1>11. memory'[Mcr(p)] = value
  BY <1>4, <1>5
<1>12. \A b \in Bits : BitUp(memory'[Mcr(p)], b) = Expected(p, b)'
  <2> SUFFICES ASSUME NEW b \in Bits PROVE BitUp(value, b) = Expected(p, b)'
    BY <1>11
  <2>1. /\ DOMAIN commanded'[p] = DOMAIN commanded[p] \cup {u.bit}
        /\ \A k \in DOMAIN commanded[p] \cup {u.bit} :
             commanded'[p][k] = IF k = u.bit THEN u.up ELSE commanded[p][k]
    BY <1>4 DEF IInv, TypeOK
  <2>2. BitUp(u.value, b) = Expected(p, b)
    BY <1>1 DEF IInv, LinesAsCommanded
  <2>3. CASE b = u.bit
    BY <1>3, <2>1, <2>3 DEF Expected
  <2>4. CASE b # u.bit
    <3>1. Expected(p, b)' = Expected(p, b)
      BY <1>4, <2>1, <2>4 DEF Expected
    <3> QED
      BY <1>3, <2>2, <2>4, <3>1
  <2> QED
    BY <2>3, <2>4
<1>13. \A q \in Port \ {p}, b \in Bits : BitUp(memory'[Mcr(q)], b) = Expected(q, b)'
  BY <1>4, <1>9 DEF IInv, LinesAsCommanded, Expected
<1>14. \A a \in Cells \ {Mcr(q) : q \in Port} : memory'[a] = powered'[a]
  BY <1>4, <1>5 DEF IInv, LinesAsCommanded
<1>15. LinesAsCommanded'
  BY <1>12, <1>13, <1>14 DEF LinesAsCommanded, Mcr
<1> QED
  BY <1>4, <1>8, <1>10, <1>15, LineStep

-----------------------------------------------------------------------------
LEMMA ControlStep == ASSUME IInv, [Next]_vars PROVE IInv'
<1>1. ASSUME NEW status \in DOMAIN XrCode, Touch(status) PROVE IInv'
  BY <1>1, TouchStep
<1>2. CASE InitializeNull
  <2>1. TypeOK'
    BY <1>2 DEF InitializeNull, IInv, TypeOK, AbacoCode
  <2>2. Accepted'
    BY <1>2 DEF InitializeNull, IInv, Accepted, Ready
  <2> QED
    BY <1>2, <2>1, <2>2, QuietStep DEF InitializeNull
<1>3. ASSUME NEW p \in PortIndices, NEW c \in Configs, InitializePort(p, c) PROVE IInv'
  BY <1>3, InitializePortStep
<1>4. ASSUME NEW p \in PortIndices, RejectLine(p) PROVE IInv'
  <2>1. ToAbaco("INVALID_PORT") \in DOMAIN AbacoCode
    BY ToAbacoType DEF XrCode
  <2>2. TypeOK'
    BY <1>4, <2>1 DEF RejectLine, IInv, TypeOK
  <2>3. Accepted'
    BY <1>4 DEF RejectLine, IInv, Accepted, Ready
  <2> QED
    BY <1>4, <2>2, <2>3, QuietStep DEF RejectLine
<1>5. ASSUME NEW p \in PortIndices, NEW on \in BOOLEAN, SetDiscrete(p, on) PROVE IInv'
  <2>1. p \in Port /\ RTS \in Lines /\ (~on) \in BOOLEAN
    BY <1>5 DEF SetDiscrete, ReadMcr, IsValidPort, Lines
  <2> QED
    BY <1>5, <2>1, ReadMcrStep DEF SetDiscrete
<1>6. ASSUME NEW p \in PortIndices, NEW on \in BOOLEAN, SetLoopback(p, on) PROVE IInv'
  <2>1. p \in Port /\ LOOPBACK \in Lines
    BY <1>6 DEF SetLoopback, ReadMcr, IsValidPort, Lines
  <2> QED
    BY <1>6, <2>1, ReadMcrStep DEF SetLoopback
<1>7. ASSUME NEW p \in PortIndices, NEW i \in Positions, StoreFifo(p, i) PROVE IInv'
  BY <1>7, StoreFifoStep
<1>8. CASE Reset
  BY <1>8, ResetStep
<1>9. ASSUME NEW p \in Port, WriteMcr(p) PROVE IInv'
  BY <1>9, WriteMcrStep
<1>10. CASE UNCHANGED vars
  <2>1. TypeOK' /\ Accepted'
    BY <1>10 DEF vars, IInv, TypeOK, Accepted, Ready
  <2> QED
    BY <1>10, <2>1, QuietStep DEF vars
<1> QED
  BY <1>1, <1>2, <1>3, <1>4, <1>5, <1>6, <1>7, <1>8, <1>9, <1>10 DEF Next

LEMMA ControlInvariant == Spec => []IInv
BY ControlInit, ControlStep, PTL DEF Spec

(* Registers and pending changes keep their types: no change of a line     *)
(* makes MCR anything but a byte.                                          *)
THEOREM ControlTypeOK == Spec => []TypeOK
<1>1. IInv => TypeOK
  BY DEF IInv
<1> QED
  BY <1>1, ControlInvariant, PTL

(* For every power-up content and every order of calls and stores, each    *)
(* bit of each MCR is as commanded last and no other register changes.     *)
THEOREM ControlLinesAsCommanded == Spec => []LinesAsCommanded
<1>1. IInv => LinesAsCommanded
  BY DEF IInv
<1> QED
  BY <1>1, ControlInvariant, PTL

(* For every set of configurations passed, get_port_config returns the one *)
(* accepted last, which the UART supports.                                 *)
THEOREM ControlConfigAsAccepted == Spec => []ConfigAsAccepted
<1>1. IInv => ConfigAsAccepted
  BY DEF IInv, Accepted, ConfigAsAccepted, GetPortConfig
<1> QED
  BY <1>1, ControlInvariant, PTL
=============================================================================
