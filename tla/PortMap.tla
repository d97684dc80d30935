------------------------------ MODULE PortMap ------------------------------
(***************************************************************************)
(* Where the registers of the XR17V358 are: the address arithmetic of      *)
(* xr17v358.c over the tables of xr17v358_register_map.h.                  *)
(***************************************************************************)
EXTENDS Integers, Sequences

DeviceBase == 268435456   \* XR17V358_DEVICE_BASE_ADDRESS, 0x10000000
PortStride == 1024        \* XR17V358_PORT_STRIDE
FifoRegister == 256       \* XR17V358_FIFO_REGISTER_OFFSET
FifoSize == 256           \* XR17V358_FIFO_CAPACITY

k_port_offsets == <<0, 1024, 2048, 3072, 4096, 5120, 6144, 7168>>

PortCount == Len(k_port_offsets)
Port == 0..(PortCount - 1)
IsValidPort(p) == p \in Port
PortOffset(p) == k_port_offsets[p + 1]

(* The byte registers of a port, by their names in                         *)
(* xr17v358_uart_register_map, one for each offset.                        *)
RegisterOffset ==
  [RHR |-> 0, IER |-> 1, ISR |-> 2, LCR |-> 3, MCR |-> 4, LSR |-> 5, MSR |-> 6, SPR |-> 7,
   TXLVL |-> 8, RXLVL |-> 9, IODIR |-> 10, IOSTATE |-> 11, IOINTENA |-> 12, IOCONTROL |-> 14,
   EFCR |-> 15, XON1 |-> 16, XON2 |-> 17, XOFF1 |-> 18, XOFF2 |-> 19]
Registers == DOMAIN RegisterOffset

RegisterAddress(p, r) == DeviceBase + PortOffset(p) + RegisterOffset[r]

UartBase(p) == DeviceBase + PortOffset(p)

(* Mutant: the window is taken to start at the port's base. *)
FifoAtPortBase(p) == UartBase(p)

FifoBase(p) == DeviceBase + PortOffset(p) + FifoRegister
=============================================================================
