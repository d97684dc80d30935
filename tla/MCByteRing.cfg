CONSTANTS
  Byte <- MCByte
  Capacity = 3
  MaxTransfer = 4
SPECIFICATION Spec
INVARIANTS
  TypeOK
  Geometry
PROPERTY
  ImplementsFifo
