CONSTANTS
  PortIndices <- MCPorts
  Configs <- MCConfigs
  PowerUp <- MCPowerUp
  Positions <- MCPositions
SPECIFICATION Spec
INVARIANTS
  TypeOK
  LinesAsCommanded
  ConfigAsAccepted
