\* Two writes, an outage and a failure, from any choice of channels; the bounds end it.
SPECIFICATION Spec
CONSTANTS
  Port = port
  Poll = poll
  Order <- MCOrder
  Bases <- MCBases
  MaxWrites = 2
  MaxOutages = 1
  MaxFailures = 1
INVARIANTS
  TypeOK
  BasesFit
  AppliedOrKept
CHECK_DEADLOCK FALSE
