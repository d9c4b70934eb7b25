CONSTANTS
  MaxSessions <- MCMaxSessions
  MaxPackets <- MCMaxPackets
  Capacity <- MCCapacity
  MaxHP <- MCMaxHP
  Damage1 <- MCDamage1
  Damage2 <- MCDamage2
SPECIFICATION Spec
PROPERTY DisconnectedAreAlwaysDeleted
CHECK_DEADLOCK FALSE
