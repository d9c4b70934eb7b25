CONSTANTS
  MaxSessions <- MCMaxSessions
  MaxPackets <- MCMaxPackets
  Capacity <- MCCapacity
  MaxHP <- MCMaxHP
  Damage1 <- MCDamage1
  Damage2 <- MCDamage2
SPECIFICATION Spec
INVARIANTS TypeOK NobodyIsLeftDying EveryPlayerIsIntroduced NothingBeforeCreation CutOnlyWhenLeaving
PROPERTY DisconnectedAreDeleted
CHECK_DEADLOCK FALSE
