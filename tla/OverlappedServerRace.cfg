CONSTANTS
  c0 = c0  c1 = c1  c2 = c2
  Listening = Listening
  NoSocket = NoSocket
  Client <- MCClient
  Plans <- MCPlans
  BUFSIZE <- MCBUFSIZE
  MaxSockets <- MCMaxSockets
  MaxEvents <- MCMaxEvents
  MaxSlots <- MCMaxSlots
SPECIFICATION Spec
INVARIANT OneOperationAtATime
CHECK_DEADLOCK FALSE
