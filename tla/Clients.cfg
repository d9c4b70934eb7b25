CONSTANTS
  MAX_CLIENTS = 3
  SCREEN_WIDTH = 2
  SCREEN_HEIGHT = 1
  MaxMessages = 3
  RING_SIZE = 4
  PacketSize = 3
  MAX_BUFSIZE = 4
  MaxLines = 2
  BadLines = {2, 3}
SPECIFICATION Spec
INVARIANTS ShownAreThePlayers KeptWhileHealthy
PROPERTIES ClientKeepsUp LinesAreDrawn
CHECK_DEADLOCK FALSE
