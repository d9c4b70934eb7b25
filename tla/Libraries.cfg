CONSTANTS
  Rounds = 2
  Nobody = Nobody
  MaxItems = 3
  Block = {b1, b2, b3}
  NoBlock = NoBlock
  InitNodeNum = 1
  Node = {n1, n2, n3}
  Data = {d1, d2}
  _head = Head
  _tail = Tail
  MaxListCalls = 6
  GRID_WIDTH = 2
  GRID_HEIGHT = 2
  NoNode = NoNode
  MaxEvents = 5
  dfRANGE_MOVE_LEFT = 2
  dfRANGE_MOVE_RIGHT = 8
  dfRANGE_MOVE_TOP = 2
  dfRANGE_MOVE_BOTTOM = 6
  FP_X = 3
  FP_Y = 2
  dfERROR_RANGE = 2
  Claims <- MCClaims
  Byte = {0, 1}
  Unset = Unset
  m_bufferSize = 4
  ValueSizes = {1, 2}
SPECIFICATION Spec
INVARIANTS SumIsExact BlocksAreNotShared ListIsASequence FindsAPath
PROPERTIES SignalsAreAnswered
CHECK_DEADLOCK FALSE
