CONSTANTS
  b0 = b0
  b1 = b1
  Byte <- MCByte
  Size <- MCSize
  MaxRequest <- MCMaxRequest
SPECIFICATION Spec
INVARIANTS TypeOK SizesAgree DirectTransfersAreSafe
PROPERTY RefinesByteQueue
