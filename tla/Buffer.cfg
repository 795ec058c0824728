SPECIFICATION Spec
CONSTANTS
  Buffers = {b1, b2}
  CR = CR
  LF = LF
  Byte = {CR, LF}
  Junk = CR
  LineSP <- CRLF
  Inputs <- SomeInputs
  MaxMemory = 4
SYMMETRY Handles
INVARIANT BufferInv
PROPERTY ImplementsByteQueue
