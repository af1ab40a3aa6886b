SPECIFICATION Spec
CONSTANTS
  Buffers = {b1, b2, b3}
  MaxProducer = 2
  Consumers = {recorder}
  Jpeg = jpeg
  Prompt = FALSE
  Failures = {}
  MaxStarts = 2
  NoBuffer = NoBuffer
SYMMETRY BufferSymmetry
CHECK_DEADLOCK FALSE
INVARIANTS
  AssertHolds
