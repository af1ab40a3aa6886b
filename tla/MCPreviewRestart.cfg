SPECIFICATION Spec
CONSTANTS
  Buffers = {b1, b2, b3}
  MaxProducer = 2
  Consumers = {}
  Jpeg = jpeg
  Prompt = TRUE
  Failures = {}
  MaxStarts = 2
  NoBuffer = NoBuffer
SYMMETRY BufferSymmetry
CHECK_DEADLOCK FALSE
INVARIANTS
  DequeueFindsBuffer
