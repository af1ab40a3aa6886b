SPECIFICATION Spec
CONSTANTS
  Buffers = {b1, b2}
  MaxProducer = 1
  Consumers = {recorder, jpeg}
  Jpeg = jpeg
  Prompt = TRUE
  Failures = {}
  MaxStarts = 2
  NoBuffer = NoBuffer
SYMMETRY BufferSymmetry
CHECK_DEADLOCK FALSE
INVARIANTS
  RefExact
  NobodySkipped
  NeverUndercounts
  DriverOwnsAlone
  AssertHolds
