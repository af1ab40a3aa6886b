SPECIFICATION FairSpec
CONSTANTS
  Buffers = {b1, b2}
  MaxProducer = 1
  Consumers = {recorder}
  Jpeg = jpeg
  Prompt = TRUE
  Failures = {"acquire", "request", "render"}
  MaxStarts = 2
  NoBuffer = NoBuffer
CHECK_DEADLOCK FALSE
PROPERTIES
  StopReturns
  FramesFlow
