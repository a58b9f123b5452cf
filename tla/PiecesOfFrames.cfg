\* Frames come whole or in pieces; the port may begin in the middle of one.
SPECIFICATION FairStreamSpec
CONSTANTS
  Responses <- AllResponses
  Frames <- AllFrames
  Leftover <- FrameRests
  Reads = "within_frames"
  ReadSize = 64
  MaxFrames = 3
INVARIANT StreamTypeOK
INVARIANT AllCollected
INVARIANT DecodedAsSent
PROPERTY IsChannel
PROPERTY FramesComeOut
