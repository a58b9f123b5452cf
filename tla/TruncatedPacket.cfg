\* Reads cut the stream anywhere; the port begins in the middle of a frame.
SPECIFICATION StreamSpec
CONSTANTS
  Responses <- PlainResponses
  Frames <- PlainFrames
  Leftover <- FrameRests
  Reads = "anywhere"
  ReadSize = 64
  MaxFrames = 2
INVARIANT PacketComplete
