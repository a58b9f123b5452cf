\* Reads cut the stream anywhere; payloads may hold start frames.
SPECIFICATION StreamSpec
CONSTANTS
  Responses <- AllResponses
  Frames <- AllFrames
  Leftover <- NoRests
  Reads = "anywhere"
  ReadSize = 64
  MaxFrames = 2
INVARIANT AllCollected
