CONSTANTS
  ByteLimit = 8
  FrameSizes = {1, 2}
  MaxFrames = 4
SPECIFICATION Spec
INVARIANTS TypeOK WithinLimit CompletedIsFinal
PROPERTIES PublishedMonotone
