SPECIFICATION Spec
CONSTANTS
  GenerationLimit = 3
  StaleTimeout = 3
  DataSlots = 1
  ControlQueue = 2
  Submissions = {x1, x2}
  NoSubmission = NoSubmission
  FrameUnits = 2
  IoTimeout = 2
  MaxBacklog = 1
INVARIANT
  WholeFrames
