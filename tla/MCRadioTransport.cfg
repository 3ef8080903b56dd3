SPECIFICATION FairSpec
CONSTANTS
  GenerationLimit = 4
  StaleTimeout = 2
  DataSlots = 1
  ControlQueue = 2
  Submissions = {x1, x2}
  NoSubmission = NoSubmission
  FrameUnits = 2
  IoTimeout = 1
  MaxBacklog = 1
INVARIANTS
  TypeOK
  OwnershipAgrees
  CompletionAccounting
  OneConnectionPerFrame
PROPERTIES
  LivenessEvidence
  ImplementsOwnership
  EverySubmissionCompletes
