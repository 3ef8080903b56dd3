CONSTANTS
  RadioCount = 2
  IoTimeout = 1
  StaleTimeout = 2
  LivenessInterval = 1
  MaxBackoff = 1
  Lead = 3
  LateLimit = 1
  QueueLimit = 2
  MaxInbox = 2
  MaxFaults = 2
SPECIFICATION Spec
INVARIANTS TypeOK ConfiguredLifetime BootTracking
PROPERTIES CoordinatedStart StreamingUndisturbed
