CONSTANTS
  RadioCount = 2
  IoTimeout = 1
  StaleTimeout = 2
  LivenessInterval = 1
  MaxBackoff = 0
  Lead = 3
  LateLimit = 1
  QueueLimit = 2
  MaxInbox = 2
  MaxFaults = 1
SPECIFICATION FairSpec
PROPERTIES EventuallyConfigured CoordinatedStreams
