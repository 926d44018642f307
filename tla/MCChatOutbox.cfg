SPECIFICATION Spec
CONSTANTS
  s1 = s1
  s2 = s2
  f1 = f1
  Sends <- MCSends
  Uploads <- MCUploads
  MaxWait = 2
  Spacing = 1
  RetryAfters <- MCRetries
  LastStart = 1
INVARIANTS OutboxOK
PROPERTIES EveryoneFinishes
