\* One client; as many losses as there are retries.
SPECIFICATION FairSpec
CONSTANTS
  MaxRetries = 2
  MaxPayloads = 1
  MaxParts = 2
  MaxFrames = 2
  MaxLosses = 2
  MaxClients = 1
PROPERTIES
  AllDelivered
  PendingDrains
