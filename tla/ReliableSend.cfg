\* Two clients in turn at one address, two payloads of which one may be split,
\* against OrderedChannel.
SPECIFICATION Spec
CONSTANTS
  MaxRetries = 1
  MaxPayloads = 2
  MaxParts = 2
  MaxFrames = 3
  MaxLosses = 0
  MaxClients = 2
INVARIANTS
  TypeOK
PROPERTIES
  GivesUpOnlyAfterRetries
  DeliversInOrder
