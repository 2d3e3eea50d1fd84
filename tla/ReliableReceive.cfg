\* Two clients in turn at one address: two messages, split, packed or plain, the parts of
\* both in every order of arrival, one ACK lost.
SPECIFICATION FairSpec
CONSTANTS
  MaxMessages = 2
  MaxDatagrams = 4
  MaxParts = 2
  MaxAckLosses = 1
  MaxClients = 2
INVARIANTS
  TypeOK
  QueueIsReceived
  OnlyWholeMessages
  NoDuplicates
  HeardIsHanded
PROPERTIES
  RepeatedIsAcknowledged
