\* Three clients, a limit of two, five datagrams and then silence.
SPECIFICATION FairSpec
CONSTANTS
  Addr = {a1, a2, a3}
  MaxConnections = 2
  MaxArrivals = 5
INVARIANTS
  TypeOK
  ConnectionAccounting
  ConnectedBeforeGamePacket
  AtMostOneLate
PROPERTIES
  EveryConnectionEnds
