\* Palettes of up to 16 ids (one to four bits per block), with ids on both sides of
\* every length of a VarInt, in three words of the widest index; payloads of one to
\* six datagrams.
SPECIFICATION Spec
CONSTANTS
  Cells = 12
  WordBits = 16
  RuntimeId = {0, 1, 2, 127, 128, 16383, 16384, 2097151, 2097152, 268435456}
  Touched = {3, 11}
  Places <- SomePlaces
  Guid <- SomeGuid
  Motd <- SomeMotd
  Online = TRUE
  MinMtu = 40
  MaxMtu = 576
  Probes = {20, 54, 600}
  FirstNumber = 65533
CHECK_DEADLOCK FALSE
INVARIANTS
  HandshakeAgrees
  ColumnReadBack
  PayloadCarried
  AcksNameTheRest
