\* A reconnect between the removal of an entry and its Disconnected event.
SPECIFICATION Spec
CONSTANTS
  Addr = {a1, a2}
  MaxConnections = 2
  MaxArrivals = 3
SYMMETRY Symmetry
PROPERTIES
  DisconnectedIsTrue
