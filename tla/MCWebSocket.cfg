\* Two requests use a pair in each of the five ways, with two connections: a
\* proxied socket has both ends coupled, a response is returned twice.
CONSTANTS
  Contexts = {c1, c2}
  Messages = {m1, m2}
  Connections = {x, y}
  Network = Network
  None = None
SPECIFICATION Spec
CHECK_DEADLOCK FALSE
INVARIANTS
  InOrder
  OneOwner
PROPERTY
  HandshakeCompletes
