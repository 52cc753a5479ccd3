CONSTANTS
  Conns = {k1}
  Fds = {1}
  NoConn = NoConn
SPECIFICATION FairSpec
PROPERTY TimeoutEndsHandshake
