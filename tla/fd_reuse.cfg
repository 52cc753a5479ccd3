CONSTANTS
  Conns = {k1, k2, k3}
  Fds = {1, 2}
  NoConn = NoConn
SYMMETRY ConnSymmetry
SPECIFICATION Spec
INVARIANTS TypeOK OwnsItsNumber NoneLeaked
