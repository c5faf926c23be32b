SPECIFICATION MessageSpec
CONSTANTS
  Conn = {c1, c2}
  Student = {s1, s2}
  NoConn = NoConn
  NoStudent = NoStudent
  Acks = {}
  MaxReopens = 1
  Everyone = Everyone
  Nobody = Nobody
  MaxMessages = 1
INVARIANT OnlyAddressee
SYMMETRY Symmetry
CHECK_DEADLOCK FALSE
