SPECIFICATION Spec
CONSTANTS
  Conn = {c1, c2}
  Student = {s1}
  NoConn = NoConn
  NoStudent = NoStudent
  Acks = {"capturing"}
  MaxReopens = 0
INVARIANTS SoleConnectionIsRegistered
SYMMETRY Symmetry
CHECK_DEADLOCK FALSE
