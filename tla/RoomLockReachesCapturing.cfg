SPECIFICATION RoomSpec
CONSTANTS
  Conn = {c1}
  Student = {s1}
  NoConn = NoConn
  NoStudent = NoStudent
  Acks = {"capturing", "locked", "stopped"}
  Events = {"slow"}
  Buttons = {"exam_start", "exam_stop", "lock", "unlock"}
  PictureQueue = 0
  MaxLocks = 1
  MaxReopens = 0
PROPERTIES LockReachesCapturing
CHECK_DEADLOCK FALSE
