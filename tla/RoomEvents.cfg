SPECIFICATION RoomSpec
CONSTANTS
  Conn = {c1}
  Student = {s1}
  NoConn = NoConn
  NoStudent = NoStudent
  Acks = {"capturing", "locked", "stopped"}
  Events = {"cut", "slow", "capture", "silence", "quit", "expire", "leave"}
  Buttons = {"exam_start", "exam_stop", "lock", "unlock"}
  PictureQueue = 1
  MaxLocks = 1
  MaxReopens = 1
INVARIANTS NobodyAhead
CHECK_DEADLOCK FALSE
