SPECIFICATION RoomSpec
CONSTANTS
  Conn = {c1, c2}
  Student = {s1}
  NoConn = NoConn
  NoStudent = NoStudent
  Acks = {"capturing", "locked", "stopped"}
  Events = {"cut", "slow", "capture", "silence"}
  Buttons = {"exam_start", "exam_stop", "lock", "unlock"}
  PictureQueue = 0
  MaxLocks = 1
  MaxReopens = 0
SYMMETRY RoomSymmetry
INVARIANTS RoomTypeOK NobodyAhead NoTileAheadOfClient OverlayAgrees
PROPERTIES RoomKeepsPromise
CHECK_DEADLOCK FALSE
