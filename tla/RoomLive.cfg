SPECIFICATION FairRoomSpec
CONSTANTS
  Conn = {c1, c2, c3}
  Student = {s1}
  NoConn = NoConn
  NoStudent = NoStudent
  Acks = {"capturing", "locked", "stopped"}
  Events = {"cut"}
  Buttons = {}
  PictureQueue = 0
  MaxLocks = 0
  MaxReopens = 0
PROPERTIES ClientReconnects
CHECK_DEADLOCK FALSE
