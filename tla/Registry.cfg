SPECIFICATION FairSpec
CONSTANTS
  Conn = {c1, c2}
  Student = {s1, s2}
  NoConn = NoConn
  NoStudent = NoStudent
  Acks = {"capturing"}
  MaxReopens = 1
INVARIANTS TypeOK EntriesLive NewestKeepsTile TilesAccountedFor
PROPERTIES LogOrder DepartedLeaveDashboard
CHECK_DEADLOCK FALSE
