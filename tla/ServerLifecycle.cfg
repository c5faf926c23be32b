SPECIFICATION LifeSpec
CONSTANTS
  Port = {alpha, lab}
  MaxStarts = 2
INVARIANTS LifeTypeOK OpenIsOwned OpenRoomIsServed ClosedRoomLetsGo
PROPERTIES QuietAfterStop OpenRoomAccepts
CHECK_DEADLOCK FALSE
