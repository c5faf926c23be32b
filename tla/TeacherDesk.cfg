SPECIFICATION FairSpec
CONSTANTS
  Name = {physics}
  Student = {s1, s2}
  NoStudent = NoStudent
  DayLength = 2
  Keep = 2
  LastHour = 3
CHECK_DEADLOCK FALSE
INVARIANTS
  TypeOK
  ViewsAreOnRecord
  OnlyStoppedExpire
PROPERTIES
  RecordsFollowExam
  ReapedHadEnded
  ExpiredAreRemoved
