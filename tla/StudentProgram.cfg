SPECIFICATION Spec
CONSTANTS
  Addr = {near, gone}
  NoAddr = NoAddr
  Answering = {near}
  Manual = {near}
  Loop = {l1, l2}
  Conn = {c1, c2}
  NoConn = NoConn
  Reader = {r1, r2}
  Frame = {"exam_start", "exam_stop"}
SYMMETRY Symmetry
CHECK_DEADLOCK FALSE
INVARIANTS
  TypeOK
  DashboardHasLoop
  LeftMeansHungUp
  NilNeedsOverlap
  DeadCacheIsDialled
PROPERTY ExamNotTakenBack
