SPECIFICATION Spec
CONSTANTS
  Students = 2
  Again = {1}
  Pictures = 2
  Names = 2
  MaxColumns = 2
CHECK_DEADLOCK FALSE
INVARIANTS
  TypeOK
  DrawnBelongs
  RowsShowAll
  SnapshotIsCurrent
