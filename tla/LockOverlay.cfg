SPECIFICATION FairSpec
CONSTANTS
  Message = {m1, m2}
  MaxRuns = 2
INVARIANTS TypeOK VisibleIsServed SettlesAsWanted
PROPERTIES HideTakesEffect
