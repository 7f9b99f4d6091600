CONSTANTS
  r1 = r1
  r2 = r2
  H = 3
  Rows <- MC_Rows
  Readings = {0, 1}
  Categories = {"GG", "GC"}
SYMMETRY MC_Symmetry
SPECIFICATION Spec
INVARIANTS
  AusgridTypeOK
  ProfileMatchesHourlyEnergy
CHECK_DEADLOCK FALSE
