SPECIFICATION Spec
CONSTANTS
  NoRoom = NoRoom
  NoStudent = NoStudent
  NoRelocation = NoRelocation
  single = single
  double = double
  repaired = repaired
  Students = {s1, s2, s3}
  Rooms = {single, double, repaired}
  Capacity <- CapacityMC
  UnderRepair = {repaired}
  RelocationIds = {q1, q2}
  Workers = {w1}
SYMMETRY Symmetry
INVARIANTS NotOverbooked
PROPERTIES MovesAreApproved ImplementsSeats
