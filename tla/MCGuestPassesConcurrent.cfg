SPECIFICATION Spec
CONSTANTS
  NoStudent = NoStudent
  NoPass = NoPass
  NoLog = NoLog
  Students = {s1, s2}
  PassIds = {p1, p2}
  LogIds = {l1, l2, l3, l4}
  Workers = {w1, w2}
SYMMETRY Symmetry
INVARIANTS TypeOK UsedMeansLogged NobodyEarly
PROPERTIES LogIsAppendOnly
CHECK_DEADLOCK FALSE
