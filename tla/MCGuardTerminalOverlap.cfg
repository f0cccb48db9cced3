SPECIFICATION TerminalSpec
CONSTANTS
  NoStudent = NoStudent
  NoPass = NoPass
  NoLog = NoLog
  NoData = NoData
  NoWorker = NoWorker
  MaxAdrift = 1
  Students = {s1}
  PassIds = {p1}
  LogIds = {l1, l2}
  Workers = {w1, w2}
SYMMETRY Symmetry
INVARIANT OneVisitAtATime
