SPECIFICATION FairSpec
CONSTANTS
  NoStudent = NoStudent
  NoPass = NoPass
  NoLog = NoLog
  Students = {s1}
  PassIds = {p1}
  LogIds = {l1, l2}
  Workers = {w1}
PROPERTY GuestsCheckOut
CHECK_DEADLOCK FALSE
