SPECIFICATION FairTerminal
CONSTANTS
  NoStudent = NoStudent
  NoPass = NoPass
  NoLog = NoLog
  NoData = NoData
  NoWorker = NoWorker
  MaxAdrift = 1
  Students = {s1}
  PassIds = {p1}
  LogIds = {l1, l2, l3}
  Workers = {w1}
INVARIANTS TerminalTypeOK OneVisitAtATime StatusMatchesLog 
PROPERTIES ImplementsGate TerminalReturns
