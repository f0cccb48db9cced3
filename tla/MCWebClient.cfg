\* DEADLOCK is checked: a tab can always be reloaded.
SPECIFICATION FairWeb
CONSTANTS
  s1 = s1
  r1 = r1
  Students = {s1}
  Rows = {r1}
  NoRow = NoRow
  Calls = {1, 2}
  Watchable <- Followed
  Nobody = Nobody
  NoData = NoData
INVARIANTS WebTypeOK ReadYourWrites NobodyElsesData
PROPERTIES LogoutEndsAtLogin
