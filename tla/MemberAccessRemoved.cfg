CONSTANTS
  Departments = {d1, d2}
  Invites = {i1, i2}
  MemberWorkers = {w1, w2}
  MaxEdits = 2
  NoDepartment = none
SPECIFICATION MemberSpec
INVARIANT RemovedHasNoAccess
CHECK_DEADLOCK FALSE
