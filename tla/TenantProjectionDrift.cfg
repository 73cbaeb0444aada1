CONSTANTS
  OrgDepartments = {d1}
  FirstDepartment = d1
  ProjectionWorkers = {w1}
  MaxOrgEdits = 2
  MaxJobFaults = 1
SPECIFICATION ProjectionSpec
INVARIANT ProjectionConverges
CHECK_DEADLOCK FALSE
