CONSTANTS
  UserIds = {m1, m2}
  Handlers = {w1, w2, x1, x2}
  Links = {l1, l2}
  MaxAttempts = 1
  MaxPasswords = 1
  NoUser = none
  Claims = {x1, x2}
  ManagedUsers = {m1, m2}
  Members = {m1, m2}
  Runners = {w1, w2}
  Nobody = none
  Departments = {m1, m2}
  Invites = {x1, x2}
  MemberWorkers = {w1, w2}
  MaxEdits = 2
  NoDepartment = none
  Orders = {o1}
  Codes = {k1}
  FirmOrders = {e1, e2}
  Clerks = {w1, w2}
  NoOrder = none
  OrgDepartments = {d1, d2}
  FirstDepartment = d1
  ProjectionWorkers = {w1, w2}
  MaxOrgEdits = 2
  MaxJobFaults = 1
  Assets = {x1, x2}
  Operations = 2
  Appliers = {w1, w2}
  Persons = {m1, m2}
  NoPerson = none
  MaxAdoptionFaults = 2
  MaxPilotFaults = 3
  Secrets = {s0, x1, x2}
  FirstKey = s0
  NoKey = none
  KeyUsers = {w1, w2}
  MaxKeyFaults = 1
  Readers = {w1, w2}
  MaxKeyChanges = 2
  Tenants = {o1, o2}
  SeedTenant = o1
  Staff = {s1, s2, s3}
  SeedAdmin = s1
  SeedGuest = s2
  Offices = {d1, d2}
  SeedOffice = d1
  Addresses = {a1, a2, a3}
  SeedAddress = a1
  GuestAddress = a2
  DemoTokens = {x1, x2}
  MaxTokens = 1
  NoTenant = none
  BoardReaders = {r1}
  MaxDemoEdits = 4
SPECIFICATION MCSpec
SYMMETRY MCSymmetry
INVARIANTS
  BackofficeTypeOK AccountsAreSound MembershipsAreSound OrdersAreSound
  ProjectionIsSound TakeoversAreSound KeysAreSound DemoIsSound
PROPERTY PromisesStay
CHECK_DEADLOCK FALSE
