CONSTANTS
  UserIds = {u1, u2}
  Handlers = {h1, h2, h3}
  Links = {l1, l2}
  MaxAttempts = 2
  MaxPasswords = 1
  NoUser = none
SPECIFICATION AccountsSpec
INVARIANT BoundMemberHasAccount
CHECK_DEADLOCK FALSE
