SPECIFICATION Spec
CONSTANTS
  o1 = o1
  o2 = o2
  r1 = r1
  read = read
  write = write
  Operator = {o1, o2}
  Request = {r1}
  Scope = {read, write}
  MaxCommands = 6
  MaxRequests = 1
SYMMETRY Symmetry
INVARIANTS
  CredentialsFollowLedger
  AuthorityIsRecorded
