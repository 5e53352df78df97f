SPECIFICATION Spec
CONSTANTS
  Requests = {"r1", "r2", "r3", "r4", "r5"}
  Jtis = {"j1", "j2", "j3"}
  Tokens = {"t1", "t2"}
  Accounts = {"a1", "a2"}
  Keys = {"k1", "k2", "k3"}
  Owner <- MCOwner
  Form <- MCForm
  MaxFailovers = 1
INVARIANTS EntryPays Truthful
CHECK_DEADLOCK FALSE
