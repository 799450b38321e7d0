SPECIFICATION Spec
CONSTANTS
  u1 = u1  c1 = c1
  Users <- OneUser
  Clients <- OneClient
  UserOf <- Owner
  AccessLife = 2
  RefreshLife = 3
  Handling = 1
  MaxTime = 9
  Faults <- AllFaults
INVARIANTS TypeOK StaleRoleBounded SessionBounded
PROPERTY TokensCarryFreshRoles
\* The clock stops at MaxTime, a bound of this run.
CHECK_DEADLOCK FALSE
