SPECIFICATION Spec
CONSTANTS
  q1 = q1  q2 = q2  q3 = q3  q4 = q4  a1 = a1  a2 = a2  u1 = u1
  Requests <- ThreeRequests
  Addresses <- TwoAddresses
  Usernames <- OneUser
  MaxRequests = 2
  Window = 2
  MaxTime = 3
  Faults <- OnlyRaise
INVARIANT EveryRequestAudited
\* Every request is made once and the clock stops at MaxTime.
CHECK_DEADLOCK FALSE
