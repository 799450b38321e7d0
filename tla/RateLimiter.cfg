SPECIFICATION Spec
CONSTANTS
  q1 = q1  q2 = q2  q3 = q3  q4 = q4  a1 = a1  a2 = a2  u1 = u1
  Requests <- FourRequests
  Addresses <- TwoAddresses
  Usernames <- OneUser
  MaxRequests = 2
  Window = 2
  MaxTime = 3
  Faults <- AllFaults
SYMMETRY AnyRequest
INVARIANTS TypeOK WindowRespected RowPerAnswer
PROPERTY ImplementsWindowLimit
\* Every request is made once and the clock stops at MaxTime.
CHECK_DEADLOCK FALSE
