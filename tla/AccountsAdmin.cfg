CONSTANTS
  n1 = n1
  n2 = n2
  a1 = a1
  a2 = a2
  s1 = s1
  a3 = a3
  Script = script
  Nobody = nobody
  Names <- TwoNames
  Attempts <- OneAttempt
  Sessions <- OneSession
  Faults <- OnlyInterrupt

SPECIFICATION Spec
INVARIANT AdminIsOperator

\* Nothing is left to do when the attempts are over and nobody clicks.
CHECK_DEADLOCK FALSE
