CONSTANTS
  n1 = n1
  n2 = n2
  a1 = a1
  a2 = a2
  s1 = s1
  a3 = a3
  Script = script
  Nobody = nobody
  Names <- TwoNames
  Attempts <- ThreeAttempts
  Sessions <- OneSession
  Faults <- AllFaults

SPECIFICATION Spec
SYMMETRY Symmetric
INVARIANTS TypeOK OneWinner TrailIsExact OperatorsAreKnown

\* Nothing is left to do when the attempts are over and nobody clicks.
CHECK_DEADLOCK FALSE
