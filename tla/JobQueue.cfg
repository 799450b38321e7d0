SPECIFICATION FairSpec
CONSTANTS
  j1 = j1  j2 = j2  j3 = j3  w1 = w1  w2 = w2
  NoJob = NoJob
  Jobs <- ThreeJobs
  Workers <- TwoWorkers
  Faults <- AllFaults
INVARIANTS TypeOK SinglePlace AtMostOnce NoSilentLoss TruthfulRow RecoveryRepeatsNothing
PROPERTIES LostStaysLost ImplementsService EveryJobSettles
\* The queue stops when every job has been submitted and finished.
CHECK_DEADLOCK FALSE
