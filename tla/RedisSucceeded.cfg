SPECIFICATION Spec
CONSTANTS
  j1 = j1  j2 = j2  p1 = p1  p2 = p2
  NoJob = NoJob
  Jobs <- OneJob
  Procs <- OneProc
  MaxRetries = 1
  Faults <- OnlyRefused
INVARIANT SucceededNotRequeued
\* The queue stops when every job has been submitted and finished.
CHECK_DEADLOCK FALSE
