SPECIFICATION FairPipelineSpec
CONSTANTS
  j1 = j1  j2 = j2  w1 = w1
  NoJob = NoJob
  Jobs <- TwoJobs
  Workers <- OneWorker
  Faults <- AllFaults
INVARIANTS PipelineTypeOK TablesAgree ScansAreOwned
PROPERTIES PollsAdvance ScansAreAnswered
\* The API rests when every scan was submitted and ended.
CHECK_DEADLOCK FALSE
