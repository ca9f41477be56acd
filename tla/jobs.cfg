CONSTANTS
  NumJobs = 2
  Refusals = {{}, {2}}
  MaxCrashes = 1
SPECIFICATION FairJobsSpec
INVARIANTS
  JobsTypeOK
  OutcomeIsOwn
  NoSilentWait
PROPERTIES
  RunsOnce
  EveryJobEnds
CHECK_DEADLOCK FALSE
