SPECIFICATION Spec
CONSTANTS
  NumJobs = 3
  MaxQueue = 3
  NoJob = NoJob
INVARIANTS OneEnvironment  
PROPERTIES Ends UsesManager
CHECK_DEADLOCK FALSE
