SPECIFICATION ManagerSpec
CONSTANTS
  NumJobs = 3
  MaxQueue = 5
INVARIANTS PendingIsQueued
