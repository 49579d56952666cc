SPECIFICATION Spec
CONSTANTS
  Clients = {c1, c2, c3}
  Authorized = {c1, c2}
  Killers = {c1, c2}
  SomeTask = SomeTask
  TaskOf <- OneTask
  NoTask = NoTask
  NoMsg = NoMsg
  PairPolicy = TRUE
  MaxCalls = 2
  MaxCrashes = 1
INVARIANTS TypeOK AnswersOwnCall NoServerError ActionForTask
PROPERTIES Ends
CHECK_DEADLOCK FALSE
