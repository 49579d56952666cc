CONSTANTS
   NumDemos = 2
   NumSuccessSteps = 2
   MaxSteps = 3
   MaxMarks = 2
   NumEnvs = 2
   SignalCounts <- MCSignalCounts
   Selections <- MCSelections
SPECIFICATION Spec
INVARIANTS TypeOK DiscardedOnRequest AnnotationComplete ReplayComplete NeverRaises
PROPERTY ReplayEnds
CHECK_DEADLOCK FALSE
