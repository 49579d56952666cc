SPECIFICATION Spec
CONSTANTS
  Envs = {e1, e2, e3}
  Obs = {o1, o2}
  NoObs = NoObs
  ChunkLength = 3
  Horizon = 4
  FetchLengths <- AnyWidth
INVARIANTS Consistent
PROPERTIES ImplementsPlan
