SPECIFICATION Spec
CONSTANTS
  Envs = {e1, e2, e3}
  NoObs = NoObs
  ChunkLength = 2
  Horizon = 2
  EpisodeLength = 3
  MaxGoal = 4
  MaxEpisode = 6
INVARIANTS NoStaleAction EpisodesCounted
PROPERTIES Ends
CHECK_DEADLOCK FALSE
