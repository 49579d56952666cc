SPECIFICATION Spec
CONSTANTS
    Workers = {w1, w2}
    Episodes = 2
    Recorded = {1, 2, 3}
    Cameras = 2
    QueueSize = 2
    PipeCapacity = 4
INVARIANTS FramesContiguous VideosComplete
PROPERTIES Ends
CHECK_DEADLOCK FALSE
