--------------------------- MODULE MCDemoPipeline ---------------------------
EXTENDS DemoPipeline

\* One end effector without a signal to mark and two with.
MCSignalCounts == <<1, 0, 1>>
\* All episodes, a permutation, and a selection with indices that do not exist.
MCSelections == {<<>>, <<2, 1>>, <<3, 1, 1>>}
=============================================================================
