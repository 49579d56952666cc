------------------------- MODULE MCMimicGeneration -------------------------
EXTENDS MimicGeneration

\* The eefs of G1LocomanipPickPlaceMimicEnvCfg, in its order.
MCEefOrder == <<"right", "left", "body">>

MCSubtasks == [right |-> 2, left |-> 1, body |-> 2]

ArmTrajectories == {<<FALSE>>, <<FALSE, FALSE>>, <<FALSE, FALSE, FALSE>>}

MCTrajectories ==
    [right |-> ArmTrajectories, left |-> ArmTrajectories,
     body  |-> {<<TRUE>>, <<FALSE, FALSE>>, <<TRUE, TRUE>>, <<FALSE, TRUE>>,
                <<TRUE, TRUE, TRUE>>, <<TRUE, TRUE, FALSE, FALSE>>}]

MCInPlace == <<FALSE, TRUE>>
=============================================================================
