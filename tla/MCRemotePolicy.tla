--------------------------- MODULE MCRemotePolicy ---------------------------
(***************************************************************************)
(* Values of the constants of RemotePolicy for TLC.                        *)
(***************************************************************************)
EXTENDS RemotePolicy

CONSTANT SomeTask

\* All clients evaluate the same task, as the ranks of a distributed run do.
OneTask == [c \in Clients |-> SomeTask]
=============================================================================
