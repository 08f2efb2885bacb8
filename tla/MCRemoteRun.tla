---------------------------- MODULE MCRemoteRun ----------------------------
(* RemoteRun alone: tasks are numbers, in queue order. *)
EXTENDS RemoteRun

OneTask == {1}
=============================================================================
