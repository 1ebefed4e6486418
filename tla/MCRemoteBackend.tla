-------------------------- MODULE MCRemoteBackend --------------------------
(* Small instances of RemoteBackend. *)
EXTENDS RemoteBackend, TLC

CONSTANTS w1, w2, w3

\* Three requests: the first is full, the second ends for its characters.
Lengths == <<1, 1, 3, 3>>
=============================================================================
