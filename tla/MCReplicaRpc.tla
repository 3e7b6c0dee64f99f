---------------------------- MODULE MCReplicaRpc ----------------------------
(***************************************************************************)
(* ReplicaRpc for TLC.  Threads of a process are alike, and so are proces- *)
(* ses, in runs without liveness.                                          *)
(***************************************************************************)
EXTENDS ReplicaRpc, TLC

Symmetric == Permutations(Process) \cup Permutations(Thread)
=============================================================================
