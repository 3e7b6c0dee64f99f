-------------------------- MODULE MCReplicaManager --------------------------
(***************************************************************************)
(* The managers for TLC, with all of them up when a behaviour begins.      *)
(***************************************************************************)
EXTENDS ServiceRefinement, StateMachines

Symmetric == Permutations(Client)
AllRM == RM
=============================================================================
