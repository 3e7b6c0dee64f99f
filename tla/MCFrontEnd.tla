----------------------------- MODULE MCFrontEnd -----------------------------
(***************************************************************************)
(* The client processes and the managers for TLC.                          *)
(***************************************************************************)
EXTENDS ShellRefinement, StateMachines

Symmetric == Permutations(Client)
AllRM == RM
FirstManagers == 0 .. 2

AnyCommand ==
    {t \in [op : Op, name : Name, val : Value \cup {Nil}] :
        t.op \in {"create", "apply"} <=> t.val \in Value}

(* Commands of some kinds only.                                            *)
Creates == {t \in AnyCommand : t.op = "create"}
Writes == {t \in AnyCommand : t.op \in {"create", "apply"}}

(* A balance that is created with 0, operations that add 1.                *)
AddOne ==
    {t \in AnyCommand : /\ t.op = "create" => t.val = 0
                        /\ t.op = "apply" => t.val = 1}
AddOneKeep == {t \in AddOne : t.op # "remove"}
=============================================================================
