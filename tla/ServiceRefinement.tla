------------------------- MODULE ServiceRefinement -------------------------
(***************************************************************************)
(* How the managers, with one client and as long as no manager fails,      *)
(* implement StateMachineService.                                          *)
(***************************************************************************)
EXTENDS ReplicaManager

Serving(c) == {r \in RM : thread[c][r] # Idle}

(***************************************************************************)
(* The state of n: at the manager that serves a client, if it has n (the   *)
(* backups run ahead of it while it forwards), else at any holder.         *)
(***************************************************************************)
Primaries(n) == Hosting(n) \cap UNION {Serving(c) : c \in Client}

StateOf(n) ==
    IF Hosting(n) = {} THEN Nil
    ELSE machines[Min(IF Primaries(n) # {} THEN Primaries(n) ELSE Hosting(n))][n]

(* The control points at which a request has taken effect.                 *)
Effective ==
    [create   |-> {"group", "prune", "select", "send", "reply"},
     apply    |-> {"unlock", "reply"},
     getState |-> {"lock", "prune", "select", "send", "reply"},
     remove   |-> {"eraseGroup", "reply"}]

None == [outcome |-> "none"]

RequestOf(c) ==
    IF Serving(c) = {} THEN None
    ELSE LET r == Min(Serving(c))
             f == thread[c][r]
         IN  [op |-> f.op, name |-> f.name, val |-> f.val, at |-> r, res |-> f.res,
              outcome |-> IF f.pc = "error" THEN "error"
                          ELSE IF f.pc \in Effective[f.op] THEN "done" ELSE "pending"]

Service == INSTANCE StateMachineService WITH
    Manager <- RM,
    state <- [n \in Name |-> StateOf(n)],
    hosts <- [n \in Name |-> Hosting(n)],
    request <- [c \in Client |-> RequestOf(c)]

(* The managers implement the service: no request sees two states of one   *)
(* machine, and none takes effect twice or not at all.                     *)
ImplementsService == Service!Spec
=============================================================================
