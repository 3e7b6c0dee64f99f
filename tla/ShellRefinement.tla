-------------------------- MODULE ShellRefinement --------------------------
(***************************************************************************)
(* How the commands of the shell, with one client and as long as managers  *)
(* only fail between commands, are requests to a StateMachineService that  *)
(* is a single fault-tolerant host: whichever managers are asked, how      *)
(* often, and which of them the machine has moved to.                      *)
(***************************************************************************)
EXTENDS FrontEnd, ServiceRefinement

TheService == 0

(* create() and stubs report failures by what they do next, or by "".      *)
HasFailed(f) == ~f.ok /\ (f.pc = "returned" \/ (f.op = "create" /\ f.pc = "get"))

CommandOf(c) ==
    LET f == shell[c]
        asked == IF Serving(c) = {} THEN None ELSE RequestOf(c)
        done == f.ok \/ asked.outcome = "done"
    IN  IF f = Prompt THEN None
        ELSE [op |-> f.op, name |-> f.name, val |-> f.val, at |-> TheService,
              res |-> IF f.ok THEN f.res ELSE IF done THEN asked.res ELSE Nil,
              outcome |-> IF done THEN "done" ELSE IF HasFailed(f) THEN "error" ELSE "pending"]

ShellService == INSTANCE StateMachineService WITH
    Manager <- {TheService},
    state <- [n \in Name |-> StateOf(n)],
    hosts <- [n \in Name |-> IF Hosting(n) = {} THEN {} ELSE {TheService}],
    request <- [c \in Client |-> CommandOf(c)]

(* The shell's commands are the requests of one reliable service: each     *)
(* takes effect exactly once, on the one state the machine has, and it is  *)
(* refused only if the machine does not exist (or, for create, does).      *)
ImplementsOneHost == ShellService!Spec
=============================================================================
