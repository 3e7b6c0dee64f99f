---------------------------- MODULE StateMachines ----------------------------
(***************************************************************************)
(* The state machines a manager can host: what StateMachine::apply makes   *)
(* of a state and an operation.                                            *)
(***************************************************************************)
EXTENDS Integers

CONSTANT Width      \* the bits of an int

ASSUME WidthAssumption == Width \in Nat \ {0}

(* StringMachine: the operation is the new state.                          *)
StringApply(s, o) == o

(***************************************************************************)
(* BankBalance: the operation is added to the balance, a signed integer of *)
(* Width bits, here given by its residue.                                  *)
(***************************************************************************)
BankApply(s, o) == (s + o) % 2 ^ Width
=============================================================================
