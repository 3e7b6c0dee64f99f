----------------------------- MODULE ReplicaWire -----------------------------
(***************************************************************************)
(* What the generated code writes to a connection and reads from it        *)
(* (gen-cpp).  Every struct has a read() and a write(), or one of them, of *)
(* its own: here a table of its fields, field id |-> name and type.        *)
(*                                                                         *)
(* A struct in memory is a record of the fields that are set; on the wire  *)
(* it is a function from field ids to a type and a value.                  *)
(***************************************************************************)
EXTENDS Integers

Field(n, t) == [name |-> n, type |-> t]

Name == Field("name", "string")
InitialState == Field("initialState", "string")
RMs == Field("RMs", "list")
Operation == Field("operation", "string")
FromFrontEnd == Field("fromFrontEnd", "bool")

(* A result is e, or else success where the method returns a value.        *)
E == [i \in {1} |-> Field("e", "struct")]
Success(t) == [i \in {0, 1} |-> IF i = 0 THEN Field("success", t) ELSE E[1]]

(***************************************************************************)
(* write() writes the fields that are set.  read() goes through what is on *)
(* the wire: it skips ids it does not know, and values of another type.    *)
(***************************************************************************)
Write(schema, struct) ==
    [i \in {i \in DOMAIN schema : schema[i].name \in DOMAIN struct} |->
        [type |-> schema[i].type, val |-> struct[schema[i].name]]]

Read(schema, wire) ==
    LET I == {i \in DOMAIN schema \cap DOMAIN wire : wire[i].type = schema[i].type}
    IN  [n \in {schema[i].name : i \in I} |->
            wire[CHOOSE i \in I : schema[i].name = n].val]

(* The one struct within a struct is the ReplicaError of a result.         *)
ErrorFields ==
    <<Field("type", "i32"), Field("name", "string"), Field("message", "string")>>

(* A result's write() writes success, or else e, or else no field.         *)
WriteResult(schema, result) ==
    Write(schema, IF "success" \in DOMAIN result THEN [success |-> result.success]
                  ELSE IF "e" \in DOMAIN result
                  THEN [e |-> Write(ErrorFields, result.e)]
                  ELSE <<>>)

ReadResult(schema, wire) ==
    LET r == Read(schema, wire) IN
    IF "e" \in DOMAIN r THEN [r EXCEPT !.e = Read(ErrorFields, @)] ELSE r

-----------------------------------------------------------------------------
(* The structs: args is read by the server, pargs written by the client;   *)
(* result is written by the server, presult read by the client.            *)

CreateArgs == <<Name, InitialState, RMs, FromFrontEnd>>
CreatePargs == <<Name, InitialState, RMs, FromFrontEnd>>
CreateResult == E
CreatePresult == E

ApplyArgs == <<Name, Operation, FromFrontEnd>>
ApplyPargs == <<Name, Operation, FromFrontEnd>>
ApplyResult == Success("string")
ApplyPresultShifted == [i \in {1, 2} |-> Success("string")[i - 1]]
ApplyPresult == Success("string")

GetStateArgs == <<Name>>
GetStatePargs == <<Name>>
GetStateResult == Success("string")
GetStatePresult == Success("string")

RemoveArgs == <<Name, FromFrontEnd>>
RemovePargs == <<Name, FromFrontEnd>>
RemoveResult == E
RemovePresult == E

NumMachinesArgs == <<>>
NumMachinesPargs == <<>>
NumMachinesResult == Success("i32")
NumMachinesPresult == Success("i32")

HasStateMachineArgs == <<Name>>
HasStateMachinePargs == <<Name>>
HasStateMachineResult == Success("bool")
HasStateMachinePresult == Success("bool")

ExitArgs == <<>>
ExitPargs == <<>>

-----------------------------------------------------------------------------
(* ReplicaClient: the message a method sends and the answer it reads; "ex- *)
(* it" reads none.                                                         *)
ClientCreate == [call |-> "create", args |-> CreatePargs, result |-> CreatePresult]
ClientApply == [call |-> "apply", args |-> ApplyPargs, result |-> ApplyPresult]
ClientGetState ==
    [call |-> "getState", args |-> GetStatePargs, result |-> GetStatePresult]
ClientRemove == [call |-> "remove", args |-> RemovePargs, result |-> RemovePresult]
ClientNumMachines ==
    [call |-> "numMachines", args |-> NumMachinesPargs, result |-> NumMachinesPresult]
ClientHasStateMachine ==
    [call |-> "hasStateMachine", args |-> HasStateMachinePargs,
     result |-> HasStateMachinePresult]
ClientExit == [call |-> "exit", args |-> ExitPargs]

ReplicaClient ==
    [create |-> ClientCreate, apply |-> ClientApply, getState |-> ClientGetState,
     remove |-> ClientRemove, numMachines |-> ClientNumMachines,
     hasStateMachine |-> ClientHasStateMachine, exit |-> ClientExit]

(* ReplicaProcessor: what each process_ function reads and answers.        *)
ProcessCreate == [args |-> CreateArgs, reply |-> "create", result |-> CreateResult]
ProcessApply == [args |-> ApplyArgs, reply |-> "apply", result |-> ApplyResult]
ProcessGetState ==
    [args |-> GetStateArgs, reply |-> "getState", result |-> GetStateResult]
ProcessRemove == [args |-> RemoveArgs, reply |-> "remove", result |-> RemoveResult]
ProcessNumMachines ==
    [args |-> NumMachinesArgs, reply |-> "numMachines", result |-> NumMachinesResult]
ProcessHasStateMachine ==
    [args |-> HasStateMachineArgs, reply |-> "hasStateMachine",
     result |-> HasStateMachineResult]
ProcessExit == [args |-> ExitArgs]

ProcessMap ==
    [create |-> ProcessCreate, apply |-> ProcessApply, getState |-> ProcessGetState,
     remove |-> ProcessRemove, numMachines |-> ProcessNumMachines,
     hasStateMachine |-> ProcessHasStateMachine, exit |-> ProcessExit]

(* The calls without an answer, and those whose answer carries no value.   *)
Oneway == {m \in DOMAIN ReplicaClient : "result" \notin DOMAIN ReplicaClient[m]}
Void == {m \in DOMAIN ReplicaClient \ Oneway : 0 \notin DOMAIN ReplicaClient[m].result}
=============================================================================
