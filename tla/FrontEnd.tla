------------------------------ MODULE FrontEnd ------------------------------
(***************************************************************************)
(* The client process: the shell that reads commands (client.cpp) and the  *)
(* front end with its stubs (frontend.cpp), over the replica managers.     *)
(*                                                                         *)
(* A client process has one thread: it sends one request at a time and     *)
(* waits for the answer.  What it waits for is thread[c][q], the server    *)
(* thread of manager q for its connection.                                 *)
(*                                                                         *)
(* A stub keeps the manager it was made for: StateMachineStub::replica is  *)
(* a reference, and the assignment to it at lines 46 and 87 only copies    *)
(* the (empty) base class of a client object.                              *)
(***************************************************************************)
EXTENDS ReplicaManager

CONSTANTS
    Typed,          \* the commands users type
    MaxCommand,     \* bound: commands typed in a behaviour
    MaxExit,        \* bound: managers that exit
    MaxStart,       \* bound: managers that are started
    CalmExit        \* managers only exit while no request is being served

ASSUME ShellAssumption ==
    /\ Typed \subseteq [op : Op, name : Name, val : Value \cup {Nil}]
    /\ \A t \in Typed : t.op \in {"create", "apply"} <=> t.val \in Value
    /\ MaxCommand \in Nat /\ MaxExit \in Nat /\ MaxStart \in Nat
    /\ CalmExit \in BOOLEAN

VARIABLES
    shell,      \* shell[c]: where client process c is in its command
    stub,       \* stub[c][n]: the manager of c's stub for machine n
    count       \* how often each bounded thing has happened

shellVars == <<shell, stub, count>>
feVars == <<vars, shell, stub, count>>

(* shell[c] is Prompt, or the command with its position i in a loop, the   *)
(* manager it waits for, whether a manager has done it (ok), and a result. *)
Prompt == [pc |-> "shell", wait |-> NoRM]

FrontEndInit ==
    /\ Init
    /\ shell = [c \in Client |-> Prompt]
    /\ stub = [c \in Client |-> [n \in Name |-> Nil]]
    /\ count = [commands |-> 0, exits |-> 0, starts |-> 0]

In(c, pc) == shell[c].pc = pc /\ shell[c].wait = NoRM
Become(c, f) == shell' = [shell EXCEPT ![c] = f]

(* What a command goes to once the shell has a stub for its machine.       *)
WithStub(f) ==
    [f EXCEPT !.pc = IF f.op = "create" THEN "returned"
                     ELSE IF f.op = "remove" THEN "next" ELSE "stub"]

(* The front end's request to manager q, for the command f.                *)
RequestTo(q, f) ==
    Request(f.op, f.name, f.val, IF f.op = "create" THEN <<q>> ELSE <<>>, TRUE)

(* Mutant: the loop runs one step too far.                                 *)
NextManagerPastEnd(f) ==
    IF f.i = N THEN [f EXCEPT !.pc = "returned"] ELSE [f EXCEPT !.i = @ + 1]

(* The loops over all managers: after the last the call returns, with ""   *)
(* if no manager has done it.                                              *)
NextManager(f) ==
    IF f.i + 1 = N THEN [f EXCEPT !.pc = "returned"] ELSE [f EXCEPT !.i = @ + 1]

(* Mutant: create() looks for another manager until one succeeds.          *)
FailedTriesAgain(f) ==
    CASE f.pc = "create" -> [f EXCEPT !.pc = "scan"]
      [] f.pc = "stub" -> [f EXCEPT !.pc = "next"]
      [] f.pc = "next" -> NextManager(f)

(* An exception is caught: create() goes on to get(), a stub to its loop.  *)
Failed(f) ==
    CASE f.pc = "create" -> [f EXCEPT !.pc = "get"]
      [] f.pc = "stub" -> [f EXCEPT !.pc = "next"]
      [] f.pc = "next" -> NextManager(f)

(* Mutant: the stub's loop does not return with the first answer.          *)
AnsweredGoesOn(f, v) ==
    LET g == [f EXCEPT !.ok = TRUE, !.res = v]
    IN  IF f.pc = "create" THEN [g EXCEPT !.pc = "get"]
        ELSE IF f.pc = "next" THEN NextManager(g)
        ELSE [g EXCEPT !.pc = "returned"]

Answered(f, v) ==
    LET g == [f EXCEPT !.ok = TRUE, !.res = v]
    IN  IF f.pc = "create" THEN [g EXCEPT !.pc = "get"]
        ELSE IF f.op = "remove" THEN NextManager(g)
        ELSE [g EXCEPT !.pc = "returned"]

(* Client c sends its request to manager q, or fails to.                   *)
Ask(c, q) ==
    LET f == shell[c] IN
    /\ Connect(c, {q})
    /\ IF CanCall(c, q)
       THEN /\ Goto(c, q, RequestTo(q, f))
            /\ Become(c, [f EXCEPT !.wait = q])
       ELSE /\ Become(c, Failed(f))
            /\ UNCHANGED thread
    /\ UNCHANGED <<status, machines, groupMap, mutex, stub, count>>

-----------------------------------------------------------------------------
(* The shell                                                               *)

(* main(): a well-formed command; others only print a message.             *)
TypeCommand(c) ==
    /\ In(c, "shell")
    /\ count.commands < MaxCommand
    /\ \E t \in Typed :
        LET f == [pc |-> "scan", op |-> t.op, name |-> t.name, val |-> t.val,
                  i |-> 0, wait |-> NoRM, ok |-> FALSE, res |-> Nil]
        IN  /\ Become(c, IF t.op = "create" THEN f
                         ELSE IF stub[c][t.name] = Nil THEN [f EXCEPT !.pc = "get"]
                         ELSE WithStub(f))
            /\ count' = [count EXCEPT !.commands = @ + 1]
    /\ UNCHANGED <<vars, stub>>

(* The command returns to the shell, which prints its result.              *)
Return(c) ==
    /\ In(c, "returned")
    /\ Become(c, Prompt)
    /\ UNCHANGED <<vars, stub, count>>

(* "exit", or a malformed "remove": the process ends, and another client   *)
(* is started in its place, with no connections and no stubs.              *)
Quit(c) ==
    /\ In(c, "shell")
    /\ count.commands < MaxCommand
    /\ conn' = [conn EXCEPT ![c] = [q \in RM |-> "none"]]
    /\ stub' = [stub EXCEPT ![c] = [n \in Name |-> Nil]]
    /\ count' = [count EXCEPT !.commands = @ + 1]
    /\ UNCHANGED <<status, managerVars, shell>>

-----------------------------------------------------------------------------
(* The front end                                                           *)

(* create(): the least loaded manager without the machine, else manager 0. *)
Scan(c) ==
    LET f == shell[c]
        C == NonHolders(c, f.name)
    IN
    /\ In(c, "scan")
    /\ Ping(c, RM)
    /\ \E rep \in IF C = {} THEN {0} ELSE LeastLoaded(C) :
            Become(c, [f EXCEPT !.pc = "create", !.i = rep])
    /\ UNCHANGED <<status, managerVars, stub, count>>

CreateAt(c) == In(c, "create") /\ Ask(c, shell[c].i)

(***************************************************************************)
(* get(): ping the managers up to the first that has the machine.  With no *)
(* such manager the stub is for the last one.  The map of the shell keeps  *)
(* a stub that it already has.                                             *)
(***************************************************************************)
Get(c) ==
    LET f == shell[c]
        K == {k \in RM : CanCall(c, k) /\ machines[k][f.name] # Nil}
        k == IF K = {} THEN N - 1 ELSE Min(K)
    IN
    /\ In(c, "get")
    /\ Ping(c, 0 .. k)
    /\ stub' = [stub EXCEPT ![c][f.name] = IF @ = Nil THEN k ELSE @]
    /\ Become(c, WithStub([f EXCEPT !.i = 0]))
    /\ UNCHANGED <<status, managerVars, count>>

(* StateMachineStub: first its own manager, then every manager in turn.    *)
CallStub(c) == In(c, "stub") /\ Ask(c, stub[c][shell[c].name])
CallNext(c) == In(c, "next") /\ Ask(c, shell[c].i)

(* The answer arrives: a result, or a ReplicaError.                        *)
Answer(c, q) ==
    LET f == [shell[c] EXCEPT !.wait = NoRM] IN
    /\ shell[c].wait = q
    /\ Reply(c, q)
    /\ Become(c, IF thread[c][q].pc = "reply" THEN Answered(f, thread[c][q].res)
                 ELSE Failed(f))
    /\ UNCHANGED <<stub, count>>

(* The connection broke while the request was being served.                *)
Lost(c, q) ==
    /\ shell[c].wait = q
    /\ thread[c][q] = Idle
    /\ Become(c, Failed([shell[c] EXCEPT !.wait = NoRM]))
    /\ UNCHANGED <<vars, stub, count>>

-----------------------------------------------------------------------------
(* The managers: as in ReplicaManager, but answers to clients are Answer   *)

ServeClient(c, r) ==
    /\ ServerStep(c, r) \/ Escape(c, r) \/ Abort(c, r)
    /\ UNCHANGED shellVars

ServeManager(p, r) == Step(p, r) /\ UNCHANGED shellVars

Fail(r) ==
    /\ count.exits < MaxExit
    /\ CalmExit => Quiet /\ \A c \in Client : In(c, "shell")
    /\ Exit(r)
    /\ count' = [count EXCEPT !.exits = @ + 1]
    /\ UNCHANGED <<shell, stub>>

Restart(r) ==
    /\ count.starts < MaxStart
    /\ Start(r)
    /\ count' = [count EXCEPT !.starts = @ + 1]
    /\ UNCHANGED <<shell, stub>>

ClientStep(c) ==
    \/ Return(c) \/ Scan(c) \/ CreateAt(c) \/ Get(c) \/ CallStub(c) \/ CallNext(c)
    \/ \E q \in RM : Answer(c, q) \/ Lost(c, q)

FrontEndNext ==
    \/ \E c \in Client : TypeCommand(c) \/ Quit(c) \/ ClientStep(c)
    \/ \E c \in Client, r \in RM : ServeClient(c, r)
    \/ \E p, r \in RM : ServeManager(p, r)
    \/ \E r \in RM : Fail(r) \/ Restart(r)

FrontEndSpec == FrontEndInit /\ [][FrontEndNext]_feVars

(* Client processes and server threads are scheduled; users need not type. *)
FrontEndFairness ==
    /\ \A c \in Client : WF_feVars(ClientStep(c))
    /\ \A c \in Client, r \in RM : WF_feVars(ServeClient(c, r))
    /\ \A p, r \in RM : WF_feVars(ServeManager(p, r))

FairFrontEndSpec == FrontEndSpec /\ FrontEndFairness

-----------------------------------------------------------------------------
(* Properties                                                              *)

(* A client waits only for a manager that is serving its request, or that  *)
(* it has lost; a stub exists whenever it is used.                         *)
ShellTypeOK ==
    /\ \A c \in Client : shell[c] = Prompt \/ shell[c] \in
         [pc : {"scan", "create", "get", "stub", "next", "returned"}, op : Op,
          name : Name, val : Value \cup {Nil}, i : RM, wait : Id, ok : BOOLEAN,
          res : Value \cup {Nil}]
    /\ stub \in [Client -> [Name -> RM \cup {Nil}]]
    /\ \A c \in Client : In(c, "stub") => stub[c][shell[c].name] # Nil
    /\ count \in [commands : 0 .. MaxCommand, exits : 0 .. MaxExit, starts : 0 .. MaxStart]

(***************************************************************************)
(* Every command of the shell comes to an end.                             *)
(***************************************************************************)
CommandEnds == \A c \in Client : shell[c] # Prompt ~> shell[c] = Prompt
=============================================================================
