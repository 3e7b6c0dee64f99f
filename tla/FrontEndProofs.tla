---------------------------- MODULE FrontEndProofs ----------------------------
(***************************************************************************)
(* The client processes: what a shell's command is made of, that a client  *)
(* has one request at a time, and that to the managers the front end is an *)
(* environment of the kind that their invariants are proved for.           *)
(***************************************************************************)
EXTENDS FrontEnd, ListProofs

TypedOp == {t.op : t \in Typed}

ShellPC == {"scan", "create", "get", "stub", "next", "returned"}
Shells ==
    [pc : ShellPC, op : Op, name : Name, val : Value \cup {Nil}, i : RM, wait : Id,
     ok : BOOLEAN, res : Value \cup {Nil}]

(* A command that is being executed: one that was typed, with a value      *)
(* where it takes one; it waits for a manager only in one of its calls.    *)
ShellOK(f) ==
    /\ f \in Shells /\ f.op \in TypedOp
    /\ f.op \in {"create", "apply"} <=> f.val \in Value
    /\ f.wait # NoRM => f.pc \in {"create", "stub", "next"}
    /\ f.pc = "stub" => f.op # "remove"
ShellsOK == \A c \in Client : shell[c] = Prompt \/ ShellOK(shell[c])

(* The stubs, and the counters that bound a behaviour.                     *)
StubsOK ==
    /\ stub \in [Client -> [Name -> RM \cup {Nil}]]
    /\ \A c \in Client : In(c, "stub") => stub[c][shell[c].name] # Nil
CountOK ==
    count \in [commands : 0 .. MaxCommand, exits : 0 .. MaxExit, starts : 0 .. MaxStart]

(* The only request that a client has is the one that its shell waits for. *)
OneRequest == \A c \in Client, q \in RM : thread[c][q] # Idle => shell[c].wait = q

ShellInv == DOMAIN shell = Client /\ ShellsOK /\ StubsOK /\ CountOK /\ OneRequest

-----------------------------------------------------------------------------
(* The steps of the shell and of the front end, as steps of an environment *)

LEMMA TypedOps ==
    ASSUME ShellAssumption
    PROVE  TypedOp \subseteq Op
BY DEF ShellAssumption, TypedOp

(* A shell that is in a command, and not waiting, has no request.          *)
LEMMA InCommand ==
    ASSUME ReplicasAssumption, ShellInv, NEW c \in Client, NEW pc \in ShellPC, In(c, pc)
    PROVE  ShellOK(shell[c]) /\ \A q \in RM : thread[c][q] = Idle
<1>1. shell[c] # Prompt
  BY DEF In, Prompt, ShellPC
<1>2. \A q \in RM : q # NoRM
  BY NoRMOut DEF NoRMIsNoManager
<1> QED
  BY <1>1, <1>2 DEF ShellInv, ShellsOK, OneRequest, In

LEMMA AskIsOpen ==
    ASSUME ReplicasAssumption, ShellInv, NEW c \in Client, NEW pc \in ShellPC, In(c, pc),
           NEW q \in RM, Ask(c, q)
    PROVE  OpenNext(TypedOp)
<1> DEFINE f == shell[c]
<1>1. ShellOK(f) /\ thread[c][q] = Idle
  BY InCommand
<1>2. CASE CanCall(c, q)
  <2>1. /\ f.op \in TypedOp /\ f.name \in Name /\ f.val \in Value \cup {Nil}
        /\ f.op \in {"create", "apply"} <=> f.val \in Value
    BY <1>1 DEF ShellOK, Shells
  <2>2. Goto(c, q, Request(f.op, f.name, f.val, IF f.op = "create" THEN <<q>> ELSE <<>>, TRUE))
    BY <1>2 DEF Ask, RequestTo
  <2>3. Connect(c, {q}) /\ UNCHANGED <<status, machines, groupMap, mutex>>
    BY DEF Ask
  <2> HIDE DEF f
  <2>4. Arrival(c, q, TypedOp)
    BY <1>1, <1>2, <2>1, <2>2, <2>3, Zenon DEF Arrival
  <2> QED
    BY <2>4 DEF OpenNext
<1>3. CASE ~CanCall(c, q)
  <2>1. Connect(c, {q}) /\ UNCHANGED <<status, thread, machines, groupMap, mutex>>
    BY <1>3 DEF Ask
  <2>2. Reconnects(c)
    BY <2>1 DEF Reconnects, managerVars
  <2> QED
    BY <2>2 DEF OpenNext
<1> QED
  BY <1>2, <1>3

(* The manager that a call goes to exists.                                 *)
LEMMA CallTarget ==
    ASSUME ReplicasAssumption, ShellInv, NEW c \in Client
    PROVE  /\ In(c, "create") \/ In(c, "next") => shell[c].i \in RM
           /\ In(c, "stub") => stub[c][shell[c].name] \in RM
<1>1. In(c, "create") \/ In(c, "next") \/ In(c, "stub") => ShellOK(shell[c])
  BY InCommand DEF ShellPC
<1>2. In(c, "create") \/ In(c, "next") \/ In(c, "stub") =>
        shell[c].i \in RM /\ shell[c].name \in Name
  BY <1>1 DEF ShellOK, Shells
<1> QED
  BY <1>2 DEF ShellInv, StubsOK

(* A step of the client process.                                           *)
LEMMA ClientStepIsOpen ==
    ASSUME ReplicasAssumption, ShellInv, NEW c \in Client, ClientStep(c)
    PROVE  OpenNext(TypedOp)
<1>1. CASE Return(c)
  BY <1>1 DEF Return, OpenNext
<1>2. CASE Scan(c)
  <2>1. Connect(c, RM) /\ UNCHANGED <<status, managerVars>>
    BY <1>2 DEF Scan, Ping
  <2> QED
    BY <2>1 DEF Reconnects, OpenNext
<1>3. CASE CreateAt(c) \/ CallNext(c)
  BY <1>3, AskIsOpen, CallTarget DEF CreateAt, CallNext, ShellPC
<1>4. CASE CallStub(c)
  BY <1>4, AskIsOpen, CallTarget DEF CallStub, ShellPC
<1>5. CASE Get(c)
  <2> DEFINE K == {k \in RM : CanCall(c, k) /\ machines[k][shell[c].name] # Nil}
             k == IF K = {} THEN N - 1 ELSE Min(K)
  <2>1. Connect(c, 0 .. k) /\ UNCHANGED <<status, managerVars>>
    BY <1>5 DEF Get, Ping
  <2>2. 0 .. k \subseteq RM
    <3>1. K \subseteq RM /\ RM \subseteq Nat
      BY DEF RM, ReplicasAssumption
    <3>2. K # {} => Min(K) \in RM
      <4> HIDE DEF K
      <4> QED
        BY <3>1, MinOfNats
    <3> HIDE DEF K
    <3>3. k \in RM
      BY <3>2 DEF RM, ReplicasAssumption
    <3> HIDE DEF k
    <3> QED
      BY <3>3 DEF RM, ReplicasAssumption
  <2> QED
    BY <2>1, <2>2 DEF Reconnects, OpenNext
<1>6. ASSUME NEW q \in RM, Answer(c, q)
      PROVE  OpenNext(TypedOp)
  BY <1>6 DEF Answer, OpenNext, ManagerStep, Step, Proc
<1>7. ASSUME NEW q \in RM, Lost(c, q)
      PROVE  OpenNext(TypedOp)
  BY <1>7 DEF Lost, OpenNext
<1> QED
  BY <1>1, <1>2, <1>3, <1>4, <1>5, <1>6, <1>7 DEF ClientStep

LEMMA FrontEndIsOpen ==
    ASSUME ReplicasAssumption, ShellInv, [FrontEndNext]_feVars
    PROVE  OpenNext(TypedOp)
<1>1. ASSUME NEW c \in Client, TypeCommand(c)
      PROVE  OpenNext(TypedOp)
  BY <1>1 DEF TypeCommand, OpenNext
<1>2. ASSUME NEW c \in Client, Quit(c)
      PROVE  OpenNext(TypedOp)
  BY <1>2 DEF Quit, Reconnects, OpenNext
<1>3. ASSUME NEW c \in Client, NEW r \in RM, ServeClient(c, r)
      PROVE  OpenNext(TypedOp)
  BY <1>3 DEF ServeClient, Step, ManagerStep, OpenNext, Proc
<1>4. ASSUME NEW p \in RM, NEW r \in RM, ServeManager(p, r)
      PROVE  OpenNext(TypedOp)
  BY <1>4 DEF ServeManager, ManagerStep, OpenNext, Proc
<1>5. ASSUME NEW r \in RM, Fail(r) \/ Restart(r)
      PROVE  OpenNext(TypedOp)
  BY <1>5 DEF Fail, Restart, ManagerStep, OpenNext
<1>6. CASE UNCHANGED feVars
  BY <1>6 DEF feVars, OpenNext
<1> QED
  BY <1>1, <1>2, <1>3, <1>4, <1>5, <1>6, ClientStepIsOpen DEF FrontEndNext

-----------------------------------------------------------------------------
(* The shell's state                                                       *)

(* The ways in which a command goes on.                                    *)
LEMMA GoesOn ==
    ASSUME ReplicasAssumption, NEW f, ShellOK(f)
    PROVE  /\ ShellOK([f EXCEPT !.wait = NoRM])
           /\ \A pc \in ShellPC :
                f.wait = NoRM /\ (pc = "stub" => f.op # "remove") => ShellOK([f EXCEPT !.pc = pc])
           /\ \A v \in Value \cup {Nil} : ShellOK([f EXCEPT !.ok = TRUE, !.res = v])
           /\ \A k \in RM : ShellOK([f EXCEPT !.i = k])
<1>1. NoRM \in Id /\ f \in Shells
  BY DEF Id, ShellOK
<1>2. ASSUME NEW v \in Value \cup {Nil}
      PROVE  ShellOK([f EXCEPT !.ok = TRUE, !.res = v])
  <2> DEFINE h == [f EXCEPT !.ok = TRUE, !.res = v]
  <2>1. h \in Shells
    BY <1>1 DEF Shells
  <2>2. h.op = f.op /\ h.val = f.val /\ h.wait = f.wait /\ h.pc = f.pc
    BY <1>1 DEF Shells
  <2> HIDE DEF h
  <2>3. ShellOK(h)
    BY <2>1, <2>2 DEF ShellOK
  <2> QED
    BY <2>3 DEF h
<1>3. ASSUME NEW k \in RM
      PROVE  ShellOK([f EXCEPT !.i = k])
  BY <1>1 DEF ShellOK, Shells
<1>4. ASSUME NEW pc \in ShellPC, f.wait = NoRM, pc = "stub" => f.op # "remove"
      PROVE  ShellOK([f EXCEPT !.pc = pc])
  <2> DEFINE h == [f EXCEPT !.pc = pc]
  <2>1. h \in Shells
    BY <1>1 DEF Shells
  <2>2. h.op = f.op /\ h.val = f.val /\ h.wait = f.wait /\ h.pc = pc
    BY <1>1 DEF Shells
  <2> HIDE DEF h
  <2>3. ShellOK(h)
    BY <1>4, <2>1, <2>2 DEF ShellOK
  <2> QED
    BY <2>3 DEF h
<1>5. ShellOK([f EXCEPT !.wait = NoRM])
  BY <1>1 DEF ShellOK, Shells
<1> QED
  BY <1>2, <1>3, <1>4, <1>5

(* Such a command, when it is not waiting and not about to use a stub.     *)
ReadyShell(f) == ShellOK(f) /\ f.wait = NoRM /\ f.pc # "stub"

LEMMA NextManagerReady ==
    ASSUME ReplicasAssumption, NEW f, ShellOK(f), f.wait = NoRM, f.pc # "stub"
    PROVE  ReadyShell(NextManager(f))
<1>1. f \in Shells
  BY DEF ShellOK
<1>2. CASE f.i + 1 = N
  <2>1. [f EXCEPT !.pc = "returned"].wait = NoRM /\ [f EXCEPT !.pc = "returned"].pc = "returned"
    BY <1>1 DEF Shells
  <2> QED
    BY <1>2, <2>1, GoesOn DEF ReadyShell, NextManager, ShellPC
<1>3. CASE f.i + 1 # N
  <2>1. f.i + 1 \in RM
    BY <1>1, <1>3 DEF Shells, RM, ReplicasAssumption
  <2>2. [f EXCEPT !.i = f.i + 1].wait = NoRM /\ [f EXCEPT !.i = f.i + 1].pc = f.pc
    BY <1>1 DEF Shells
  <2> QED
    BY <1>3, <2>1, <2>2, GoesOn DEF ReadyShell, NextManager
<1> QED
  BY <1>2, <1>3

LEMMA MovesOnReady ==
    ASSUME ReplicasAssumption, NEW f, ShellOK(f), f.wait = NoRM,
           NEW pc \in ShellPC, pc # "stub"
    PROVE  ReadyShell([f EXCEPT !.pc = pc])
<1>1. [f EXCEPT !.pc = pc].wait = NoRM /\ [f EXCEPT !.pc = pc].pc = pc
  BY DEF ShellOK, Shells
<1> QED
  BY <1>1, GoesOn DEF ReadyShell

LEMMA FailedReady ==
    ASSUME ReplicasAssumption, NEW f, ShellOK(f), f.wait = NoRM, f.pc \in {"create", "stub", "next"}
    PROVE  ReadyShell(Failed(f))
<1>1. CASE f.pc = "create"
  <2>1. Failed(f) = [f EXCEPT !.pc = "get"]
    BY <1>1 DEF Failed
  <2> QED
    BY <2>1, MovesOnReady DEF ShellPC
<1>2. CASE f.pc = "stub"
  <2>1. Failed(f) = [f EXCEPT !.pc = "next"]
    BY <1>2 DEF Failed
  <2> QED
    BY <2>1, MovesOnReady DEF ShellPC
<1>3. CASE f.pc = "next"
  <2>1. Failed(f) = NextManager(f)
    BY <1>3 DEF Failed
  <2> QED
    BY <1>3, <2>1, NextManagerReady
<1> QED
  BY <1>1, <1>2, <1>3

LEMMA AnsweredReady ==
    ASSUME ReplicasAssumption, NEW f, ShellOK(f), f.wait = NoRM,
           f.pc \in {"create", "stub", "next"}, NEW v \in Value \cup {Nil}
    PROVE  ReadyShell(Answered(f, v))
<1> DEFINE g == [f EXCEPT !.ok = TRUE, !.res = v]
<1>1. g.wait = NoRM /\ g.pc = f.pc /\ (f.pc = "stub" => f.op # "remove")
  BY DEF ShellOK, Shells
<1>2. ShellOK(g)
  BY GoesOn
<1>3. Answered(f, v) = IF f.pc = "create" THEN [g EXCEPT !.pc = "get"]
                       ELSE IF f.op = "remove" THEN NextManager(g)
                       ELSE [g EXCEPT !.pc = "returned"]
  BY DEF Answered
<1> HIDE DEF g
<1> QED
  BY <1>1, <1>2, <1>3, NextManagerReady, MovesOnReady DEF ShellPC

-----------------------------------------------------------------------------
(* The invariant of the client processes                                   *)

(* A client goes on to h; its stubs may change, those of the others do not. *)
LEMMA Becomes ==
    ASSUME ShellInv, NEW c \in Client, NEW h, Become(c, h),
           h = Prompt \/ ShellOK(h),
           stub' \in [Client -> [Name -> RM \cup {Nil}]],
           \A d \in Client : d # c => stub'[d] = stub[d],
           h.pc = "stub" /\ h.wait = NoRM => stub'[c][h.name] # Nil,
           \A q \in RM : thread'[c][q] # Idle => h.wait = q,
           \A d \in Client, q \in RM : d # c /\ thread'[d][q] # Idle => thread[d][q] # Idle,
           CountOK'
    PROVE  ShellInv'
<1>1. DOMAIN shell' = Client /\ \A d \in Client : shell'[d] = IF d = c THEN h ELSE shell[d]
  BY DEF Become, ShellInv
<1>2. ShellsOK'
  BY <1>1 DEF ShellInv, ShellsOK
<1>3. StubsOK'
  BY <1>1 DEF ShellInv, StubsOK, In
<1>4. OneRequest'
  BY <1>1 DEF ShellInv, OneRequest
<1> QED
  BY <1>1, <1>2, <1>3, <1>4 DEF ShellInv

(* The manager steps do not give a client a request.                       *)
LEMMA ManagersServe ==
    ASSUME ReplicasAssumption, TypeOK, ManagerStep
    PROVE  \A c \in Client, q \in RM : thread'[c][q] # Idle => thread[c][q] # Idle
<1>0. \A c \in Client : c \in Proc /\ c \notin RM
  BY DEF Proc, ReplicasAssumption, Id
<1>1. ASSUME NEW p \in Proc, NEW r \in RM, ServerStep(p, r)
      PROVE  \A c \in Client, q \in RM : thread'[c][q] # Idle => thread[c][q] # Idle
  <2>1. thread[p][r] # Idle
    BY <1>1, StepKind DEF Frame, Idle
  <2>2. CASE Moves(p, r)
    BY <1>0, <2>1, <2>2 DEF Moves, Untouched
  <2>3. ASSUME NEW k \in RM, Calls(p, r, k)
        PROVE  \A c \in Client, q \in RM : thread'[c][q] # Idle => thread[c][q] # Idle
    BY <1>0, <2>1, <2>3 DEF Calls
  <2> QED
    BY <1>1, <2>2, <2>3, StepKind
<1>2. ASSUME NEW p \in Proc, NEW r \in RM, thread' = ThreadsAfterReply(p, r)
      PROVE  \A c \in Client, q \in RM : thread'[c][q] # Idle => thread[c][q] # Idle
  <2>1. thread'[p][r] = Idle
    BY <1>2 DEF ThreadsAfterReply
  <2> QED
    BY <1>0, <1>2, <2>1, WaitsAfterReply
<1>3. ASSUME NEW r \in RM, NEW how, Die(r, how)
      PROVE  \A c \in Client, q \in RM : thread'[c][q] # Idle => thread[c][q] # Idle
  <2>1. \A c \in Client : thread'[c][r] = Idle
    BY <1>0, <1>3 DEF Die
  <2> QED
    BY <1>0, <1>3, <2>1, WaitsAfterDeath
<1> QED
  BY <1>1, <1>2, <1>3 DEF ManagerStep, Step, Reply, Escape, Abort, Exit, Start

LEMMA ServesShells ==
    ASSUME ReplicasAssumption, TypeOK, ShellInv, ManagerStep, UNCHANGED <<shell, stub>>, CountOK'
    PROVE  ShellInv'
<1>1. OneRequest'
  BY ManagersServe DEF ShellInv, OneRequest
<1>2. ShellsOK' /\ StubsOK' /\ DOMAIN shell' = Client
  BY DEF ShellInv, ShellsOK, StubsOK, In
<1> QED
  BY <1>1, <1>2 DEF ShellInv

(* Type a command: it starts where create() looks for a manager, with      *)
(* get(), or with the stub that the shell has.                             *)
LEMMA TypeCommandKeeps ==
    ASSUME ReplicasAssumption, ManagerAssumption, ShellAssumption, ShellInv,
           NEW c \in Client, TypeCommand(c)
    PROVE  ShellInv'
<1>1. PICK t \in Typed :
        LET f == [pc |-> "scan", op |-> t.op, name |-> t.name, val |-> t.val,
                  i |-> 0, wait |-> NoRM, ok |-> FALSE, res |-> Nil]
        IN  Become(c, IF t.op = "create" THEN f
                      ELSE IF stub[c][t.name] = Nil THEN [f EXCEPT !.pc = "get"]
                      ELSE WithStub(f))
  BY DEF TypeCommand
<1> DEFINE f == [pc |-> "scan", op |-> t.op, name |-> t.name, val |-> t.val,
                 i |-> 0, wait |-> NoRM, ok |-> FALSE, res |-> Nil]
<1>2. /\ t.op \in Op /\ t.name \in Name /\ t.val \in Value \cup {Nil} /\ t.op \in TypedOp
      /\ t.op \in {"create", "apply"} <=> t.val \in Value
  BY DEF ShellAssumption, TypedOp
<1>3. f \in Shells
  BY <1>2 DEF Shells, ShellPC, Id, RM, ReplicasAssumption
<1>4. f.op = t.op /\ f.val = t.val /\ f.wait = NoRM /\ f.pc = "scan" /\ f.name = t.name
  OBVIOUS
<1> HIDE DEF f
<1>5. ReadyShell(f)
  BY <1>2, <1>3, <1>4 DEF ReadyShell, ShellOK
<1>6. CountOK' /\ UNCHANGED <<vars, stub>> /\ shell[c].wait = NoRM
  <2>1. count' = [count EXCEPT !.commands = @ + 1] /\ count.commands < MaxCommand
    BY DEF TypeCommand
  <2> QED
    BY <2>1 DEF TypeCommand, In, ShellInv, CountOK, ShellAssumption
<1>7. \A q \in RM : thread'[c][q] = Idle
  BY <1>6, NoRMOut DEF NoRMIsNoManager, ShellInv, OneRequest, vars
<1>8. ASSUME NEW h, Become(c, h), ShellOK(h), h.pc = "stub" => stub[c][h.name] # Nil
      PROVE  ShellInv'
  BY <1>6, <1>7, <1>8, Becomes DEF ShellInv, StubsOK, vars
<1>9. CASE t.op = "create"
  BY <1>1, <1>5, <1>8, <1>9 DEF ReadyShell, f
<1>10. CASE t.op # "create" /\ stub[c][t.name] = Nil
  <2>1. Become(c, [f EXCEPT !.pc = "get"])
    BY <1>1, <1>10 DEF f
  <2>2. ReadyShell([f EXCEPT !.pc = "get"])
    BY <1>5, MovesOnReady DEF ReadyShell, ShellPC
  <2> QED
    BY <1>8, <2>1, <2>2 DEF ReadyShell
<1>11. CASE t.op # "create" /\ stub[c][t.name] # Nil
  <2>1. Become(c, WithStub(f))
    BY <1>1, <1>11 DEF f
  <2>2. PICK pc \in {"next", "stub"} :
          WithStub(f) = [f EXCEPT !.pc = pc] /\ (pc = "stub" => f.op # "remove")
    BY <1>4, <1>11 DEF WithStub
  <2>3. ShellOK([f EXCEPT !.pc = pc])
    BY <1>5, <2>2, GoesOn DEF ReadyShell, ShellPC
  <2>4. [f EXCEPT !.pc = pc].name = t.name
    BY <1>3, <1>4 DEF Shells
  <2> QED
    BY <1>8, <1>11, <2>1, <2>2, <2>3, <2>4
<1> QED
  BY <1>9, <1>10, <1>11

(* A client that has no request goes on, or returns to the prompt.         *)
LEMMA MovesShell ==
    ASSUME ReplicasAssumption, ShellInv, NEW c \in Client, NEW h, Become(c, h),
           h = Prompt \/ ReadyShell(h), UNCHANGED <<stub, count>>,
           \A q \in RM : thread'[c][q] = Idle,
           \A d \in Client, q \in RM : d # c => thread'[d][q] = thread[d][q]
    PROVE  ShellInv'
<1>1. CountOK'
  BY DEF ShellInv, CountOK
<1>2. h.pc # "stub"
  BY DEF Prompt, ReadyShell
<1>3. h = Prompt \/ ShellOK(h)
  BY DEF ReadyShell
<1> QED
  BY <1>1, <1>2, <1>3, Becomes DEF ShellInv, StubsOK

(* The call of a stub or of create().                                      *)
LEMMA AskKeeps ==
    ASSUME ReplicasAssumption, TypeOK, ShellInv, NEW c \in Client,
           NEW pc \in {"create", "stub", "next"}, In(c, pc), NEW q \in RM, Ask(c, q)
    PROVE  ShellInv'
<1> DEFINE f == shell[c]
<1>1. ShellOK(f) /\ (\A k \in RM : thread[c][k] = Idle) /\ f.pc = pc /\ f.wait = NoRM
  BY InCommand DEF In, ShellPC
<1>2. c \in Proc /\ q # NoRM /\ UNCHANGED <<stub, count>>
  BY NoRMOut DEF Proc, Ask, NoRMIsNoManager
<1> HIDE DEF f
<1>3. CASE CanCall(c, q)
  <2> DEFINE h == [f EXCEPT !.wait = q]
  <2>1. Become(c, h)
    BY <1>3 DEF Ask, f
  <2>2. ShellOK(h) /\ h.wait = q
    <3>1. h \in Shells
      BY <1>1 DEF ShellOK, Shells, Id
    <3>2. h.op = f.op /\ h.val = f.val /\ h.wait = q /\ h.pc = f.pc
      BY <1>1 DEF ShellOK, Shells
    <3> HIDE DEF h
    <3> QED
      BY <1>1, <3>1, <3>2 DEF ShellOK
  <2>3. \A d \in Client, k \in RM : ~(d = c /\ k = q) => thread'[d][k] = thread[d][k]
    BY <1>2, <1>3 DEF Ask, Goto, TypeOK, Proc
  <2>4. CountOK' /\ stub' = stub
    BY <1>2 DEF ShellInv, CountOK
  <2> HIDE DEF h
  <2>5. \A k \in RM : thread'[c][k] # Idle => h.wait = k
    BY <1>1, <2>2, <2>3
  <2>6. \A d \in Client, k \in RM : d # c /\ thread'[d][k] # Idle => thread[d][k] # Idle
    BY <2>3
  <2>7. h.wait # NoRM
    BY <1>2, <2>2
  <2> QED
    BY <2>1, <2>2, <2>4, <2>5, <2>6, <2>7, Becomes DEF ShellInv, StubsOK
<1>4. CASE ~CanCall(c, q)
  <2>1. Become(c, Failed(f)) /\ UNCHANGED thread
    BY <1>4 DEF Ask, f
  <2>2. ReadyShell(Failed(f))
    BY <1>1, FailedReady
  <2> QED
    BY <1>1, <1>2, <2>1, <2>2, MovesShell
<1> QED
  BY <1>3, <1>4

LEMMA ScanKeeps ==
    ASSUME ReplicasAssumption, ShellInv, NEW c \in Client, Scan(c)
    PROVE  ShellInv'
<1> DEFINE f == shell[c]
<1>1. ShellOK(f) /\ (\A k \in RM : thread[c][k] = Idle) /\ f.wait = NoRM
  BY InCommand DEF Scan, In, ShellPC
<1>2. PICK rep \in RM : Become(c, [f EXCEPT !.pc = "create", !.i = rep])
  <2>1. 0 \in RM
    BY DEF RM, ReplicasAssumption
  <2> QED
    BY <2>1 DEF Scan, LeastLoaded, NonHolders
<1>3. UNCHANGED <<thread, stub, count>>
  BY DEF Scan, managerVars
<1>4. ReadyShell([f EXCEPT !.pc = "create", !.i = rep])
  <2> DEFINE h == [f EXCEPT !.i = rep]
  <2>1. ShellOK(h) /\ h.wait = NoRM
    BY <1>1, GoesOn DEF ShellOK, Shells
  <2>2. [f EXCEPT !.pc = "create", !.i = rep] = [h EXCEPT !.pc = "create"]
    BY <1>1 DEF ShellOK, Shells
  <2> HIDE DEF h
  <2> QED
    BY <2>1, <2>2, MovesOnReady DEF ShellPC
<1> HIDE DEF f
<1> QED
  BY <1>1, <1>2, <1>3, <1>4, MovesShell

(* get(): afterwards the shell has a stub for the machine.                 *)
LEMMA GetKeeps ==
    ASSUME ReplicasAssumption, ManagerAssumption, ShellInv, NEW c \in Client, Get(c)
    PROVE  ShellInv'
<1> DEFINE f == shell[c]
           h == [f EXCEPT !.i = 0]
           K == {k \in RM : CanCall(c, k) /\ machines[k][f.name] # Nil}
           k == IF K = {} THEN N - 1 ELSE Min(K)
<1>1. ShellOK(f) /\ (\A q \in RM : thread[c][q] = Idle) /\ f.wait = NoRM /\ f.name \in Name
  BY InCommand DEF Get, In, ShellPC, ShellOK, Shells
<1>2. k \in RM
  <2>1. K \subseteq RM /\ RM \subseteq Nat /\ N - 1 \in RM
    BY DEF RM, ReplicasAssumption
  <2> HIDE DEF K
  <2> QED
    BY <2>1, MinOfNats
<1>3. /\ stub' = [stub EXCEPT ![c][f.name] = IF stub[c][f.name] = Nil THEN k ELSE stub[c][f.name]]
      /\ Become(c, WithStub(h)) /\ UNCHANGED <<thread, count>>
  BY DEF Get, managerVars
<1>4. ShellOK(h) /\ h.wait = NoRM /\ h.name = f.name
  <2>1. 0 \in RM
    BY DEF RM, ReplicasAssumption
  <2>2. f \in Shells
    BY <1>1 DEF ShellOK
  <2> HIDE DEF f, K, k
  <2>3. h.wait = f.wait /\ h.name = f.name
    BY <2>2 DEF Shells
  <2>4. ShellOK(h)
    BY <1>1, <2>1, GoesOn
  <2> QED
    BY <1>1, <2>3, <2>4
<1> HIDE DEF k, K
<1>5. /\ stub' \in [Client -> [Name -> RM \cup {Nil}]] /\ stub'[c][f.name] # Nil
      /\ \A d \in Client : d # c => stub'[d] = stub[d]
  <2>1. \A q \in RM : q # Nil
    BY DEF ManagerAssumption, Proc
  <2> QED
    BY <1>1, <1>2, <1>3, <2>1 DEF ShellInv, StubsOK
<1> HIDE DEF f, h
<1>6. PICK pc \in {"returned", "next", "stub"} :
        WithStub(h) = [h EXCEPT !.pc = pc] /\ (pc = "stub" => h.op # "remove")
  BY DEF WithStub
<1>7. /\ ShellOK([h EXCEPT !.pc = pc])
      /\ [h EXCEPT !.pc = pc].name = f.name /\ [h EXCEPT !.pc = pc].wait = NoRM
  <2>1. pc \in ShellPC /\ h \in Shells
    BY <1>4, <1>6 DEF ShellPC, ShellOK
  <2>2. [h EXCEPT !.pc = pc].name = h.name /\ [h EXCEPT !.pc = pc].wait = h.wait
    BY <2>1 DEF Shells
  <2>3. ShellOK([h EXCEPT !.pc = pc])
    BY <1>4, <1>6, <2>1, GoesOn
  <2> QED
    BY <1>4, <2>2, <2>3
<1>8. CountOK'
  BY <1>3 DEF ShellInv, CountOK
<1>9. (\A q \in RM : thread'[c][q] = Idle)
      /\ \A d \in Client, q \in RM : thread'[d][q] = thread[d][q]
  BY <1>1, <1>3
<1> DEFINE g == [h EXCEPT !.pc = pc]
<1>10. Become(c, g) /\ ShellOK(g) /\ g.name = f.name
  BY <1>3, <1>6, <1>7
<1> HIDE DEF g
<1>11. stub'[c][g.name] # Nil
  BY <1>5, <1>10
<1> QED
  BY <1>5, <1>8, <1>9, <1>10, <1>11, Becomes

(* The answer of manager q, or the end of the connection to it.            *)
LEMMA AnswerKeeps ==
    ASSUME ReplicasAssumption, TypeOK, ShellInv, NEW c \in Client, NEW q \in RM,
           Answer(c, q) \/ Lost(c, q)
    PROVE  ShellInv'
<1> DEFINE f == [shell[c] EXCEPT !.wait = NoRM]
<1>1. shell[c].wait = q /\ q # NoRM /\ c \in Proc /\ c \notin RM
  BY NoRMOut DEF Answer, Lost, NoRMIsNoManager, Proc, ReplicasAssumption, Id
<1>2. ShellOK(shell[c]) /\ shell[c].pc \in {"create", "stub", "next"}
  BY <1>1 DEF ShellInv, ShellsOK, ShellOK, Prompt
<1>3. ShellOK(f) /\ f.wait = NoRM /\ f.pc \in {"create", "stub", "next"}
  BY <1>2, GoesOn DEF ShellOK, Shells
<1>4. \A k \in RM : k # q => thread[c][k] = Idle
  BY <1>1 DEF ShellInv, OneRequest
<1> HIDE DEF f
<1>5. CASE Answer(c, q)
  <2>1. thread' = ThreadsAfterReply(c, q) /\ thread[c][q].pc \in {"reply", "error"}
    BY <1>5 DEF Answer, Reply
  <2>2. thread'[c][q] = Idle /\ \A d \in Client, k \in RM :
          ~(d = c /\ k = q) => thread'[d][k] = thread[d][k]
    <3>1. \A k \in RM : k # c
      BY <1>1
    <3> QED
      BY <1>1, <2>1, <3>1 DEF ThreadsAfterReply, Proc
  <2>3. thread[c][q].res \in Value \cup {Nil}
    <3>1. thread[c][q] \in Frame
      BY <1>1, <2>1, ActiveFrame
    <3> QED
      BY <3>1 DEF Frame
  <2>4. PICK h \in {Answered(f, thread[c][q].res), Failed(f)} : Become(c, h)
    BY <1>5 DEF Answer, f
  <2>5. ReadyShell(h)
    BY <1>3, <2>3, <2>4, AnsweredReady, FailedReady
  <2>6. UNCHANGED <<stub, count>>
    BY <1>5 DEF Answer
  <2> QED
    BY <1>4, <2>2, <2>4, <2>5, <2>6, MovesShell
<1>6. CASE Lost(c, q)
  <2>1. thread[c][q] = Idle /\ Become(c, Failed(f)) /\ UNCHANGED <<vars, stub, count>>
    BY <1>6 DEF Lost, f
  <2>2. ReadyShell(Failed(f))
    BY <1>3, FailedReady
  <2>3. thread' = thread /\ \A k \in RM : thread[c][k] = Idle
    BY <1>4, <2>1 DEF vars
  <2> QED
    BY <2>1, <2>2, <2>3, MovesShell
<1> QED
  BY <1>5, <1>6

LEMMA ClientStepKeeps ==
    ASSUME ReplicasAssumption, ManagerAssumption, TypeOK, ShellInv, NEW c \in Client,
           ClientStep(c)
    PROVE  ShellInv'
<1>1. CASE Return(c)
  <2>1. In(c, "returned") /\ Become(c, Prompt) /\ UNCHANGED <<stub, count>> /\ thread' = thread
    BY <1>1 DEF Return, vars
  <2>2. \A q \in RM : thread[c][q] = Idle
    BY <2>1, InCommand DEF ShellPC
  <2> QED
    BY <2>1, <2>2, MovesShell
<1>2. CASE CreateAt(c) \/ CallNext(c)
  BY <1>2, AskKeeps, CallTarget DEF CreateAt, CallNext
<1>3. CASE CallStub(c)
  BY <1>3, AskKeeps, CallTarget DEF CallStub
<1> QED
  BY <1>1, <1>2, <1>3, ScanKeeps, GetKeeps, AnswerKeeps DEF ClientStep

(* The shell's process ends at the prompt, where it has no request.        *)
LEMMA QuitKeeps ==
    ASSUME ReplicasAssumption, ShellAssumption, ShellInv, NEW c \in Client, Quit(c)
    PROVE  ShellInv'
<1>1. /\ In(c, "shell") /\ UNCHANGED <<thread, shell>>
      /\ stub' = [stub EXCEPT ![c] = [n \in Name |-> Nil]]
  BY DEF Quit, managerVars
<1>2. CountOK'
  <2>1. count' = [count EXCEPT !.commands = @ + 1] /\ count.commands < MaxCommand
    BY DEF Quit
  <2> QED
    BY <2>1 DEF ShellInv, CountOK, ShellAssumption
<1>3. stub' \in [Client -> [Name -> RM \cup {Nil}]] /\ \A d \in Client : d # c => stub'[d] = stub[d]
  BY <1>1 DEF ShellInv, StubsOK
<1>4. StubsOK'
  BY <1>1, <1>3 DEF ShellInv, StubsOK, In
<1> QED
  BY <1>1, <1>2, <1>4 DEF ShellInv, ShellsOK, OneRequest

LEMMA ShellStep ==
    ASSUME ReplicasAssumption, ManagerAssumption, ShellAssumption, TypeOK, ShellInv,
           [FrontEndNext]_feVars
    PROVE  ShellInv'
<1>1. ASSUME NEW c \in Client, NEW r \in RM, ServeClient(c, r)
      PROVE  ShellInv'
  BY <1>1, ServesShells DEF ServeClient, Step, ManagerStep, Proc, shellVars, CountOK, ShellInv
<1>2. ASSUME NEW p \in RM, NEW r \in RM, ServeManager(p, r)
      PROVE  ShellInv'
  BY <1>2, ServesShells DEF ServeManager, ManagerStep, Proc, shellVars, CountOK, ShellInv
<1>3. ASSUME NEW r \in RM, Fail(r)
      PROVE  ShellInv'
  <2>1. CountOK'
    <3>1. count' = [count EXCEPT !.exits = @ + 1] /\ count.exits < MaxExit
      BY <1>3 DEF Fail
    <3> QED
      BY <3>1 DEF ShellInv, CountOK, ShellAssumption
  <2> QED
    BY <1>3, <2>1, ServesShells DEF Fail, ManagerStep
<1>4. ASSUME NEW r \in RM, Restart(r)
      PROVE  ShellInv'
  <2>1. CountOK'
    <3>1. count' = [count EXCEPT !.starts = @ + 1] /\ count.starts < MaxStart
      BY <1>4 DEF Restart
    <3> QED
      BY <3>1 DEF ShellInv, CountOK, ShellAssumption
  <2> QED
    BY <1>4, <2>1, ServesShells DEF Restart, ManagerStep
<1>5. CASE UNCHANGED feVars
  BY <1>5 DEF feVars, vars, ShellInv, ShellsOK, StubsOK, CountOK, OneRequest, In
<1> QED
  BY <1>1, <1>2, <1>3, <1>4, <1>5, TypeCommandKeeps, QuitKeeps, ClientStepKeeps
  DEF FrontEndNext

LEMMA ShellInit ==
    ASSUME ShellAssumption, FrontEndInit
    PROVE  ShellInv
<1>1. DOMAIN shell = Client /\ ShellsOK /\ OneRequest
  BY DEF FrontEndInit, ShellsOK, OneRequest, Init, Proc
<1>2. StubsOK
  BY DEF FrontEndInit, StubsOK, In, Prompt
<1>3. CountOK
  BY DEF FrontEndInit, CountOK, ShellAssumption
<1> QED
  BY <1>1, <1>2, <1>3 DEF ShellInv

-----------------------------------------------------------------------------
(* The whole system: client processes and managers                         *)

(* The invariants that each component's proof needs of the other: the      *)
(* shell's, for which the managers are "some ManagerStep", and those of    *)
(* the managers, for which the front end is "some OpenNext".               *)
SystemInv == TypeOK /\ LockOwner /\ WaitInv /\ ShellInv

LEMMA SystemInvariant == FrontEndSpec => []SystemInv
<1> USE ReplicasAssumption, ManagerAssumption, ShellAssumption
<1>1. FrontEndInit => SystemInv
  <2>1. Init => LockOwner
    BY DEF Init, LockOwner, ManagerAssumption
  <2> QED
    BY <2>1, TypeInit, WaitInit, ShellInit DEF FrontEndInit, SystemInv
<1>2. SystemInv /\ [FrontEndNext]_feVars => SystemInv'
  BY FrontEndIsOpen, TypedOps, TypeStep, LockOwnerStep, WaitStep, ShellStep DEF SystemInv
<1> QED
  BY <1>1, <1>2, PTL DEF FrontEndSpec

(***************************************************************************)
(* A shell's command is always one that was typed, it waits for a manager  *)
(* only inside one of its calls, and the stub that it calls exists, also   *)
(* when get() found no manager and when the process was started anew.      *)
(***************************************************************************)
THEOREM ShellTypeCorrect == FrontEndSpec => []ShellTypeOK
<1>1. SystemInv => ShellTypeOK
  BY DEF SystemInv, ShellInv, ShellTypeOK, ShellsOK, ShellOK, Shells, ShellPC, StubsOK, CountOK
<1> QED
  BY <1>1, SystemInvariant, PTL

(***************************************************************************)
(* With the real client processes as the managers' environment, their      *)
(* types are kept, no thread goes on with the mutex locked, and a thread   *)
(* that waits for a manager waits alone for a request being served.        *)
(***************************************************************************)
THEOREM FrontEndIsSafe == FrontEndSpec => [](TypeOK /\ LockOwner /\ WaitsForAnswer)
<1>1. SystemInv => TypeOK /\ LockOwner /\ WaitsForAnswer
  BY DEF SystemInv, WaitInv
<1> QED
  BY <1>1, SystemInvariant, PTL

(***************************************************************************)
(* While no user types apply, at most one thread of a manager is in a      *)
(* critical section of replaceRM() or the handlers.                        *)
(***************************************************************************)
THEOREM FrontEndExcludes ==
    ASSUME "apply" \notin TypedOp
    PROVE  FrontEndSpec => []MutualExclusion
<1> USE ReplicasAssumption, ManagerAssumption
<1> DEFINE Inv == NoApply /\ CriticalOwns
<1>1. FrontEndInit => Inv
  BY DEF FrontEndInit, Init, NoApply, CriticalOwns, InCritical, Critical, Idle
<1>2. SystemInv /\ Inv /\ [FrontEndNext]_feVars => Inv'
  BY FrontEndIsOpen, ExclusionStep DEF SystemInv
<1>3. SystemInv /\ Inv => MutualExclusion
  BY DEF CriticalOwns, MutualExclusion, SystemInv
<1> HIDE DEF Inv
<1> QED
  BY <1>1, <1>2, <1>3, SystemInvariant, PTL DEF FrontEndSpec

(***************************************************************************)
(* While no user types remove, and if there are two machines none types    *)
(* apply, every host of a machine is on its own list of the group, and no  *)
(* manager's process aborts: every create() finds managers to ping, a list *)
(* that replaceRM() finds pruned has an element left to select from.       *)
(***************************************************************************)
THEOREM FrontEndNeverAborts ==
    ASSUME "remove" \notin TypedOp, "apply" \in TypedOp => OneName
    PROVE  FrontEndSpec => [](SelfListed /\ NoAbort)
<1> USE ReplicasAssumption, ManagerAssumption
<1> DEFINE Inv == ListInv /\ NoAbort
<1>1. FrontEndInit => Inv
  BY ListInit DEF FrontEndInit
<1>2. SystemInv /\ Inv /\ [FrontEndNext]_feVars => Inv'
  BY FrontEndIsOpen, ListStep DEF SystemInv, WaitInv
<1>3. Inv => SelfListed /\ NoAbort
  BY DEF ListInv, OnOwnLists, SelfListed
<1> HIDE DEF Inv
<1> QED
  BY <1>1, <1>2, <1>3, SystemInvariant, PTL DEF FrontEndSpec
=============================================================================
