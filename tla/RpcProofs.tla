------------------------------ MODULE RpcProofs ------------------------------
(***************************************************************************)
(* Calls over a connection: what a call writes is what the handler reads,  *)
(* and the other way round, an open connection waits for a thread of the   *)
(* manager or has one, and a process that takes turns gets its own answers.*)
(***************************************************************************)
EXTENDS ReplicaRpc, FiniteSetTheorems, TLAPS

-----------------------------------------------------------------------------
(* What is written to a connection and read from it                        *)

Method == {"create", "apply", "getState", "remove", "numMachines", "hasStateMachine", "exit"}

LEMMA Methods ==
    /\ DOMAIN ReplicaClient = Method /\ DOMAIN ProcessMap = Method
    /\ \A m \in Method : ReplicaClient[m].call = m
BY DEF Method, ReplicaClient, ProcessMap, ClientCreate, ClientApply, ClientGetState, ClientRemove,
       ClientNumMachines, ClientHasStateMachine, ClientExit

LEMMA OnewayIsExit == Oneway = {"exit"}
<1>1. \A m \in Method : "result" \in DOMAIN ReplicaClient[m] <=> m # "exit"
  BY DEF Method, ReplicaClient, ClientCreate, ClientApply, ClientGetState, ClientRemove,
         ClientNumMachines, ClientHasStateMachine, ClientExit
<1> QED
  BY <1>1, Methods DEF Oneway, Method

(* A schema's fields have different names.                                 *)
Distinct(schema) ==
    \A i, j \in DOMAIN schema : schema[i].name = schema[j].name => i = j

(* What is set in a struct is read as it was written.                      *)
LEMMA ReadWrite ==
    ASSUME NEW schema, Distinct(schema), NEW D \in SUBSET {schema[i].name : i \in DOMAIN schema},
           NEW X, NEW s \in [D -> X]
    PROVE  Read(schema, Write(schema, s)) = s
<1> DEFINE I == {i \in DOMAIN schema : schema[i].name \in D}
           w == [i \in I |-> [type |-> schema[i].type, val |-> s[schema[i].name]]]
<1>1. Write(schema, s) = w
  BY DEF Write
<1>2. \A i \in I : w[i].type = schema[i].type /\ w[i].val = s[schema[i].name]
  OBVIOUS
<1>3. DOMAIN w = I /\ I \subseteq DOMAIN schema
  OBVIOUS
<1>4. {schema[i].name : i \in I} = D /\ \A i \in I : schema[i].name \in D
  OBVIOUS
<1> HIDE DEF w
<1>5. {i \in DOMAIN schema \cap DOMAIN w : w[i].type = schema[i].type} = I
  BY <1>2, <1>3
<1> HIDE DEF I
<1>6. \A n \in D : w[CHOOSE i \in I : schema[i].name = n].val = s[n]
  BY <1>2, <1>3, <1>4 DEF Distinct
<1>7. Read(schema, w) = [n \in D |-> w[CHOOSE i \in I : schema[i].name = n].val]
  <2> DEFINE J == {i \in DOMAIN schema \cap DOMAIN w : w[i].type = schema[i].type}
  <2>1. Read(schema, w) = [n \in {schema[i].name : i \in J} |->
                              w[CHOOSE i \in J : schema[i].name = n].val]
    BY DEF Read
  <2>2. J = I
    BY <1>5
  <2> HIDE DEF J
  <2> QED
    BY <1>4, <2>1, <2>2
<1> QED
  BY <1>1, <1>6, <1>7

(* A handler finds the arguments of the call that it serves.               *)
LEMMA ArgsAreRead ==
    ASSUME NEW m \in Method, NEW k
    PROVE  ReadArgs(ProcessMap[m].args, Write(ReplicaClient[m].args, Struct(ReplicaClient[m].args, k)))
                = Struct(ReplicaClient[m].args, k)
<1> DEFINE schema == ReplicaClient[m].args
<1>1. ProcessMap[m].args = schema
  BY DEF Method, ReplicaClient, ProcessMap, ClientCreate, ClientApply, ClientGetState, ClientRemove,
         ClientNumMachines, ClientHasStateMachine, ClientExit, ProcessCreate, ProcessApply,
         ProcessGetState, ProcessRemove, ProcessNumMachines, ProcessHasStateMachine, ProcessExit,
         CreateArgs, CreatePargs, ApplyArgs, ApplyPargs, GetStateArgs, GetStatePargs, RemoveArgs,
         RemovePargs, NumMachinesArgs, NumMachinesPargs, HasStateMachineArgs,
         HasStateMachinePargs, ExitArgs, ExitPargs
<1>2. Distinct(schema)
  BY DEF Method, ReplicaClient, ClientCreate, ClientApply, ClientGetState, ClientRemove,
         ClientNumMachines, ClientHasStateMachine, ClientExit, CreatePargs, ApplyPargs,
         GetStatePargs, RemovePargs, NumMachinesPargs, HasStateMachinePargs, ExitPargs, Distinct,
         Field, Name, InitialState, RMs, Operation, FromFrontEnd
<1> HIDE DEF schema
<1> DEFINE names == {schema[i].name : i \in DOMAIN schema}
           s == Struct(schema, k)
<1>3. s \in [names -> {<<n, k>> : n \in names}] /\ DOMAIN s = names
  BY DEF Struct
<1> HIDE DEF s
<1>4. Read(schema, Write(schema, s)) = s
  BY <1>2, <1>3, ReadWrite
<1>5. \A r : r = s => [n \in DOMAIN Struct(schema, 0) |->
                          IF n \in DOMAIN r THEN r[n] ELSE Struct(schema, 0)[n]] = s
  BY <1>3 DEF Struct
<1> QED
  BY <1>1, <1>4, <1>5 DEF ReadArgs, schema, s

LEMMA FieldIsRead ==
    ASSUME NEW schema, Distinct(schema), NEW i \in DOMAIN schema, NEW s,
           DOMAIN s = {schema[i].name}, s \in [{schema[i].name} -> {s[schema[i].name]}]
    PROVE  Read(schema, Write(schema, s)) = s
BY ReadWrite

LEMMA ErrorIsRead ==
    ASSUME NEW t, NEW schema \in {E, Success(t)}, NEW k
    PROVE  ReadResult(schema, WriteResult(schema, [e |-> Struct(ErrorFields, k)]))
                = [e |-> Struct(ErrorFields, k)]
<1> DEFINE S == Struct(ErrorFields, k)
           W == Write(ErrorFields, S)
           r == [e |-> W]
<1>1. Read(ErrorFields, W) = S
  <2>1. Distinct(ErrorFields)
    BY DEF Distinct, ErrorFields, Field
  <2> DEFINE D == {ErrorFields[i].name : i \in DOMAIN ErrorFields}
  <2>2. S \in [D -> {<<n, k>> : n \in D}]
    BY DEF Struct
  <2> HIDE DEF D
  <2> QED
    BY <2>1, <2>2, ReadWrite DEF D
<1> HIDE DEF S
<1>2. WriteResult(schema, [e |-> S]) = Write(schema, r)
  BY DEF WriteResult
<1> HIDE DEF W
<1>3. Read(schema, Write(schema, r)) = r
  <2>1. Distinct(schema) /\ 1 \in DOMAIN schema /\ schema[1].name = "e"
    BY DEF Distinct, E, Success, Field
  <2> QED
    BY <2>1, FieldIsRead
<1>4. ReadResult(schema, Write(schema, r)) = [e |-> S]
  BY <1>1, <1>3 DEF ReadResult
<1> QED
  BY <1>2, <1>4 DEF S

LEMMA ValueIsRead ==
    ASSUME NEW t, NEW v
    PROVE  ReadResult(Success(t), WriteResult(Success(t), [success |-> v])) = [success |-> v]
<1> DEFINE schema == Success(t)
           r == [success |-> v]
<1>1. WriteResult(schema, r) = Write(schema, r)
  BY DEF WriteResult
<1>2. Distinct(schema) /\ 0 \in DOMAIN schema /\ schema[0].name = "success"
  BY DEF Distinct, E, Success, Field
<1> HIDE DEF schema
<1>3. Read(schema, Write(schema, r)) = r
  BY <1>2, FieldIsRead
<1> QED
  BY <1>1, <1>3 DEF ReadResult, schema

LEMMA NothingIsRead ==
    DOMAIN ReadResult(E, WriteResult(E, <<>>)) = {}
<1>1. DOMAIN WriteResult(E, <<>>) = {}
  BY DEF WriteResult, Write
<1> QED
  BY <1>1 DEF ReadResult, Read

LEMMA ResultSchemas ==
    ASSUME NEW m \in Method \ Oneway
    PROVE  /\ ProcessMap[m].reply = m /\ ProcessMap[m].result = ReplicaClient[m].result
           /\ m \in Void => ReplicaClient[m].result = E
           /\ m \notin Void => \E t : ReplicaClient[m].result = Success(t)
<1>1. /\ m \in {"create", "remove"} => ReplicaClient[m].result = E
      /\ m \notin {"create", "remove"} => \E t : ReplicaClient[m].result = Success(t)
  BY OnewayIsExit DEF Method, ReplicaClient, ClientCreate, ClientApply, ClientGetState, ClientRemove,
     ClientNumMachines, ClientHasStateMachine, CreatePresult, ApplyPresult, GetStatePresult,
     RemovePresult, NumMachinesPresult, HasStateMachinePresult
<1>2. 0 \notin DOMAIN E /\ \A t : 0 \in DOMAIN Success(t)
  BY DEF E, Success
<1>3. m \in Void <=> m \in {"create", "remove"}
  BY <1>1, <1>2, Methods DEF Void
<1>4. ProcessMap[m].reply = m /\ ProcessMap[m].result = ReplicaClient[m].result
  BY OnewayIsExit DEF Method, ReplicaClient, ProcessMap, ClientCreate, ClientApply, ClientGetState,
     ClientRemove, ClientNumMachines, ClientHasStateMachine, ProcessCreate, ProcessApply,
     ProcessGetState, ProcessRemove, ProcessNumMachines, ProcessHasStateMachine, CreatePresult,
     ApplyPresult, GetStatePresult, RemovePresult, NumMachinesPresult, HasStateMachinePresult,
     CreateResult, ApplyResult, GetStateResult, RemoveResult, NumMachinesResult,
     HasStateMachineResult
<1> QED
  BY <1>1, <1>3, <1>4

(* A caller reads what the handler has returned or thrown.                 *)
LEMMA OutcomeIsRead ==
    ASSUME NEW m \in Method \ Oneway, NEW k, NEW out \in Outcomes(m, k), out # Thrown,
           NEW r, r = Result(m, ReadResult(ReplicaClient[m].result,
                                           WriteResult(ProcessMap[m].result, out.struct)))
    PROVE  r.kind = out.kind /\ r.struct = out.struct
<1> DEFINE schema == ReplicaClient[m].result
<1>1. r = Result(m, ReadResult(schema, WriteResult(schema, out.struct)))
  BY ResultSchemas
<1>2. PICK t : schema \in {E, Success(t)}
  BY ResultSchemas
<1> HIDE DEF schema
<1>3. CASE out = Error(k)
  <2>1. r = Result(m, [e |-> Struct(ErrorFields, k)])
    BY <1>1, <1>2, <1>3, ErrorIsRead DEF Error, Outcome
  <2> QED
    BY <1>3, <2>1 DEF Result, Error, Outcome
<1>4. CASE m \notin Void /\ out = Value(k)
  <2>1. PICK u : schema = Success(u)
    BY <1>4, ResultSchemas DEF schema
  <2>2. r = Result(m, [success |-> <<"success", k>>])
    BY <1>1, <1>4, <2>1, ValueIsRead DEF Value, Outcome
  <2> QED
    BY <1>4, <2>2 DEF Result, Value, Outcome
<1>5. CASE m \in Void /\ out = Done
  <2>1. schema = E
    BY <1>5, ResultSchemas DEF schema
  <2>2. r = Done
    BY <1>1, <1>5, <2>1, NothingIsRead DEF Result, Done, Outcome
  <2> QED
    BY <1>5, <2>2
<1> QED
  BY <1>3, <1>4, <1>5 DEF Outcomes

-----------------------------------------------------------------------------
(* Connections and threads                                                 *)

(* The records that steps update field by field.                           *)
Shapes ==
    /\ DOMAIN caller = Process /\ DOMAIN done = Process /\ DOMAIN link = Process
    /\ DOMAIN worker = Process
    /\ \A p \in Process :
        /\ DOMAIN caller[p] = Thread /\ DOMAIN done[p] = Thread
        /\ DOMAIN link[p] = {"state", "toServer", "toClient"}
        /\ \A t \in Thread : DOMAIN caller[p][t] = {"pc", "method", "k", "skipped", "out"}

(* No connection waits twice, and the threads of the pool can be counted.  *)
QueueOK ==
    /\ waiting \in Seq(Process)
    /\ \A i, j \in DOMAIN waiting : waiting[i] = waiting[j] => i = j
    /\ pool \subseteq Process /\ IsFiniteSet(pool)

RpcTypeInv == Shapes /\ QueueOK /\ RpcTypeOK

LEMMA RpcTypeInit ==
    ASSUME RpcAssumption, RpcInit
    PROVE  RpcTypeInv
<1>1. Shapes
  BY DEF RpcInit, Shapes, Ready, NoLink
<1>2. QueueOK
  BY FS_EmptySet DEF RpcInit, QueueOK
<1>3. RpcTypeOK
  BY FS_EmptySet, Methods DEF RpcInit, RpcTypeOK, RpcAssumption, Ready, NoLink, InCall, Method
<1> QED
  BY <1>1, <1>2, <1>3 DEF RpcTypeInv

(* A step of a caller that leaves the manager and the connections' states. *)
LEMMA CallerMoves ==
    ASSUME RpcTypeInv, NEW p \in Process, NEW t \in Thread, NEW c, Become(p, t, c),
           DOMAIN c = {"pc", "method", "k", "skipped", "out"},
           c.pc \in {"ready", "send", "receive", "returned"}, c.method \in DOMAIN ReplicaClient,
           c.pc # "ready" => InCall(p, t),
           DOMAIN link' = Process,
           \A q \in Process :
              DOMAIN link'[q] = {"state", "toServer", "toClient"} /\ link'[q].state = link[q].state,
           DOMAIN done' = Process, \A q \in Process : DOMAIN done'[q] = Thread,
           UNCHANGED <<waiting, pool, worker, up, calls>>
    PROVE  RpcTypeInv'
<1>1. /\ DOMAIN caller' = Process /\ \A q \in Process : DOMAIN caller'[q] = Thread
      /\ \A q \in Process, u \in Thread :
            caller'[q][u] = IF q = p /\ u = t THEN c ELSE caller[q][u]
  BY DEF RpcTypeInv, Shapes, Become
<1>2. Shapes'
  BY <1>1 DEF RpcTypeInv, Shapes
<1>3. QueueOK'
  BY DEF RpcTypeInv, QueueOK
<1>4. RpcTypeOK'
  BY <1>1 DEF RpcTypeInv, RpcTypeOK, InCall
<1> QED
  BY <1>2, <1>3, <1>4 DEF RpcTypeInv

LEMMA ReturnsMoves ==
    ASSUME RpcTypeInv, NEW p \in Process, NEW t \in Thread, NEW out, Returns(p, t, out),
           InCall(p, t), DOMAIN link' = Process,
           \A q \in Process :
              DOMAIN link'[q] = {"state", "toServer", "toClient"} /\ link'[q].state = link[q].state,
           UNCHANGED <<waiting, pool, worker, up, calls, done>>
    PROVE  RpcTypeInv'
<1> DEFINE c == [caller[p][t] EXCEPT !.pc = "returned", !.skipped = FALSE, !.out = out]
<1>1. /\ DOMAIN c = {"pc", "method", "k", "skipped", "out"}
      /\ c.pc = "returned" /\ c.method = caller[p][t].method
  BY DEF RpcTypeInv, Shapes
<1>2. Become(p, t, c)
  BY DEF Returns
<1>3. caller[p][t].method \in DOMAIN ReplicaClient /\ DOMAIN done' = Process
      /\ \A q \in Process : DOMAIN done'[q] = Thread
  BY DEF RpcTypeInv, RpcTypeOK, Shapes
<1> HIDE DEF c
<1> QED
  BY <1>1, <1>2, <1>3, CallerMoves

LEMMA CallerTypes ==
    ASSUME RpcTypeInv, NEW p \in Process, NEW t \in Thread, CallerStep(p, t)
    PROVE  RpcTypeInv'
<1> DEFINE c == caller[p][t]
<1>0. /\ DOMAIN c = {"pc", "method", "k", "skipped", "out"} /\ c.method \in DOMAIN ReplicaClient
      /\ DOMAIN link = Process /\ DOMAIN done = Process /\ DOMAIN done[p] = Thread
      /\ \A q \in Process : DOMAIN link[q] = {"state", "toServer", "toClient"} /\ DOMAIN done[q] = Thread
  BY DEF RpcTypeInv, RpcTypeOK, Shapes
<1>1. CASE SendCall(p, t)
  <2>1. /\ DOMAIN link' = Process
        /\ \A q \in Process :
             DOMAIN link'[q] = {"state", "toServer", "toClient"} /\ link'[q].state = link[q].state
    BY <1>0, <1>1 DEF SendCall
  <2>2. InCall(p, t) /\ UNCHANGED <<waiting, pool, worker, up, calls, done>>
    BY <1>1 DEF SendCall, InCall
  <2>3. (\E out : Returns(p, t, out)) \/ Become(p, t, [c EXCEPT !.pc = "receive"])
    BY <1>1 DEF SendCall
  <2>4. CASE Become(p, t, [c EXCEPT !.pc = "receive"])
    <3> DEFINE d == [c EXCEPT !.pc = "receive"]
    <3>1. DOMAIN d = DOMAIN c /\ d.pc = "receive" /\ d.method = c.method
      BY <1>0
    <3> HIDE DEF d, c
    <3>2. Become(p, t, d)
      BY <2>4 DEF d
    <3> QED
      BY <1>0, <2>1, <2>2, <3>1, <3>2, CallerMoves DEF c
  <2> QED
    BY <2>1, <2>2, <2>3, <2>4, ReturnsMoves
<1>2. CASE Receive(p, t)
  <2>1. /\ DOMAIN link' = Process
        /\ \A q \in Process :
             DOMAIN link'[q] = {"state", "toServer", "toClient"} /\ link'[q].state = link[q].state
    BY <1>0, <1>2 DEF Receive
  <2>2. InCall(p, t) /\ UNCHANGED <<waiting, pool, worker, up, calls, done>>
    BY <1>2 DEF Receive, InCall
  <2>3. (\E out : Returns(p, t, out)) \/ Become(p, t, [c EXCEPT !.skipped = TRUE])
    BY <1>2 DEF Receive
  <2>4. CASE Become(p, t, [c EXCEPT !.skipped = TRUE])
    <3> DEFINE d == [c EXCEPT !.skipped = TRUE]
    <3>1. DOMAIN d = DOMAIN c /\ d.pc = "receive" /\ d.method = c.method
      BY <1>0, <1>2 DEF Receive
    <3> HIDE DEF d, c
    <3>2. Become(p, t, d)
      BY <2>4 DEF d
    <3> QED
      BY <1>0, <2>1, <2>2, <3>1, <3>2, CallerMoves DEF c
  <2> QED
    BY <2>1, <2>2, <2>3, <2>4, ReturnsMoves
<1>3. CASE Fail(p, t)
  BY <1>0, <1>3, ReturnsMoves DEF Fail, InCall
<1>4. CASE Return(p, t)
  <2>1. DOMAIN done' = Process /\ \A q \in Process : DOMAIN done'[q] = Thread
    BY <1>0, <1>4 DEF Return
  <2>2. /\ DOMAIN Ready = {"pc", "method", "k", "skipped", "out"} /\ Ready.pc = "ready"
        /\ Ready.method \in DOMAIN ReplicaClient
    BY Methods DEF Ready, Method
  <2> QED
    BY <1>0, <1>4, <2>1, <2>2, CallerMoves DEF Return
<1> QED
  BY <1>1, <1>2, <1>3, <1>4 DEF CallerStep

LEMMA CallTypes ==
    ASSUME RpcAssumption, RpcTypeInv, NEW p \in Process, NEW t \in Thread, Call(p, t)
    PROVE  RpcTypeInv'
<1>1. PICK m \in DOMAIN ReplicaClient :
        Become(p, t, [Ready EXCEPT !.pc = "send", !.method = m, !.k = calls'])
  BY DEF Call
<1> DEFINE c == [Ready EXCEPT !.pc = "send", !.method = m, !.k = calls']
<1>2. DOMAIN c = {"pc", "method", "k", "skipped", "out"} /\ c.pc = "send" /\ c.method = m
  BY DEF Ready
<1>3. Become(p, t, c)
  BY <1>1
<1> HIDE DEF c
<1>4. /\ DOMAIN caller' = Process /\ \A q \in Process : DOMAIN caller'[q] = Thread
      /\ \A q \in Process, u \in Thread :
            caller'[q][u] = IF q = p /\ u = t THEN c ELSE caller[q][u]
  BY <1>3 DEF RpcTypeInv, Shapes, Become
<1>5. /\ UNCHANGED <<pool, worker, up, done>> /\ calls' \in 0 .. MaxCall
      /\ link[p].state \in {"none", "open", "closed"}
  BY DEF Call, RpcTypeInv, RpcTypeOK, RpcAssumption
<1>6. CASE link[p].state # "none"
  <2>1. UNCHANGED <<link, waiting>>
    BY <1>6 DEF Call
  <2>2. Shapes' /\ QueueOK'
    BY <1>2, <1>4, <1>5, <2>1 DEF RpcTypeInv, Shapes, QueueOK
  <2>3. RpcTypeOK'
    BY <1>2, <1>4, <1>5, <1>6, <2>1 DEF RpcTypeInv, RpcTypeOK, InCall
  <2> QED
    BY <2>2, <2>3 DEF RpcTypeInv
<1>7. CASE link[p].state = "none" /\ ~up
  <2>1. link' = [link EXCEPT ![p].state = "closed"] /\ waiting' = waiting
    BY <1>7 DEF Call
  <2>2. /\ DOMAIN link' = Process /\ link'[p].state = "closed"
        /\ DOMAIN link'[p] = {"state", "toServer", "toClient"}
        /\ \A q \in Process : q # p => link'[q] = link[q]
    BY <2>1 DEF RpcTypeInv, Shapes
  <2>3. Shapes' /\ QueueOK'
    BY <1>2, <1>4, <1>5, <2>1, <2>2 DEF RpcTypeInv, Shapes, QueueOK
  <2>4. RpcTypeOK'
    BY <1>2, <1>4, <1>5, <1>7, <2>1, <2>2 DEF RpcTypeInv, RpcTypeOK, InCall
  <2> QED
    BY <2>3, <2>4 DEF RpcTypeInv
<1>8. CASE link[p].state = "none" /\ up
  <2>1. link' = [link EXCEPT ![p].state = "open"] /\ waiting' = Append(waiting, p)
    BY <1>8 DEF Call
  <2>2. /\ DOMAIN link' = Process /\ link'[p].state = "open"
        /\ DOMAIN link'[p] = {"state", "toServer", "toClient"}
        /\ \A q \in Process : q # p => link'[q] = link[q]
    BY <2>1 DEF RpcTypeInv, Shapes
  <2>3. p \notin pool /\ \A i \in DOMAIN waiting : waiting[i] # p
    BY <1>8 DEF RpcTypeInv, RpcTypeOK
  <2>4. /\ waiting \in Seq(Process) /\ waiting' \in Seq(Process)
        /\ Len(waiting') = Len(waiting) + 1 /\ Len(waiting) \in Nat /\ waiting'[Len(waiting) + 1] = p
        /\ \A i \in 1 .. Len(waiting) : waiting'[i] = waiting[i]
    BY <2>1 DEF RpcTypeInv, QueueOK
  <2>5. Shapes'
    BY <1>2, <1>4, <1>5, <2>2 DEF RpcTypeInv, Shapes
  <2>6. QueueOK'
    BY <1>5, <2>3, <2>4 DEF RpcTypeInv, QueueOK
  <2>7. \A q \in Process : (\E i \in DOMAIN waiting' : waiting'[i] = q) <=>
            q = p \/ \E i \in DOMAIN waiting : waiting[i] = q
    BY <2>4
  <2>8. \A i \in DOMAIN waiting' : waiting'[i] \notin pool
    BY <2>3, <2>4 DEF RpcTypeInv, RpcTypeOK
  <2>9. RpcTypeOK'
    BY <1>2, <1>4, <1>5, <1>8, <2>2, <2>7, <2>8 DEF RpcTypeInv, RpcTypeOK, InCall
  <2> QED
    BY <2>5, <2>6, <2>9 DEF RpcTypeInv
<1> QED
  BY <1>5, <1>6, <1>7, <1>8

LEMMA LeaveTypes ==
    ASSUME RpcTypeInv, NEW p \in Process, Leave(p)
    PROVE  RpcTypeInv'
<1>1. /\ DOMAIN link' = Process /\ DOMAIN link'[p] = {"state", "toServer", "toClient"}
      /\ link'[p].state = IF link[p].state = "closed" THEN "none" ELSE "left"
      /\ \A q \in Process : q # p => link'[q] = link[q]
  BY DEF Leave, RpcTypeInv, Shapes, NoLink
<1>2. /\ UNCHANGED <<caller, waiting, pool, worker, up, calls, done>>
      /\ link[p].state \in {"open", "closed"} /\ \A t \in Thread : ~InCall(p, t)
  BY DEF Leave
<1>3. Shapes' /\ QueueOK'
  BY <1>1, <1>2 DEF RpcTypeInv, Shapes, QueueOK
<1>4. RpcTypeOK'
  BY <1>1, <1>2 DEF RpcTypeInv, RpcTypeOK, InCall
<1> QED
  BY <1>3, <1>4 DEF RpcTypeInv

LEMMA AcceptTypes ==
    ASSUME RpcAssumption, RpcTypeInv, Accept
    PROVE  RpcTypeInv'
<1> DEFINE p == Head(waiting)
<1>1. /\ waiting # <<>> /\ Cardinality(pool) < PoolSize /\ pool' = pool \cup {p}
      /\ waiting' = Tail(waiting) /\ UNCHANGED <<caller, link, worker, up, calls, done>>
  BY DEF Accept
<1>2. /\ waiting \in Seq(Process) /\ Len(waiting) \in Nat \ {0} /\ waiting[1] = p
      /\ waiting' \in Seq(Process) /\ Len(waiting') = Len(waiting) - 1
      /\ \A i \in 1 .. Len(waiting) - 1 : waiting'[i] = waiting[i + 1]
  BY <1>1 DEF RpcTypeInv, QueueOK
<1> HIDE DEF p
<1>3. \A i, j \in 1 .. Len(waiting) : waiting[i] = waiting[j] => i = j
  BY <1>2 DEF RpcTypeInv, QueueOK
<1>4. p \in Process /\ p \notin pool
  BY <1>2 DEF RpcTypeInv, RpcTypeOK
<1>5. \A i \in 1 .. Len(waiting') : waiting'[i] # p /\ waiting'[i] \notin pool
  <2> SUFFICES ASSUME NEW i \in 1 .. Len(waiting') PROVE waiting'[i] # p /\ waiting'[i] \notin pool
    OBVIOUS
  <2>1. i + 1 \in DOMAIN waiting /\ waiting'[i] = waiting[i + 1] /\ i + 1 # 1
    BY <1>2
  <2>2. waiting'[i] \notin pool
    BY <2>1 DEF RpcTypeInv, RpcTypeOK
  <2>3. waiting'[i] # p
    BY <1>2, <1>3, <2>1
  <2> QED
    BY <2>2, <2>3
<1>6. \A q \in Process : (\E i \in 1 .. Len(waiting) : waiting[i] = q) <=>
          q = p \/ \E i \in 1 .. Len(waiting') : waiting'[i] = q
  <2> SUFFICES ASSUME NEW q \in Process
               PROVE  (\E i \in 1 .. Len(waiting) : waiting[i] = q) <=>
                          q = p \/ \E i \in 1 .. Len(waiting') : waiting'[i] = q
    OBVIOUS
  <2>1. ASSUME NEW i \in 1 .. Len(waiting), waiting[i] = q
        PROVE  q = p \/ \E j \in 1 .. Len(waiting') : waiting'[j] = q
    <3>1. CASE i = 1
      BY <1>2, <2>1, <3>1
    <3>2. CASE i # 1
      <4>1. i - 1 \in 1 .. Len(waiting') /\ waiting'[i - 1] = q
        BY <1>2, <2>1, <3>2
      <4> QED
        BY <4>1
    <3> QED
      BY <3>1, <3>2
  <2>2. ASSUME NEW i \in 1 .. Len(waiting'), waiting'[i] = q
        PROVE  \E j \in 1 .. Len(waiting) : waiting[j] = q
    <3>1. i + 1 \in 1 .. Len(waiting) /\ waiting[i + 1] = q
      BY <1>2, <2>2
    <3> QED
      BY <3>1
  <2>3. q = p => \E i \in 1 .. Len(waiting) : waiting[i] = q
    BY <1>2
  <2> QED
    BY <2>1, <2>2, <2>3
<1>7. DOMAIN waiting = 1 .. Len(waiting) /\ DOMAIN waiting' = 1 .. Len(waiting')
  BY <1>2
<1>8. IsFiniteSet(pool') /\ Cardinality(pool') <= PoolSize
  <2>1. IsFiniteSet(pool) /\ Cardinality(pool) \in Nat
    BY FS_CardinalityType DEF RpcTypeInv, QueueOK
  <2>2. IsFiniteSet(pool') /\ Cardinality(pool') = Cardinality(pool) + 1
    BY <1>1, <1>4, <2>1, FS_AddElement
  <2> QED
    BY <1>1, <2>1, <2>2 DEF RpcAssumption
<1>9. Shapes'
  BY <1>1 DEF RpcTypeInv, Shapes
<1>10. \A i, j \in 1 .. Len(waiting') : waiting'[i] = waiting'[j] => i = j
  <2> SUFFICES ASSUME NEW i \in 1 .. Len(waiting'), NEW j \in 1 .. Len(waiting'),
                      waiting'[i] = waiting'[j]
               PROVE  i = j
    OBVIOUS
  <2>1. i + 1 \in 1 .. Len(waiting) /\ j + 1 \in 1 .. Len(waiting)
        /\ waiting[i + 1] = waiting[j + 1]
    BY <1>2
  <2>2. i + 1 = j + 1
    BY <1>3, <2>1
  <2> QED
    BY <1>2, <2>2
<1>11. QueueOK'
  BY <1>1, <1>2, <1>4, <1>7, <1>8, <1>10 DEF RpcTypeInv, QueueOK
<1>12. \A q \in Process : link'[q].state \in {"open", "left"} <=>
            q \in pool' \/ \E i \in DOMAIN waiting' : waiting'[i] = q
  <2>1. \A q \in Process : link[q].state \in {"open", "left"} <=>
            q \in pool \/ \E i \in DOMAIN waiting : waiting[i] = q
    BY DEF RpcTypeInv, RpcTypeOK
  <2>2. link' = link /\ \A q \in Process : q \in pool' <=> q \in pool \/ q = p
    BY <1>1
  <2>3. ASSUME NEW q \in Process
        PROVE  link[q].state \in {"open", "left"} <=>
                  q \in pool' \/ \E i \in 1 .. Len(waiting') : waiting'[i] = q
    <3>1. link[q].state \in {"open", "left"} <=>
              q \in pool \/ \E i \in 1 .. Len(waiting) : waiting[i] = q
      BY <1>7, <2>1
    <3> QED
      BY <1>6, <2>2, <3>1
  <2> QED
    BY <1>7, <2>2, <2>3
<1>13. \A i \in DOMAIN waiting' : waiting'[i] \notin pool'
  BY <1>1, <1>5, <1>7
<1>14. RpcTypeOK'
  BY <1>1, <1>8, <1>12, <1>13 DEF RpcTypeInv, RpcTypeOK, InCall
<1> QED
  BY <1>9, <1>11, <1>14 DEF RpcTypeInv

(* A thread of the pool reads a request or writes an answer.               *)
LEMMA WorkerMoves ==
    ASSUME RpcTypeInv, NEW p \in Process, p \in pool, DOMAIN link' = Process,
           \A q \in Process :
              DOMAIN link'[q] = {"state", "toServer", "toClient"} /\ link'[q].state = link[q].state,
           DOMAIN worker' = Process, \A q \in Process : q # p => worker'[q] = worker[q],
           DOMAIN done' = Process, \A q \in Process : DOMAIN done'[q] = Thread,
           UNCHANGED <<caller, waiting, pool, up, calls>>
    PROVE  RpcTypeInv'
<1>1. Shapes' /\ QueueOK'
  BY DEF RpcTypeInv, Shapes, QueueOK
<1>2. RpcTypeOK'
  BY DEF RpcTypeInv, RpcTypeOK, InCall
<1> QED
  BY <1>1, <1>2 DEF RpcTypeInv

(* A thread of the pool drops its connection.                              *)
LEMMA WorkerDrops ==
    ASSUME RpcTypeInv, NEW p \in Process, p \in pool, pool' = pool \ {p}, DOMAIN link' = Process,
           \A q \in Process : q # p => link'[q] = link[q],
           DOMAIN link'[p] = {"state", "toServer", "toClient"},
           link'[p].state = IF link[p].state = "open" THEN "closed" ELSE "none",
           DOMAIN worker' = Process, worker'[p] = NoRequest,
           \A q \in Process : q # p => worker'[q] = worker[q],
           UNCHANGED <<caller, waiting, up, calls, done>>
    PROVE  RpcTypeInv'
<1>1. IsFiniteSet(pool) /\ IsFiniteSet(pool') /\ Cardinality(pool') = Cardinality(pool) - 1
      /\ Cardinality(pool) \in Nat
  BY FS_RemoveElement, FS_CardinalityType DEF RpcTypeInv, QueueOK
<1>2. Shapes' /\ QueueOK'
  BY <1>1 DEF RpcTypeInv, Shapes, QueueOK
<1>3. /\ \A i \in DOMAIN waiting : waiting[i] # p
      /\ link[p].state \in {"open", "left"}
      /\ \A t \in Thread : InCall(p, t) => link[p].state = "open"
  BY DEF RpcTypeInv, RpcTypeOK
<1>4. /\ \A q \in Process, t \in Thread :
           /\ caller'[q][t].pc \in {"ready", "send", "receive", "returned"}
           /\ caller'[q][t].method \in DOMAIN ReplicaClient
           /\ InCall(q, t)' => link'[q].state \in {"open", "closed"}
      /\ \A q \in Process :
           /\ link'[q].state \in {"none", "open", "closed", "left"}
           /\ worker'[q] # NoRequest => q \in pool'
           /\ link'[q].state \in {"open", "left"} <=>
                  q \in pool' \/ \E i \in DOMAIN waiting' : waiting'[i] = q
  BY <1>3 DEF RpcTypeInv, RpcTypeOK, InCall
<1>5. Cardinality(pool') <= PoolSize
  <2>1. Cardinality(pool) <= PoolSize
    BY DEF RpcTypeInv, RpcTypeOK
  <2>2. PoolSize \in Nat
    BY RpcAssumption DEF RpcAssumption
  <2> QED
    BY <1>1, <2>1, <2>2
<1>6. /\ \A i \in DOMAIN waiting' : waiting'[i] \notin pool'
      /\ up' \in BOOLEAN /\ calls' \in 0 .. MaxCall
  BY DEF RpcTypeInv, RpcTypeOK
<1>7. RpcTypeOK'
  BY <1>4, <1>5, <1>6 DEF RpcTypeOK
<1> QED
  BY <1>2, <1>7 DEF RpcTypeInv

LEMMA ClosedShape ==
    ASSUME NEW l, DOMAIN l = {"state", "toServer", "toClient"}
    PROVE  /\ DOMAIN Closed(l) = {"state", "toServer", "toClient"}
           /\ l.state = "open" => /\ Closed(l).state = "closed" /\ Closed(l).toServer = <<>>
                                  /\ Closed(l).toClient = l.toClient
           /\ l.state = "left" => Closed(l) = NoLink
           /\ l.state \notin {"open", "left"} => Closed(l) = l
           /\ DOMAIN NoLink = {"state", "toServer", "toClient"} /\ NoLink.state = "none"
           /\ NoLink.toServer = <<>> /\ NoLink.toClient = <<>>
BY DEF Closed, NoLink

LEMMA WorkerTypes ==
    ASSUME RpcAssumption, RpcTypeInv, NEW p \in Process, WorkerStep(p)
    PROVE  RpcTypeInv'
<1>0. /\ DOMAIN link = Process /\ DOMAIN worker = Process /\ DOMAIN done = Process
      /\ \A q \in Process : /\ DOMAIN link[q] = {"state", "toServer", "toClient"}
                            /\ DOMAIN done[q] = Thread
                            /\ worker[q] # NoRequest => q \in pool
      /\ p \in pool => link[p].state \in {"open", "left"}
  BY DEF RpcTypeInv, Shapes, RpcTypeOK
<1>1. CASE Dispatch(p)
  <2>1. /\ p \in pool /\ UNCHANGED <<caller, waiting, pool, up, calls, done>>
        /\ \E l : link' = [link EXCEPT ![p] = l] /\ l.state = link[p].state
                  /\ DOMAIN l = {"state", "toServer", "toClient"}
        /\ DOMAIN worker' = Process /\ \A q \in Process : q # p => worker'[q] = worker[q]
    <3> DEFINE l == [link[p] EXCEPT !.toServer = Tail(@)]
               f == Head(link[p].toServer)
               m == [link[p] EXCEPT !.toServer = Tail(@), !.toClient = Append(@, Exception(f.name))]
    <3>1. l.state = link[p].state /\ DOMAIN l = {"state", "toServer", "toClient"}
          /\ m.state = link[p].state /\ DOMAIN m = {"state", "toServer", "toClient"}
      BY <1>0
    <3>2. link' = [link EXCEPT ![p] = l] \/ link' = [link EXCEPT ![p] = m]
      BY <1>0, <1>1 DEF Dispatch
    <3>3. DOMAIN worker' = Process /\ \A q \in Process : q # p => worker'[q] = worker[q]
      <4>1. worker' = worker \/ \E w : worker' = [worker EXCEPT ![p] = w]
        BY <1>1 DEF Dispatch
      <4> QED
        BY <1>0, <4>1
    <3> HIDE DEF l, m, f
    <3> QED
      BY <1>1, <3>1, <3>2, <3>3 DEF Dispatch
  <2> QED
    BY <1>0, <2>1, WorkerMoves
<1>2. CASE Finish(p)
  <2>1. p \in pool
    BY <1>0, <1>2, Methods DEF Finish, NoRequest, Method
  <2>2. /\ DOMAIN worker' = Process /\ \A q \in Process : q # p => worker'[q] = worker[q]
        /\ UNCHANGED <<caller, waiting, pool, up, calls>>
    BY <1>0, <1>2 DEF Finish
  <2>3. DOMAIN link' = Process /\ \A q \in Process :
              DOMAIN link'[q] = {"state", "toServer", "toClient"} /\ link'[q].state = link[q].state
    BY <1>0, <1>2 DEF Finish
  <2>4. DOMAIN done' = Process /\ \A q \in Process : DOMAIN done'[q] = Thread
    BY <1>0, <1>2 DEF Finish
  <2> QED
    BY <2>1, <2>2, <2>3, <2>4, WorkerMoves
<1>3. CASE Escape(p)
  <2>1. p \in pool
    BY <1>0, <1>3 DEF Escape, NoRequest
  <2> QED
    BY <1>0, <1>3, <2>1, ClosedShape, WorkerDrops DEF Escape
<1>4. CASE HandlerExit(p)
  <2>1. /\ link' = [q \in Process |-> Closed(link[q])] /\ worker' = [q \in Process |-> NoRequest]
        /\ pool' = {} /\ waiting' = <<>> /\ up' = FALSE /\ UNCHANGED <<caller, calls, done>>
    BY <1>4 DEF HandlerExit
  <2>2. \A q \in Process :
          /\ DOMAIN link'[q] = {"state", "toServer", "toClient"}
          /\ link'[q].state \in {"none", "closed"}
          /\ link[q].state \in {"open", "closed"} => link'[q].state = "closed"
    <3> SUFFICES ASSUME NEW q \in Process
                 PROVE  /\ DOMAIN link'[q] = {"state", "toServer", "toClient"}
                        /\ link'[q].state \in {"none", "closed"}
                        /\ link[q].state \in {"open", "closed"} => link'[q].state = "closed"
      OBVIOUS
    <3>1. link'[q] = Closed(link[q]) /\ DOMAIN link[q] = {"state", "toServer", "toClient"}
      BY <1>0, <2>1
    <3>2. link[q].state \in {"none", "open", "closed", "left"}
      BY DEF RpcTypeInv, RpcTypeOK
    <3> QED
      BY <3>1, <3>2, ClosedShape
  <2>3. Shapes'
    BY <2>1, <2>2 DEF RpcTypeInv, Shapes
  <2>4. QueueOK'
    BY <2>1, FS_EmptySet DEF QueueOK
  <2>5. Cardinality(pool') <= PoolSize
    BY <2>1, FS_EmptySet DEF RpcAssumption
  <2>6. RpcTypeOK'
    <3>1. \A q \in Process, t \in Thread :
             /\ caller'[q][t].pc \in {"ready", "send", "receive", "returned"}
             /\ caller'[q][t].method \in DOMAIN ReplicaClient
             /\ InCall(q, t)' => link'[q].state \in {"open", "closed"}
      BY <2>1, <2>2 DEF RpcTypeInv, RpcTypeOK, InCall
    <3>2. DOMAIN waiting' = {}
      BY <2>1
    <3>3. \A q \in Process :
             /\ link'[q].state \in {"none", "open", "closed", "left"}
             /\ worker'[q] # NoRequest => q \in pool'
             /\ link'[q].state \in {"open", "left"} <=>
                    q \in pool' \/ \E i \in DOMAIN waiting' : waiting'[i] = q
      BY <2>1, <2>2, <3>2
    <3>4. up' \in BOOLEAN /\ calls' \in 0 .. MaxCall
      BY <2>1 DEF RpcTypeInv, RpcTypeOK
    <3> QED
      BY <2>5, <3>1, <3>2, <3>3, <3>4 DEF RpcTypeOK
  <2> QED
    BY <2>3, <2>4, <2>6 DEF RpcTypeInv
<1>5. CASE Drop(p)
  BY <1>0, <1>5, WorkerDrops DEF Drop, NoLink
<1> QED
  BY <1>1, <1>2, <1>3, <1>4, <1>5 DEF WorkerStep

LEMMA RpcTypeStep ==
    ASSUME RpcAssumption, RpcTypeInv, [RpcNext]_vars
    PROVE  RpcTypeInv'
<1>1. CASE UNCHANGED vars
  BY <1>1 DEF vars, RpcTypeInv, Shapes, QueueOK, RpcTypeOK, InCall
<1> QED
  BY <1>1, CallTypes, CallerTypes, LeaveTypes, WorkerTypes, AcceptTypes DEF RpcNext

(***************************************************************************)
(* An open connection waits for a thread of the pool or has one, never     *)
(* both and never twice, also when its process has left it; only threads   *)
(* of the pool run handlers, and the pool does not grow beyond its size.   *)
(***************************************************************************)
THEOREM RpcTypeCorrect == RpcSpec => []RpcTypeOK
<1> USE RpcAssumption
<1>1. RpcInit => RpcTypeInv
  BY RpcTypeInit
<1>2. RpcTypeInv /\ [RpcNext]_vars => RpcTypeInv'
  BY RpcTypeStep
<1>3. RpcTypeInv => RpcTypeOK
  BY DEF RpcTypeInv
<1> QED
  BY <1>1, <1>2, <1>3, PTL DEF RpcSpec

-----------------------------------------------------------------------------
(* The answer to a call                                                    *)

(* What thread t sends with its k-th call, and what the handler is given.  *)
RequestFrame(t, m, k) ==
    [name |-> ReplicaClient[m].call,
     body |-> Write(ReplicaClient[m].args, Struct(ReplicaClient[m].args, k)), by |-> t, k |-> k]
Requested(t, m, k) ==
    [method |-> m, by |-> t, k |-> k, args |-> Struct(ReplicaClient[m].args, k)]
RequestFrames == {RequestFrame(t, m, k) : t \in Thread, m \in Method, k \in 0 .. MaxCall}

(* Nobody waits for the requests on p's connection and in its handler:     *)
(* they are calls of exit(), which has no answer.                          *)
OnlyExits(frames) == \A i \in DOMAIN frames : frames[i].name = "exit"
NoHandler(p) == worker[p].method \in {"none", "exit"}
Quiet(p) == OnlyExits(link[p].toServer) /\ NoHandler(p)

(***************************************************************************)
(* Where the call of the one thread t of p that waits for an answer is: it *)
(* is lost, or the last request on the connection, or in the handler, or   *)
(* its answer is all that comes back.                                      *)
(***************************************************************************)
Unasked(p) == Quiet(p) /\ link[p].toClient = <<>>

Asked(p, t) ==
    LET c == caller[p][t]
        s == link[p].toServer
    IN
    /\ link[p].state # "closed" /\ NoHandler(p) /\ link[p].toClient = <<>>
    /\ s # <<>> /\ s[Len(s)] = RequestFrame(t, c.method, c.k)
    /\ \A i \in 1 .. Len(s) - 1 : s[i].name = "exit"

Served(p, t) ==
    LET c == caller[p][t] IN
    /\ OnlyExits(link[p].toServer) /\ link[p].toClient = <<>>
    /\ worker[p] = Requested(t, c.method, c.k)

Finished(p, t) ==
    LET c == caller[p][t] IN
    /\ Quiet(p)
    /\ \E out \in Outcomes(c.method, c.k) :
        /\ link[p].toClient = Frames(c.method, out)
        /\ done[p][t] = [method |-> c.method, args |-> Struct(ReplicaClient[c.method].args, c.k),
                         out |-> out]

Own(p, t) ==
    LET c == caller[p][t]
        d == done[p][t]
    IN  c.method \notin Oneway /\ c.out # Lost =>
            /\ d # NoCall /\ d.method = c.method
            /\ d.args = Struct(ReplicaClient[c.method].args, c.k)
            /\ d.out.kind = c.out.kind /\ d.out.struct = c.out.struct

CallOK(p, t) ==
    LET c == caller[p][t] IN
    /\ c.k \in 0 .. MaxCall /\ c.skipped = FALSE
    /\ c.pc = "receive" =>
        c.method \notin Oneway /\ (Unasked(p) \/ Asked(p, t) \/ Served(p, t) \/ Finished(p, t))
    /\ c.pc = "returned" => Own(p, t)

TurnsOK(p) ==
    /\ link[p].toServer \in Seq(RequestFrames)
    /\ \A t, u \in Thread : InCall(p, t) /\ InCall(p, u) => t = u
    /\ (\A t \in Thread : caller[p][t].pc # "receive") => Unasked(p)
    /\ \A t \in Thread : CallOK(p, t)

AnswerInv == \A p \in Process : TurnsOK(p)

LEMMA AnswerInit ==
    ASSUME RpcAssumption, RpcInit
    PROVE  AnswerInv
<1> SUFFICES ASSUME NEW p \in Process PROVE TurnsOK(p)
  BY DEF AnswerInv
<1>1. /\ \A t \in Thread : caller[p][t] = Ready
      /\ link[p].toServer = <<>> /\ link[p].toClient = <<>> /\ worker[p] = NoRequest
  BY DEF RpcInit, NoLink
<1>2. Unasked(p)
  BY <1>1 DEF Unasked, Quiet, OnlyExits, NoHandler, NoRequest
<1>3. \A t \in Thread : CallOK(p, t)
  BY <1>1 DEF CallOK, Ready, RpcAssumption
<1>4. link[p].toServer \in Seq(RequestFrames)
  BY <1>1
<1> QED
  BY <1>1, <1>2, <1>3, <1>4 DEF TurnsOK, InCall, Ready

(* What does not touch a process.                                          *)
LEMMA OthersTurns ==
    ASSUME AnswerInv, NEW q \in Process, caller'[q] = caller[q], link'[q] = link[q],
           worker'[q] = worker[q], done'[q] = done[q]
    PROVE  TurnsOK(q)'
<1>1. TurnsOK(q)
  BY DEF AnswerInv
<1>2. Quiet(q)' = Quiet(q) /\ Unasked(q)' = Unasked(q)
  BY DEF Quiet, Unasked, NoHandler, OnlyExits
<1>3. ASSUME NEW t \in Thread
      PROVE  CallOK(q, t)' = CallOK(q, t)
  <2>1. Asked(q, t)' = Asked(q, t) /\ Served(q, t)' = Served(q, t)
    BY DEF Asked, Served, NoHandler, OnlyExits
  <2>2. Finished(q, t)' = Finished(q, t) /\ Own(q, t)' = Own(q, t)
    BY <1>2 DEF Finished, Own
  <2> QED
    BY <1>2, <2>1, <2>2 DEF CallOK
<1> QED
  BY <1>1, <1>2, <1>3 DEF TurnsOK, InCall

(* The thread that is in a call of its process, in a step of the process   *)
(* that it alone takes.                                                    *)
LEMMA AloneInCall ==
    ASSUME AnswerInv, NEW p \in Process, NEW t \in Thread, InCall(p, t)
    PROVE  /\ CallOK(p, t) /\ \A u \in Thread : u # t => caller[p][u].pc = "ready"
           /\ caller[p][t].pc # "receive" => Unasked(p)
BY DEF AnswerInv, TurnsOK, InCall

(* A step of thread t, which goes on to c, while no other is in a call.    *)
LEMMA CallerGoesOn ==
    ASSUME RpcTypeInv, AnswerInv, NEW p \in Process, NEW t \in Thread, NEW c, Become(p, t, c),
           \A u \in Thread : u # t => caller[p][u].pc = "ready",
           link'[p].toServer \in Seq(RequestFrames), UNCHANGED worker,
           \A q \in Process : q # p => link'[q] = link[q] /\ done'[q] = done[q],
           c.pc # "receive" => Unasked(p)', CallOK(p, t)'
    PROVE  AnswerInv'
<1>1. /\ \A q \in Process : q # p => caller'[q] = caller[q]
      /\ \A u \in Thread : caller'[p][u] = IF u = t THEN c ELSE caller[p][u]
  BY DEF Become, RpcTypeInv, Shapes
<1>2. \A q \in Process : q # p => TurnsOK(q)'
  BY <1>1, OthersTurns
<1>3. ASSUME NEW u \in Thread, u # t
      PROVE  CallOK(p, u)'
  <2>1. caller'[p][u] = caller[p][u] /\ caller[p][u].pc = "ready" /\ CallOK(p, u)
    BY <1>1, <1>3 DEF AnswerInv, TurnsOK
  <2> QED
    BY <2>1 DEF CallOK
<1>4. TurnsOK(p)'
  BY <1>1, <1>3 DEF TurnsOK, InCall
<1> QED
  BY <1>2, <1>4 DEF AnswerInv

LEMMA CallTurns ==
    ASSUME RpcAssumption, RpcTypeInv, AnswerInv, Exclusive,
           NEW p \in Process, NEW t \in Thread, Call(p, t)
    PROVE  AnswerInv'
<1>1. PICK m \in DOMAIN ReplicaClient :
        Become(p, t, [Ready EXCEPT !.pc = "send", !.method = m, !.k = calls'])
  BY DEF Call
<1> DEFINE c == [Ready EXCEPT !.pc = "send", !.method = m, !.k = calls']
<1>2. c.pc = "send" /\ c.k = calls' /\ c.skipped = FALSE
  BY DEF Ready
<1>3. Become(p, t, c) /\ calls' \in 0 .. MaxCall
  BY <1>1 DEF Call, RpcTypeInv, RpcTypeOK, RpcAssumption
<1> HIDE DEF c
<1>4. \A u \in Thread : caller[p][u].pc = "ready"
  BY DEF Call, InCall
<1>5. Unasked(p) /\ link[p].toServer \in Seq(RequestFrames)
  BY <1>4 DEF AnswerInv, TurnsOK
<1>6. /\ \A q \in Process : q # p => link'[q] = link[q]
      /\ link'[p].toServer = link[p].toServer /\ link'[p].toClient = link[p].toClient
      /\ UNCHANGED <<worker, done>>
  BY DEF Call, RpcTypeInv, Shapes
<1>7. Unasked(p)'
  BY <1>5, <1>6 DEF Unasked, Quiet, OnlyExits, NoHandler
<1>8. caller'[p][t] = c
  BY <1>3 DEF Become, RpcTypeInv, Shapes
<1>9. CallOK(p, t)'
  BY <1>2, <1>3, <1>8 DEF CallOK
<1> QED
  BY <1>3, <1>4, <1>5, <1>6, <1>7, <1>9, CallerGoesOn

(* A thread's call ends with the outcome out.                              *)
LEMMA ReturnsTurns ==
    ASSUME RpcTypeInv, AnswerInv, NEW p \in Process, NEW t \in Thread, InCall(p, t), NEW out,
           Returns(p, t, out), link'[p].toServer \in Seq(RequestFrames),
           UNCHANGED <<worker, done>>,
           \A q \in Process : q # p => link'[q] = link[q], Unasked(p)',
           \/ caller[p][t].method \in Oneway \/ out = Lost
           \/ LET c == caller[p][t]
                  d == done[p][t]
              IN  /\ d # NoCall /\ d.method = c.method
                  /\ d.args = Struct(ReplicaClient[c.method].args, c.k)
                  /\ d.out.kind = out.kind /\ d.out.struct = out.struct
    PROVE  AnswerInv'
<1> DEFINE c == [caller[p][t] EXCEPT !.pc = "returned", !.skipped = FALSE, !.out = out]
<1>1. /\ c.pc = "returned" /\ c.skipped = FALSE /\ c.out = out
      /\ c.method = caller[p][t].method /\ c.k = caller[p][t].k
  BY DEF RpcTypeInv, Shapes
<1>2. Become(p, t, c)
  BY DEF Returns
<1> HIDE DEF c
<1>3. caller'[p][t] = c /\ done'[p][t] = done[p][t]
  BY <1>2 DEF Become, RpcTypeInv, Shapes
<1>4. Own(p, t)'
  BY <1>1, <1>3 DEF Own
<1>5. CallOK(p, t)'
  BY <1>1, <1>3, <1>4, AloneInCall DEF CallOK
<1> QED
  BY <1>1, <1>2, <1>5, AloneInCall, CallerGoesOn

LEMMA SendTurns ==
    ASSUME RpcTypeInv, AnswerInv, NEW p \in Process, NEW t \in Thread, SendCall(p, t)
    PROVE  AnswerInv'
<1> DEFINE c == caller[p][t]
           f == RequestFrame(t, c.method, c.k)
           s == link[p].toServer
<1>1. c.pc = "send" /\ InCall(p, t) /\ UNCHANGED <<waiting, pool, worker, up, calls, done>>
  BY DEF SendCall, InCall
<1>2. /\ Unasked(p) /\ s \in Seq(RequestFrames) /\ c.k \in 0 .. MaxCall /\ c.skipped = FALSE
      /\ c.method \in Method
      /\ link[p].state \in {"open", "closed"}
  <2>1. Unasked(p) /\ CallOK(p, t) /\ TurnsOK(p)
    BY <1>1, AloneInCall DEF AnswerInv
  <2>2. c.method \in Method /\ link[p].state \in {"open", "closed"}
    BY <1>1, Methods DEF RpcTypeInv, RpcTypeOK
  <2> QED
    BY <2>1, <2>2 DEF CallOK, TurnsOK
<1>3. CASE link[p].state = "closed"
  <2>1. Returns(p, t, Lost) /\ link' = link
    BY <1>3 DEF SendCall
  <2>2. Unasked(p)'
    BY <1>1, <1>2, <2>1 DEF Unasked, Quiet, OnlyExits, NoHandler
  <2> QED
    BY <1>1, <1>2, <2>1, <2>2, ReturnsTurns
<1>4. CASE link[p].state # "closed"
  <2>1. link' = [link EXCEPT ![p].toServer = Append(@, f)]
    BY <1>4 DEF SendCall, RequestFrame
  <2>2. /\ \A q \in Process : q # p => link'[q] = link[q]
        /\ link'[p].toServer = Append(s, f) /\ link'[p].toClient = link[p].toClient
        /\ link'[p].state = link[p].state
    BY <2>1 DEF RpcTypeInv, Shapes
  <2>3. f \in RequestFrames /\ f.name = c.method
    BY <1>2, Methods DEF RequestFrames, RequestFrame
  <2> DEFINE s1 == Append(s, f)
  <2>4. /\ s1 \in Seq(RequestFrames) /\ Len(s1) = Len(s) + 1 /\ Len(s) \in Nat
        /\ s1[Len(s1)] = f /\ s1 # <<>> /\ DOMAIN s1 = 1 .. Len(s1)
        /\ \A i \in 1 .. Len(s) : s1[i] = s[i] /\ i \in DOMAIN s
    BY <1>2, <2>3
  <2>5. \A i \in 1 .. Len(s) : s1[i].name = "exit"
    BY <1>2, <2>4 DEF Unasked, Quiet, OnlyExits
  <2> HIDE DEF s1, s, f
  <2>6. CASE c.method \in Oneway
    <3>1. Returns(p, t, Done)
      BY <1>4, <2>6 DEF SendCall
    <3>2. OnlyExits(s1)
      BY <2>3, <2>4, <2>5, <2>6, OnewayIsExit DEF OnlyExits
    <3>3. Unasked(p)'
      BY <1>1, <1>2, <2>2, <3>2 DEF Unasked, Quiet, NoHandler, OnlyExits, s1
    <3> QED
      BY <1>1, <2>2, <2>4, <2>6, <3>1, <3>3, ReturnsTurns DEF s1
  <2>7. CASE c.method \notin Oneway
    <3> DEFINE d == [c EXCEPT !.pc = "receive"]
    <3>1. Become(p, t, d)
      BY <1>4, <2>7 DEF SendCall
    <3>2. d.pc = "receive" /\ d.method = c.method /\ d.k = c.k /\ d.skipped = c.skipped
      BY DEF RpcTypeInv, Shapes
    <3> HIDE DEF d
    <3>3. caller'[p][t] = d
      BY <3>1 DEF Become, RpcTypeInv, Shapes
    <3> HIDE DEF c
    <3>4. s1[Len(s1)] = RequestFrame(t, d.method, d.k) /\ \A i \in 1 .. Len(s1) - 1 : s1[i].name = "exit"
      BY <2>4, <2>5, <3>2 DEF f
    <3>5. link'[p].toServer = s1 /\ link'[p].toClient = <<>> /\ link'[p].state # "closed"
      BY <1>2, <1>4, <2>2 DEF Unasked, s1
    <3>6. NoHandler(p)'
      BY <1>1, <1>2 DEF Unasked, Quiet, NoHandler
    <3>7. Asked(p, t)'
      BY <2>4, <3>3, <3>4, <3>5, <3>6 DEF Asked
    <3>8. CallOK(p, t)'
      BY <1>2, <2>7, <3>2, <3>3, <3>7 DEF CallOK
    <3> QED
      BY <1>1, <2>2, <2>4, <3>1, <3>2, <3>5, <3>8, AloneInCall, CallerGoesOn
  <2> QED
    BY <2>6, <2>7
<1> QED
  BY <1>3, <1>4

LEMMA FailTurns ==
    ASSUME RpcTypeInv, AnswerInv, NEW p \in Process, NEW t \in Thread, Fail(p, t)
    PROVE  AnswerInv'
<1>1. /\ InCall(p, t) /\ link[p].state = "closed" /\ link[p].toClient = <<>>
      /\ caller[p][t].pc = "receive"
      /\ Returns(p, t, Lost) /\ UNCHANGED <<link, waiting, pool, worker, up, calls, done>>
  BY DEF Fail, InCall
<1>2. ~Served(p, t)
  <2>1. worker[p] = NoRequest
    BY <1>1 DEF RpcTypeInv, RpcTypeOK
  <2>2. CASE Served(p, t)
    <3>1. NoRequest.method = caller[p][t].method /\ caller[p][t].method \in Method
      BY <2>1, <2>2, Methods DEF Served, Requested, RpcTypeInv, RpcTypeOK
    <3> QED
      BY <3>1 DEF NoRequest, Method
  <2> QED
    BY <2>2
<1>3. ~Asked(p, t) /\ ~Finished(p, t)
  BY <1>1 DEF Asked, Finished, Frames
<1>4. Unasked(p) /\ link[p].toServer \in Seq(RequestFrames)
  BY <1>1, <1>2, <1>3, AloneInCall DEF CallOK, AnswerInv, TurnsOK
<1>5. Unasked(p)'
  BY <1>1, <1>4 DEF Unasked, Quiet, OnlyExits, NoHandler
<1> QED
  BY <1>1, <1>4, <1>5, ReturnsTurns

LEMMA ReturnTurns ==
    ASSUME RpcAssumption, RpcTypeInv, AnswerInv, NEW p \in Process, NEW t \in Thread, Return(p, t)
    PROVE  AnswerInv'
<1>1. /\ InCall(p, t) /\ Unasked(p) /\ link[p].toServer \in Seq(RequestFrames)
      /\ UNCHANGED <<link, worker>> /\ Become(p, t, Ready)
  BY AloneInCall DEF Return, InCall, AnswerInv, TurnsOK
<1>2. Unasked(p)' /\ \A q \in Process : q # p => done'[q] = done[q]
  BY <1>1 DEF Return, Unasked, Quiet, OnlyExits, NoHandler
<1>3. CallOK(p, t)'
  <2>1. caller'[p][t] = Ready
    BY <1>1 DEF Become, RpcTypeInv, Shapes
  <2> QED
    BY <2>1 DEF CallOK, Ready, RpcAssumption
<1> QED
  BY <1>1, <1>2, <1>3, AloneInCall, CallerGoesOn

LEMMA ReceiveTurns ==
    ASSUME RpcTypeInv, AnswerInv, NEW p \in Process, NEW t \in Thread, Receive(p, t)
    PROVE  AnswerInv'
<1> DEFINE c == caller[p][t]
           m == c.method
           stub == ReplicaClient[m]
           f == Head(link[p].toClient)
<1>1. /\ InCall(p, t) /\ c.pc = "receive" /\ link[p].toClient # <<>>
      /\ link' = [link EXCEPT ![p].toClient = Tail(@)]
      /\ UNCHANGED <<waiting, pool, worker, up, calls, done>>
  BY DEF Receive, InCall
<1>2. CallOK(p, t) /\ link[p].toServer \in Seq(RequestFrames)
  BY <1>1, AloneInCall DEF AnswerInv, TurnsOK
<1>3. c.skipped = FALSE /\ m \in Method \ Oneway /\ Finished(p, t)
  BY <1>1, <1>2, Methods DEF CallOK, Unasked, Asked, Served, RpcTypeInv, RpcTypeOK
<1>4. PICK out \in Outcomes(m, c.k) :
        /\ link[p].toClient = Frames(m, out)
        /\ done[p][t] = [method |-> m, args |-> Struct(ReplicaClient[m].args, c.k), out |-> out]
  BY <1>3 DEF Finished
<1>5. /\ link'[p].toServer = link[p].toServer /\ link'[p].toClient = Tail(link[p].toClient)
      /\ \A q \in Process : q # p => link'[q] = link[q]
  BY <1>1 DEF RpcTypeInv, Shapes
<1>6. Unasked(p)'
  <2>1. Tail(link[p].toClient) = <<>>
    BY <1>4 DEF Frames
  <2> QED
    BY <1>1, <1>3, <1>5, <2>1 DEF Finished, Unasked, Quiet, OnlyExits, NoHandler
<1>7. done[p][t] # NoCall
  BY <1>3, <1>4 DEF NoCall, Method
<1>8. ASSUME NEW res, Returns(p, t, res), out.kind = res.kind, out.struct = res.struct
      PROVE  AnswerInv'
  <2>1. done[p][t].method = m /\ done[p][t].args = Struct(ReplicaClient[m].args, c.k)
        /\ done[p][t].out = out
    BY <1>4
  <2> QED
    BY <1>1, <1>2, <1>5, <1>6, <1>7, <1>8, <2>1, ReturnsTurns
<1>9. CASE out = Thrown
  <2>1. f.type = "exception"
    BY <1>4, <1>9 DEF Frames, Exception
  <2>2. Returns(p, t, Thrown)
    BY <1>3, <2>1 DEF Receive
  <2> QED
    BY <1>8, <1>9, <2>2
<1>10. CASE out # Thrown
  <2>1. /\ f.type = "reply" /\ f.name = ProcessMap[m].reply
        /\ f.body = WriteResult(ProcessMap[m].result, out.struct)
    BY <1>4, <1>10 DEF Frames
  <2>2. stub.call = m /\ ProcessMap[m].reply = m
    BY <1>3, Methods, ResultSchemas
  <2> DEFINE res == Result(m, ReadResult(stub.result, WriteResult(ProcessMap[m].result, out.struct)))
  <2>3. Returns(p, t, res)
    BY <1>3, <2>1, <2>2 DEF Receive
  <2>4. res.kind = out.kind /\ res.struct = out.struct
    BY <1>3, <1>10, OutcomeIsRead
  <2> HIDE DEF res
  <2> QED
    BY <1>8, <2>3, <2>4
<1> QED
  BY <1>9, <1>10

LEMMA CallerTurns ==
    ASSUME RpcAssumption, RpcTypeInv, AnswerInv, NEW p \in Process, NEW t \in Thread,
           CallerStep(p, t)
    PROVE  AnswerInv'
BY SendTurns, ReceiveTurns, FailTurns, ReturnTurns DEF CallerStep

-----------------------------------------------------------------------------
(* The steps of the manager, and of a process that ends                    *)

(* A process that is in no call.                                           *)
LEMMA NobodyCalls ==
    ASSUME RpcTypeInv, AnswerInv, NEW p \in Process, \A t \in Thread : ~InCall(p, t)
    PROVE  Unasked(p)
BY DEF AnswerInv, TurnsOK, InCall

(* A step that does not touch p's callers, and after which nobody waits    *)
(* for what is on p's connection.                                          *)
LEMMA QuietTurns ==
    ASSUME AnswerInv, NEW p \in Process, caller'[p] = caller[p], done'[p] = done[p],
           link'[p].toServer \in Seq(RequestFrames), Unasked(p)'
    PROVE  TurnsOK(p)'
<1>1. TurnsOK(p)
  BY DEF AnswerInv
<1>2. ASSUME NEW t \in Thread
      PROVE  CallOK(p, t)'
  <2>1. Own(p, t)' = Own(p, t)
    BY DEF Own
  <2> QED
    BY <1>1, <2>1 DEF TurnsOK, CallOK
<1> QED
  BY <1>1, <1>2 DEF TurnsOK, InCall

(* Such a step, by which t's call gets to a new place.                     *)
LEMMA CallGoesOn ==
    ASSUME AnswerInv, NEW p \in Process, caller'[p] = caller[p],
           NEW t \in Thread, caller[p][t].pc = "receive",
           \A u \in Thread : u # t => done'[p][u] = done[p][u],
           link'[p].toServer \in Seq(RequestFrames),
           Asked(p, t)' \/ Served(p, t)' \/ Finished(p, t)'
    PROVE  TurnsOK(p)'
<1>1. TurnsOK(p) /\ caller'[p][t] = caller[p][t]
  BY DEF AnswerInv
<1>2. \A u \in Thread : u # t => caller'[p][u].pc = "ready" /\ caller'[p][u] = caller[p][u]
  BY AloneInCall DEF InCall
<1>3. ASSUME NEW u \in Thread, u # t
      PROVE  CallOK(p, u)'
  BY <1>1, <1>2, <1>3 DEF TurnsOK, CallOK
<1>4. CallOK(p, t)'
  BY <1>1 DEF TurnsOK, CallOK
<1> QED
  BY <1>1, <1>2, <1>3, <1>4 DEF TurnsOK, InCall

LEMMA LeaveTurns ==
    ASSUME RpcTypeInv, AnswerInv, NEW p \in Process, Leave(p)
    PROVE  AnswerInv'
<1>1. UNCHANGED <<caller, worker, done>> /\ Unasked(p) /\ link[p].toServer \in Seq(RequestFrames)
  BY NobodyCalls DEF Leave, AnswerInv, TurnsOK
<1>2. /\ \A q \in Process : q # p => link'[q] = link[q]
      /\ \/ link'[p].toServer = <<>> /\ link'[p].toClient = <<>>
         \/ link'[p].toServer = link[p].toServer /\ link'[p].toClient = link[p].toClient
  <2>1. /\ DOMAIN link = Process /\ DOMAIN link[p] = {"state", "toServer", "toClient"}
        /\ \/ link' = [link EXCEPT ![p] = NoLink]
           \/ link' = [link EXCEPT ![p] = [link[p] EXCEPT !.state = "left"]]
    BY DEF Leave, RpcTypeInv, Shapes
  <2>2. CASE link' = [link EXCEPT ![p] = NoLink]
    BY <2>1, <2>2 DEF NoLink
  <2>3. CASE link' = [link EXCEPT ![p] = [link[p] EXCEPT !.state = "left"]]
    BY <2>1, <2>3
  <2> QED
    BY <2>1, <2>2, <2>3
<1>3. Unasked(p)' /\ link'[p].toServer \in Seq(RequestFrames)
  <2>1. CASE link'[p].toServer = <<>> /\ link'[p].toClient = <<>>
    <3>1. <<>> \in Seq(RequestFrames) /\ OnlyExits(<<>>)
      BY DEF OnlyExits
    <3>2. OnlyExits(link[p].toServer)'
      BY <2>1, <3>1 DEF OnlyExits
    <3> QED
      BY <1>1, <2>1, <3>1, <3>2 DEF Unasked, Quiet, NoHandler
  <2>2. CASE link'[p].toServer = link[p].toServer /\ link'[p].toClient = link[p].toClient
    BY <1>1, <2>2 DEF Unasked, Quiet, OnlyExits, NoHandler
  <2> QED
    BY <1>2, <2>1, <2>2
<1>4. TurnsOK(p)'
  BY <1>1, <1>3, QuietTurns
<1> QED
  BY <1>1, <1>2, <1>4, OthersTurns DEF AnswerInv

(* A request that is handled: a process that waits has sent it last.       *)
LEMMA HandledFor ==
    ASSUME AnswerInv, NEW p \in Process, ~NoHandler(p)
    PROVE  \E t \in Thread : caller[p][t].pc = "receive" /\ Served(p, t)
BY DEF AnswerInv, TurnsOK, CallOK, Unasked, Asked, Finished, Quiet

LEMMA DispatchTurns ==
    ASSUME RpcTypeInv, AnswerInv, NEW p \in Process, Dispatch(p)
    PROVE  AnswerInv'
<1> DEFINE s == link[p].toServer
           f == Head(s)
<1>1. s \in Seq(RequestFrames) /\ s # <<>> /\ worker[p] = NoRequest
      /\ UNCHANGED <<caller, waiting, pool, up, calls, done>>
  BY DEF Dispatch, AnswerInv, TurnsOK
<1>2. /\ f \in RequestFrames /\ f = s[1] /\ Len(s) \in Nat \ {0} /\ DOMAIN s = 1 .. Len(s)
      /\ Tail(s) \in Seq(RequestFrames) /\ Len(Tail(s)) = Len(s) - 1
      /\ DOMAIN Tail(s) = 1 .. Len(s) - 1
      /\ \A i \in 1 .. Len(s) - 1 : Tail(s)[i] = s[i + 1]
  BY <1>1
<1>3. PICK t \in Thread, m \in Method, k \in 0 .. MaxCall : f = RequestFrame(t, m, k)
  BY <1>2 DEF RequestFrames
<1>4. f.name = m /\ f.by = t /\ f.k = k
      /\ f.body = Write(ReplicaClient[m].args, Struct(ReplicaClient[m].args, k))
  BY <1>3, Methods DEF RequestFrame
<1> HIDE DEF f
<1>5. /\ worker' = [worker EXCEPT ![p] =
              [method |-> f.name, by |-> f.by, k |-> f.k,
               args |-> ReadArgs(ProcessMap[f.name].args, f.body)]]
      /\ link' = [link EXCEPT ![p].toServer = Tail(@)]
  BY <1>4, Methods DEF Dispatch, f
<1>6. worker'[p] = Requested(t, m, k) /\ \A q \in Process : q # p => worker'[q] = worker[q]
  BY <1>4, <1>5, ArgsAreRead DEF Requested, RpcTypeInv, Shapes
<1>7. /\ link'[p].toServer = Tail(s) /\ link'[p].toClient = link[p].toClient
      /\ link'[p].state = link[p].state /\ \A q \in Process : q # p => link'[q] = link[q]
  BY <1>5 DEF RpcTypeInv, Shapes
<1> HIDE DEF s
<1>8. ASSUME OnlyExits(s)
      PROVE  TurnsOK(p)'
  <2>1. m = "exit" /\ OnlyExits(Tail(s))
    <3>1. s[1].name = "exit" /\ \A i \in 1 .. Len(s) - 1 : s[i + 1].name = "exit"
      BY <1>2, <1>8 DEF OnlyExits
    <3> QED
      BY <1>2, <1>4, <3>1 DEF OnlyExits
  <2>2. Quiet(p)'
    BY <1>6, <1>7, <2>1 DEF Quiet, NoHandler, OnlyExits, Requested
  <2>3. CASE Unasked(p)
    <3>1. Unasked(p)'
      BY <1>7, <2>2, <2>3 DEF Unasked
    <3> QED
      BY <1>1, <1>2, <1>7, <3>1, QuietTurns
  <2>4. CASE ~Unasked(p)
    <3>1. PICK u \in Thread : caller[p][u].pc = "receive"
      BY <2>4 DEF AnswerInv, TurnsOK
    <3>2. Asked(p, u) \/ Served(p, u) \/ Finished(p, u)
      BY <2>4, <3>1 DEF AnswerInv, TurnsOK, CallOK
    <3>3. link[p].toClient # <<>>
      BY <1>1, <1>8, <2>4 DEF Unasked, Quiet, NoHandler, NoRequest, s
    <3>4. Finished(p, u)
      BY <3>2, <3>3 DEF Asked, Served
    <3>5. Finished(p, u)'
      BY <1>1, <1>7, <2>2, <3>4 DEF Finished
    <3> QED
      BY <1>1, <1>2, <1>7, <3>1, <3>5, CallGoesOn
  <2> QED
    BY <2>3, <2>4
<1>9. ASSUME ~OnlyExits(s)
      PROVE  TurnsOK(p)'
  <2>1. PICK u \in Thread : caller[p][u].pc = "receive"
    BY <1>9 DEF AnswerInv, TurnsOK, Unasked, Quiet, s
  <2>2. Asked(p, u)
    BY <1>9, <2>1 DEF AnswerInv, TurnsOK, CallOK, Unasked, Served, Finished, Quiet, s
  <2> DEFINE c == caller[p][u]
  <2>3. /\ link[p].toClient = <<>> /\ link[p].state # "closed"
        /\ s[Len(s)] = RequestFrame(u, c.method, c.k)
        /\ \A i \in 1 .. Len(s) - 1 : s[i].name = "exit"
    BY <2>2 DEF Asked, s
  <2>4. caller'[p][u] = caller[p][u] /\ c.method \in Method
    BY <1>1, Methods DEF RpcTypeInv, RpcTypeOK
  <2>5. CASE Len(s) = 1
    <3>1. m = c.method /\ t = u /\ k = c.k
      <4>1. f = RequestFrame(u, c.method, c.k)
        BY <1>2, <2>3, <2>5
      <4> QED
        BY <1>4, <2>4, <4>1, Methods DEF RequestFrame
    <3>2. OnlyExits(Tail(s))
      BY <1>2, <2>5 DEF OnlyExits
    <3>3. Served(p, u)'
      BY <1>6, <1>7, <2>3, <2>4, <3>1, <3>2 DEF Served
    <3> QED
      BY <1>1, <1>2, <1>7, <2>1, <3>3, CallGoesOn
  <2>6. CASE Len(s) # 1
    <3>1. Len(s) - 1 \in 1 .. Len(s) - 1 /\ Tail(s) # <<>>
      <4>1. Len(s) - 1 \in 1 .. Len(s) - 1 /\ Len(Tail(s)) # 0
        BY <1>2, <2>6
      <4>2. Len(<<>>) = 0
        OBVIOUS
      <4> HIDE DEF s
      <4> QED
        BY <4>1, <4>2
    <3>2. Tail(s)[Len(Tail(s))] = RequestFrame(u, c.method, c.k)
      BY <1>2, <2>3, <3>1
    <3>3. \A i \in 1 .. Len(Tail(s)) - 1 : Tail(s)[i].name = "exit"
      <4> SUFFICES ASSUME NEW i \in 1 .. Len(Tail(s)) - 1 PROVE Tail(s)[i].name = "exit"
        OBVIOUS
      <4>1. i + 1 \in 1 .. Len(s) - 1 /\ Tail(s)[i] = s[i + 1]
        BY <1>2
      <4> QED
        BY <2>3, <4>1
    <3>4. m = "exit"
      <4>1. s[1].name = "exit"
        BY <1>2, <2>3, <2>6
      <4> QED
        BY <1>2, <1>4, <4>1
    <3>5. NoHandler(p)'
      BY <1>6, <3>4 DEF NoHandler, Requested
    <3>6. Asked(p, u)'
      BY <1>7, <2>3, <2>4, <3>1, <3>2, <3>3, <3>5 DEF Asked
    <3> QED
      BY <1>1, <1>2, <1>7, <2>1, <3>6, CallGoesOn
  <2> QED
    BY <2>5, <2>6
<1>10. TurnsOK(p)'
  BY <1>8, <1>9
<1> QED
  BY <1>1, <1>6, <1>7, <1>10, OthersTurns DEF AnswerInv

LEMMA FinishTurns ==
    ASSUME RpcTypeInv, AnswerInv, NEW p \in Process, Finish(p)
    PROVE  AnswerInv'
<1> DEFINE w == worker[p]
<1>1. /\ w.method \in Method \ Oneway /\ UNCHANGED <<caller, waiting, pool, up, calls>>
      /\ worker' = [worker EXCEPT ![p] = NoRequest]
  BY Methods DEF Finish
<1>2. PICK t \in Thread : caller[p][t].pc = "receive" /\ Served(p, t)
  <2>1. ~NoHandler(p)
    BY <1>1, OnewayIsExit DEF NoHandler, Method
  <2> QED
    BY <2>1, HandledFor
<1> DEFINE c == caller[p][t]
           args == Struct(ReplicaClient[c.method].args, c.k)
<1>3. /\ w.method = c.method /\ w.by = t /\ w.k = c.k /\ w.args = args
      /\ OnlyExits(link[p].toServer) /\ link[p].toClient = <<>>
  BY <1>2 DEF Served, Requested
<1> HIDE DEF w, args
<1>4. PICK out \in Outcomes(c.method, c.k) :
        /\ link' = [link EXCEPT ![p].toClient = @ \o Frames(c.method, out)]
        /\ done' = [done EXCEPT ![p][t] = [method |-> c.method, args |-> args, out |-> out]]
  BY <1>3 DEF Finish, w
<1>5. /\ link'[p].toServer = link[p].toServer /\ link'[p].toClient = <<>> \o Frames(c.method, out)
      /\ \A q \in Process : q # p => link'[q] = link[q]
  BY <1>3, <1>4 DEF RpcTypeInv, Shapes
<1>6. link'[p].toClient = Frames(c.method, out)
  <2>1. \E f : Frames(c.method, out) = <<f>>
    BY DEF Frames
  <2>2. \A f : <<>> \o <<f>> = <<f>>
    OBVIOUS
  <2> QED
    BY <1>5, <2>1, <2>2
<1>7. /\ done'[p][t] = [method |-> c.method, args |-> args, out |-> out]
      /\ \A u \in Thread : u # t => done'[p][u] = done[p][u]
      /\ \A q \in Process : q # p => done'[q] = done[q]
  BY <1>4 DEF RpcTypeInv, Shapes
<1>8. worker'[p] = NoRequest /\ \A q \in Process : q # p => worker'[q] = worker[q]
  BY <1>1 DEF RpcTypeInv, Shapes
<1>9. Quiet(p)'
  BY <1>3, <1>5, <1>8 DEF Quiet, NoHandler, OnlyExits, NoRequest
<1>10. caller'[p] = caller[p] /\ caller'[p][t] = caller[p][t]
  BY <1>1
<1>11. Finished(p, t)'
  BY <1>6, <1>7, <1>9, <1>10 DEF Finished, args
<1>12. TurnsOK(p)'
  <2>1. link'[p].toServer \in Seq(RequestFrames)
    BY <1>5 DEF AnswerInv, TurnsOK
  <2> QED
    BY <1>2, <1>7, <1>10, <1>11, <2>1, CallGoesOn
<1> QED
  BY <1>1, <1>5, <1>7, <1>8, <1>12, OthersTurns DEF AnswerInv

(* The end of a connection: an answer that is on it can still be read.     *)
LEMMA ClosedTurns ==
    ASSUME RpcTypeInv, AnswerInv, NEW p \in Process, caller'[p] = caller[p], done'[p] = done[p],
           link'[p] = Closed(link[p]), worker'[p] = NoRequest
    PROVE  TurnsOK(p)'
<1>1. DOMAIN link[p] = {"state", "toServer", "toClient"}
      /\ (worker[p] = NoRequest \/ link[p].state \in {"open", "left"})
  BY DEF RpcTypeInv, RpcTypeOK, Shapes
<1>2. NoHandler(p)' /\ <<>> \in Seq(RequestFrames) /\ OnlyExits(<<>>)
  BY DEF NoHandler, NoRequest, OnlyExits
<1>3. CASE link[p].state = "left"
  <2>1. link'[p].toServer = <<>> /\ link'[p].toClient = <<>>
    BY <1>1, <1>3, ClosedShape
  <2>2. OnlyExits(link[p].toServer)'
    BY <1>2, <2>1 DEF OnlyExits
  <2>3. Unasked(p)'
    BY <1>2, <2>1, <2>2 DEF Unasked, Quiet
  <2> QED
    BY <1>2, <2>1, <2>3, QuietTurns
<1>4. CASE link[p].state = "open"
  <2>1. link'[p].toServer = <<>> /\ link'[p].toClient = link[p].toClient
    <3> DEFINE l == link[p]
    <3>1. DOMAIN l = {"state", "toServer", "toClient"} /\ l.state = "open"
      BY <1>1, <1>4
    <3> HIDE DEF l
    <3>2. Closed(l).toServer = <<>> /\ Closed(l).toClient = l.toClient
      BY <3>1, ClosedShape
    <3> QED
      BY <3>2 DEF l
  <2>2. OnlyExits(link[p].toServer)'
    BY <1>2, <2>1 DEF OnlyExits
  <2>3. Quiet(p)'
    BY <1>2, <2>2 DEF Quiet
  <2>4. CASE link[p].toClient = <<>>
    <3>1. Unasked(p)'
      BY <2>1, <2>3, <2>4 DEF Unasked
    <3> QED
      BY <1>2, <2>1, <3>1, QuietTurns
  <2>5. CASE link[p].toClient # <<>>
    <3>1. PICK u \in Thread : caller[p][u].pc = "receive"
      BY <2>5 DEF AnswerInv, TurnsOK, Unasked
    <3>2. Finished(p, u)
      BY <2>5, <3>1 DEF AnswerInv, TurnsOK, CallOK, Unasked, Asked, Served
    <3>3. Finished(p, u)'
      BY <2>1, <2>3, <3>2 DEF Finished
    <3> QED
      BY <1>2, <2>1, <3>1, <3>3, CallGoesOn
  <2> QED
    BY <2>4, <2>5
<1>5. CASE link[p].state \notin {"open", "left"}
  <2>1. link'[p] = link[p] /\ worker'[p] = worker[p]
    BY <1>1, <1>5, ClosedShape
  <2> QED
    BY <2>1, OthersTurns
<1> QED
  BY <1>3, <1>4, <1>5

LEMMA DropTurns ==
    ASSUME RpcTypeInv, AnswerInv, NEW p \in Process, Drop(p)
    PROVE  AnswerInv'
<1>1. /\ UNCHANGED <<caller, worker, done>> /\ worker[p] = NoRequest
      /\ link'[p] = NoLink /\ \A q \in Process : q # p => link'[q] = link[q]
      /\ DOMAIN link[p] = {"state", "toServer", "toClient"} /\ link[p].state = "left"
  BY DEF Drop, RpcTypeInv, Shapes
<1>2. link'[p] = Closed(link[p])
  BY <1>1, ClosedShape
<1>3. TurnsOK(p)'
  BY <1>1, <1>2, ClosedTurns
<1> QED
  BY <1>1, <1>3, OthersTurns DEF AnswerInv

LEMMA AnswerStep ==
    ASSUME RpcAssumption, RpcTypeInv, AnswerInv, Exclusive, [RpcNext]_vars
    PROVE  AnswerInv'
<1>1. ASSUME NEW p \in Process, Escape(p)
      PROVE  AnswerInv'
  <2>1. /\ UNCHANGED <<caller, done>> /\ link'[p] = Closed(link[p]) /\ worker'[p] = NoRequest
        /\ \A q \in Process : q # p => link'[q] = link[q] /\ worker'[q] = worker[q]
    BY <1>1 DEF Escape, RpcTypeInv, Shapes
  <2>2. TurnsOK(p)'
    BY <2>1, ClosedTurns
  <2> QED
    BY <2>1, <2>2, OthersTurns DEF AnswerInv
<1>2. ASSUME NEW p \in Process, HandlerExit(p)
      PROVE  AnswerInv'
  <2>1. /\ UNCHANGED <<caller, done>>
        /\ \A q \in Process : link'[q] = Closed(link[q]) /\ worker'[q] = NoRequest
    BY <1>2 DEF HandlerExit
  <2> QED
    BY <2>1, ClosedTurns DEF AnswerInv
<1>3. CASE Accept \/ UNCHANGED vars
  <2>1. UNCHANGED <<caller, link, worker, done>>
    BY <1>3 DEF Accept, vars
  <2> QED
    BY <2>1, OthersTurns DEF AnswerInv
<1> QED
  BY <1>1, <1>2, <1>3, CallTurns, CallerTurns, LeaveTurns, DispatchTurns, FinishTurns, DropTurns
  DEF RpcNext, WorkerStep

(***************************************************************************)
(* If a process has one call to the manager at a time, a call that does    *)
(* not fail returns what the handler of its own method has done with its   *)
(* own arguments, also when exit() calls are on the way before it, when    *)
(* the manager dies or drops the connection, and when the process has gone *)
(* and another has taken its place.  What generated code writes, the other *)
(* side's generated code reads.                                            *)
(***************************************************************************)
THEOREM AnswersAreOwn ==
    ASSUME Exclusive
    PROVE  RpcSpec => []OwnAnswer
<1> USE RpcAssumption
<1> DEFINE Inv == RpcTypeInv /\ AnswerInv
<1>1. RpcInit => Inv
  BY RpcTypeInit, AnswerInit
<1>2. Inv /\ [RpcNext]_vars => Inv'
  BY RpcTypeStep, AnswerStep
<1>3. Inv => OwnAnswer
  BY DEF AnswerInv, TurnsOK, CallOK, Own, OwnAnswer
<1> HIDE DEF Inv
<1> QED
  BY <1>1, <1>2, <1>3, PTL DEF RpcSpec
=============================================================================
