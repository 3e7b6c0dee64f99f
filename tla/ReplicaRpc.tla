------------------------------ MODULE ReplicaRpc ------------------------------
(***************************************************************************)
(* Remote calls to one replica manager: the ReplicaClient of each process, *)
(* which its threads share, the connection, and the pool of threads with   *)
(* the ReplicaProcessor at the other end.  What a handler does is left     *)
(* open here; that it ends is an assumption.                               *)
(*                                                                         *)
(* A frame is written and read as a whole.                                 *)
(***************************************************************************)
EXTENDS ReplicaWire, Naturals, Sequences, FiniteSets

CONSTANTS
    Process,        \* processes that call the manager
    Thread,         \* threads of a process
    PoolSize,       \* threads of the manager
    MaxOpen,        \* processes with an open connection at a time
    MaxCall,        \* bound: calls in a behaviour
    Exclusive       \* a process has one call to the manager at a time

ASSUME RpcAssumption ==
    /\ PoolSize \in Nat \ {0} /\ MaxOpen \in Nat /\ MaxCall \in Nat
    /\ Exclusive \in BOOLEAN

VARIABLES
    caller,     \* caller[p][t]: the call of thread t of p
    link,       \* link[p]: the connection of p, and the frames on it
    waiting,    \* connections that have no thread yet, the oldest first
    pool,       \* connections that have a thread
    worker,     \* worker[p]: the request in the handler of p's connection
    up,         \* whether the manager lives
    calls,      \* how many calls have been made
    done        \* history: done[p][t], what a handler did for t's last call

vars == <<caller, link, waiting, pool, worker, up, calls, done>>

(* What the k-th call puts into a struct: each has data of its own.         *)
(* 0 is what a constructor puts there.                                     *)
Struct(schema, k) == [n \in {schema[i].name : i \in DOMAIN schema} |-> <<n, k>>]

ReadArgs(schema, wire) ==
    LET r == Read(schema, wire) IN
    [n \in DOMAIN Struct(schema, 0) |->
        IF n \in DOMAIN r THEN r[n] ELSE Struct(schema, 0)[n]]

(* How a call or a handler ends.                                           *)
Outcome(kind, struct) == [kind |-> kind, struct |-> struct]
Lost == Outcome("lost", <<>>)               \* TTransportException
Thrown == Outcome("thrown", <<>>)           \* TApplicationException
Missing == Outcome("missing", <<>>)         \* the same, MISSING_RESULT
Done == Outcome("value", <<>>)              \* a void method returns
Error(k) == Outcome("error", [e |-> Struct(ErrorFields, k)])
Value(k) == Outcome("value", [success |-> <<"success", k>>])

Ready == [pc |-> "ready", method |-> "exit", k |-> 0, skipped |-> FALSE, out |-> Done]
NoCall == [method |-> "none"]
NoRequest == [method |-> "none"]
NoLink == [state |-> "none", toServer |-> <<>>, toClient |-> <<>>]

RpcInit ==
    /\ caller = [p \in Process |-> [t \in Thread |-> Ready]]
    /\ link = [p \in Process |-> NoLink]
    /\ waiting = <<>>
    /\ pool = {}
    /\ worker = [p \in Process |-> NoRequest]
    /\ up = TRUE
    /\ calls = 0
    /\ done = [p \in Process |-> [t \in Thread |-> NoCall]]

InCall(p, t) == caller[p][t].pc # "ready"
Become(p, t, c) == caller' = [caller EXCEPT ![p][t] = c]
Returns(p, t, out) ==
    Become(p, t, [caller[p][t] EXCEPT !.pc = "returned", !.skipped = FALSE, !.out = out])

-----------------------------------------------------------------------------
(* A process                                                               *)

(* operator[] gives the client, which it makes and connects at first use.  *)
(* It is stored also if that fails, and never connected again.             *)
Call(p, t) ==
    /\ ~InCall(p, t)
    /\ Exclusive => \A u \in Thread : ~InCall(p, u)
    /\ calls < MaxCall
    /\ calls' = calls + 1
    /\ link[p].state # "left"
    /\ link[p].state = "none" =>
            Cardinality({q \in Process : link[q].state = "open"}) < MaxOpen
    /\ \E m \in DOMAIN ReplicaClient :
            Become(p, t, [Ready EXCEPT !.pc = "send", !.method = m, !.k = calls'])
    /\ IF link[p].state = "none"
       THEN /\ link' = [link EXCEPT ![p].state = IF up THEN "open" ELSE "closed"]
            /\ waiting' = IF up THEN Append(waiting, p) ELSE waiting
       ELSE UNCHANGED <<link, waiting>>
    /\ UNCHANGED <<pool, worker, up, done>>

(* send_: the frame is on its way, or the transport is not open.  A oneway *)
(* call returns.                                                           *)
SendCall(p, t) ==
    LET c == caller[p][t]
        stub == ReplicaClient[c.method]
        f == [name |-> stub.call, body |-> Write(stub.args, Struct(stub.args, c.k)),
              by |-> t, k |-> c.k]
    IN
    /\ c.pc = "send"
    /\ IF link[p].state = "closed"
       THEN Returns(p, t, Lost) /\ UNCHANGED link
       ELSE /\ link' = [link EXCEPT ![p].toServer = Append(@, f)]
            /\ IF c.method \in Oneway THEN Returns(p, t, Done)
               ELSE Become(p, t, [c EXCEPT !.pc = "receive"])
    /\ UNCHANGED <<waiting, pool, worker, up, calls, done>>

(* What a recv_ function makes of the result it has read.                  *)
Result(m, r) ==
    IF "success" \in DOMAIN r THEN Outcome("value", r)
    ELSE IF "e" \in DOMAIN r THEN Outcome("error", r)
    ELSE IF m \in Void THEN Done ELSE Missing

(***************************************************************************)
(* A frame with another method's answer is skipped, and the function then  *)
(* reads a struct from where the next frame begins.  There it finds a      *)
(* message header: to it, a bool with id 0 that is false, and no field of  *)
(* another known type.  What it leaves of that frame is lost here.         *)
(***************************************************************************)
Misread(m) ==
    ReadResult(ReplicaClient[m].result, [i \in {0} |-> [type |-> "bool", val |-> <<"success", 0>>]])

Receive(p, t) ==
    LET c == caller[p][t]
        stub == ReplicaClient[c.method]
        f == Head(link[p].toClient)
    IN
    /\ c.pc = "receive"
    /\ link[p].toClient # <<>>
    /\ link' = [link EXCEPT ![p].toClient = Tail(@)]
    /\ IF c.skipped THEN Returns(p, t, Result(c.method, Misread(c.method)))
       ELSE IF f.type = "exception" THEN Returns(p, t, Thrown)
       ELSE IF f.name # stub.call THEN Become(p, t, [c EXCEPT !.skipped = TRUE])
       ELSE Returns(p, t, Result(c.method, ReadResult(stub.result, f.body)))
    /\ UNCHANGED <<waiting, pool, worker, up, calls, done>>

(* The connection has been closed, and all it carried has been read.       *)
Fail(p, t) ==
    /\ caller[p][t].pc = "receive"
    /\ link[p].state = "closed" /\ link[p].toClient = <<>>
    /\ Returns(p, t, Lost)
    /\ UNCHANGED <<link, waiting, pool, worker, up, calls, done>>

(* The caller has the outcome.                                             *)
Return(p, t) ==
    /\ caller[p][t].pc = "returned"
    /\ Become(p, t, Ready)
    /\ done' = [done EXCEPT ![p][t] = NoCall]
    /\ UNCHANGED <<link, waiting, pool, worker, up, calls>>

(* The process ends; another may take its place.                           *)
Leave(p) ==
    /\ link[p].state \in {"open", "closed"}
    /\ \A t \in Thread : ~InCall(p, t)
    /\ link' = [link EXCEPT ![p] =
                    IF @.state = "closed" THEN NoLink ELSE [@ EXCEPT !.state = "left"]]
    /\ UNCHANGED <<caller, waiting, pool, worker, up, calls, done>>

-----------------------------------------------------------------------------
(* The manager                                                             *)

(* Mutant: no limit to the threads.                                        *)
AcceptAlways ==
    /\ waiting # <<>>
    /\ pool' = pool \cup {Head(waiting)}
    /\ waiting' = Tail(waiting)
    /\ UNCHANGED <<caller, link, worker, up, calls, done>>

(* A thread of the pool takes the connection that waits longest.           *)
Accept ==
    /\ waiting # <<>> /\ Cardinality(pool) < PoolSize
    /\ pool' = pool \cup {Head(waiting)}
    /\ waiting' = Tail(waiting)
    /\ UNCHANGED <<caller, link, worker, up, calls, done>>

Exception(name) == [type |-> "exception", name |-> name, body |-> <<>>]

(* dispatchCall(): a process_ function reads the arguments; an unknown me- *)
(* thod is answered with an exception.                                     *)
Dispatch(p) ==
    LET f == Head(link[p].toServer) IN
    /\ p \in pool /\ worker[p] = NoRequest
    /\ link[p].toServer # <<>>
    /\ IF f.name \in DOMAIN ProcessMap
       THEN /\ worker' = [worker EXCEPT ![p] =
                    [method |-> f.name, by |-> f.by, k |-> f.k,
                     args |-> ReadArgs(ProcessMap[f.name].args, f.body)]]
            /\ link' = [link EXCEPT ![p].toServer = Tail(@)]
       ELSE /\ link' = [link EXCEPT ![p].toServer = Tail(@),
                        ![p].toClient = Append(@, Exception(f.name))]
            /\ UNCHANGED worker
    /\ UNCHANGED <<caller, waiting, pool, up, calls, done>>

(* A handler that answers returns, or throws a ReplicaError or another     *)
(* std::exception.                                                         *)
Outcomes(m, k) == {Thrown, Error(k), IF m \in Void THEN Done ELSE Value(k)}

(* Mutant: the exception is caught, and nobody is told.                    *)
FramesSilent(m, out) ==
    IF out = Thrown THEN <<>>
    ELSE <<[type |-> "reply", name |-> ProcessMap[m].reply,
            body |-> WriteResult(ProcessMap[m].result, out.struct)]>>

(* What a process_ function writes.                                        *)
Frames(m, out) ==
    IF out = Thrown THEN <<Exception(ProcessMap[m].reply)>>
    ELSE <<[type |-> "reply", name |-> ProcessMap[m].reply,
            body |-> WriteResult(ProcessMap[m].result, out.struct)]>>

Finish(p) ==
    LET w == worker[p] IN
    /\ w.method \in DOMAIN ProcessMap \ Oneway
    /\ \E out \in Outcomes(w.method, w.k) :
        /\ link' = [link EXCEPT ![p].toClient = @ \o Frames(w.method, out)]
        /\ done' = [done EXCEPT ![p][w.by] =
                        [method |-> w.method, args |-> w.args, out |-> out]]
    /\ worker' = [worker EXCEPT ![p] = NoRequest]
    /\ UNCHANGED <<caller, waiting, pool, up, calls>>

Closed(l) ==
    IF l.state = "open" THEN [l EXCEPT !.state = "closed", !.toServer = <<>>]
    ELSE IF l.state = "left" THEN NoLink
    ELSE l

(* A handler throws the char const * of operator[]: no process_ function   *)
(* catches it, and the connection is closed.                               *)
Escape(p) ==
    /\ worker[p].method \in {"create", "apply", "getState", "remove"}
    /\ link' = [link EXCEPT ![p] = Closed(@)]
    /\ worker' = [worker EXCEPT ![p] = NoRequest]
    /\ pool' = pool \ {p}
    /\ UNCHANGED <<caller, waiting, up, calls, done>>

(* exit() ends the manager, and with it every connection.                  *)
HandlerExit(p) ==
    /\ worker[p].method = "exit"
    /\ up' = FALSE
    /\ link' = [q \in Process |-> Closed(link[q])]
    /\ worker' = [q \in Process |-> NoRequest]
    /\ pool' = {} /\ waiting' = <<>>
    /\ UNCHANGED <<caller, calls, done>>

(* The thread finds the end of the connection, and is free for another.    *)
Drop(p) ==
    /\ p \in pool /\ worker[p] = NoRequest
    /\ link[p].state = "left" /\ link[p].toServer = <<>>
    /\ link' = [link EXCEPT ![p] = NoLink]
    /\ pool' = pool \ {p}
    /\ UNCHANGED <<caller, waiting, worker, up, calls, done>>

-----------------------------------------------------------------------------
CallerStep(p, t) == SendCall(p, t) \/ Receive(p, t) \/ Fail(p, t) \/ Return(p, t)
WorkerStep(p) == Dispatch(p) \/ Finish(p) \/ Escape(p) \/ HandlerExit(p) \/ Drop(p)

RpcNext ==
    \/ \E p \in Process, t \in Thread : Call(p, t) \/ CallerStep(p, t)
    \/ \E p \in Process : Leave(p) \/ WorkerStep(p)
    \/ Accept

RpcSpec == RpcInit /\ [][RpcNext]_vars

(* Threads are scheduled, and handlers end.  Nobody needs to call or leave.*)
RpcFairness ==
    /\ \A p \in Process, t \in Thread : WF_vars(CallerStep(p, t))
    /\ \A p \in Process : WF_vars(WorkerStep(p))
    /\ WF_vars(Accept)

FairRpcSpec == RpcSpec /\ RpcFairness

-----------------------------------------------------------------------------
(* Properties                                                              *)

(* An open connection waits for a thread or has one, never both; there are *)
(* no more threads than the pool has, and only they run handlers.          *)
RpcTypeOK ==
    /\ \A p \in Process, t \in Thread :
        /\ caller[p][t].pc \in {"ready", "send", "receive", "returned"}
        /\ caller[p][t].method \in DOMAIN ReplicaClient
        /\ InCall(p, t) => link[p].state \in {"open", "closed"}
    /\ \A p \in Process :
        /\ link[p].state \in {"none", "open", "closed", "left"}
        /\ worker[p] # NoRequest => p \in pool
        /\ link[p].state \in {"open", "left"} <=>
            p \in pool \/ \E i \in DOMAIN waiting : waiting[i] = p
    /\ Cardinality(pool) <= PoolSize
    /\ \A i \in DOMAIN waiting : waiting[i] \notin pool
    /\ up \in BOOLEAN /\ calls \in 0 .. MaxCall

(***************************************************************************)
(* A call that does not fail returns what a handler of the same method has *)
(* done for this thread, with the arguments of this call.                  *)
(***************************************************************************)
OwnAnswer ==
    \A p \in Process, t \in Thread :
        LET c == caller[p][t]
            d == done[p][t]
        IN  c.pc = "returned" /\ c.method \notin Oneway /\ c.out # Lost =>
                /\ d # NoCall
                /\ d.method = c.method
                /\ d.args = Struct(ReplicaClient[c.method].args, c.k)
                /\ d.out.kind = c.out.kind
                /\ d.out.struct = c.out.struct

(* Every call returns: connections get a thread as long as no more are     *)
(* open than there are threads, and no thread waits for an answer in vain. *)
CallsReturn ==
    \A p \in Process, t \in Thread : InCall(p, t) ~> ~InCall(p, t)
=============================================================================
